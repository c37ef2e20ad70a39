----------------------------- MODULE Speedlight -----------------------------
(***************************************************************************)
(* One Speedlight switch (speedlight/p4src: Pkt.p4, Pkt_W.p4, Pkt_WC.p4)   *)
(* taking synchronized snapshots of its packet counters.  Every port has   *)
(* an ingress and an egress processing unit, each with its own registers.  *)
(* A data packet carries the snapshot id of the unit that sent it; a unit  *)
(* that meets a newer id records its counter before counting the packet,   *)
(* and with channel state a packet that is older than the unit is added to *)
(* the recorded value, because it was on the wire when the snapshot was    *)
(* taken.  A packet is processed by one unit in one step: the registers of *)
(* a unit are touched by one pipeline at a time.                           *)
(*                                                                         *)
(* Around the switch: startsnap sends initiations to every port through    *)
(* the CPU port; ports lead to a host, whose packets carry no header, or   *)
(* to a neighbouring switch, whose ids only grow.  Snapshots are numbered  *)
(* 1, 2, 3... ("full" ids); a packet carries the number modulo IdMod,      *)
(* because startsnap writes one byte.                                      *)
(***************************************************************************)
EXTENDS SpeedlightIds, Sequences, FiniteSets, FiniteSetsExt

CONSTANTS
    Ports,        \* numbered 1..NUM_PORTS in the code
    CPU,          \* the sender of initiations
    MaxSnap,      \* bound: snapshots started
    Setups        \* the programs, surroundings and bounds a behaviour may have

ASSUME SpeedlightAssumption ==
    /\ CPU \notin Ports
    /\ MaxSnap \in Nat
    /\ \A s \in Setups :
         /\ s.prog \in {"Pkt", "Pkt_W", "Pkt_WC"}
         /\ s.hosts \subseteq Ports
         /\ s.idMod \in Nat \ {0}
         /\ s.prog = "Pkt" => MaxSnap < s.idMod
         /\ s.windowed \in BOOLEAN
         /\ {s.max_snapshots, s.pkts, s.losses} \subseteq Nat

Units   == {"in", "eg"} \X Ports
Senders == Ports \cup {CPU}
Snaps   == 0..MaxSnap

VARIABLES
    setup,    \* the program and the surroundings of this behaviour
    pu,       \* registers of each unit: counter, id, last_seen, value
    inq,      \* packets on the link into a port
    cpuq,     \* initiations on their way to a port
    egq,      \* packets queued for a port's egress pipeline
    notifs,   \* notifications cloned to the CPU
    issued,   \* last snapshot startsnap sent to a port
    nbr,      \* snapshot the neighbour on a port has reached
    pkts,     \* data packets so far
    losses,   \* packets lost so far
    full,     \* history: full id a unit is at
    seen,     \* history: full id behind each last_seen register
    sent,     \* history: data packets to a unit from before each snapshot
    inits,    \* history: initiations a unit processed
    base,     \* history: inits when the unit took a snapshot
    complete  \* history: snapshots that every channel closed in time

regs == <<pu, notifs>>
env  == <<setup, issued, nbr, pkts, losses>>
hist == <<full, seen, sent, inits, base, complete>>
vars == <<pu, inq, cpuq, egq, notifs, env, hist>>

HostPorts == setup.hosts              \* the ports that lead to a host
IdMod == setup.idMod                  \* ids on the wire: 256 in startsnap.cpp
MAX_SNAPSHOTS == setup.max_snapshots  \* the tables have entries for 0..MAX_SNAPSHOTS
Windowed == setup.windowed            \* snapshots wait for the slowest channel (see Window)
MaxPkts == setup.pkts                 \* bounds: data packets, packets lost
MaxLoss == setup.losses

\* Ids wrap around; packets in flight are recorded.
Wrap == setup.prog # "Pkt"
ChannelState == setup.prog = "Pkt_WC"

Init ==
    /\ setup \in Setups
    /\ pu = [u \in Units |->
                [counter |-> 0, id |-> 0,
                 last_seen |-> [s \in Senders |-> 0],
                 value |-> [i \in 0..(IdMod - 1) |-> 0]]]
    /\ inq = [p \in Ports |-> <<>>]
    /\ cpuq = [p \in Ports |-> <<>>]
    /\ egq = [p \in Ports |-> <<>>]
    /\ notifs = {}
    /\ issued = [p \in Ports |-> 0]
    /\ nbr = [p \in Ports |-> 0]
    /\ pkts = 0
    /\ losses = 0
    /\ full = [u \in Units |-> 0]
    /\ seen = [u \in Units |-> [s \in Senders |-> 0]]
    /\ sent = [u \in Units |-> [n \in Snaps |-> 0]]
    /\ inits = [u \in Units |-> 0]
    /\ base = [u \in Units |-> [n \in Snaps |-> 0]]
    /\ complete = {}

-----------------------------------------------------------------------------
(* One packet at one unit.  A packet m has the id it carries, the full id *)
(* behind it, its snapshot_feature (0 came in without a header, 1 from a  *)
(* switch, 2 an initiation) and its sender.                               *)

\* teCheckRollover and tiCheckRollover have entries for features 1 and 2.
RolledOver(u, m) ==
    Wrap /\ m.feature # 0 /\ rollover_check(pu[u].last_seen[m.src], m.id) # 0

SnapshotCase(u, m) ==
    LET reg == pu[u].id
        fls == pu[u].last_seen[m.src]
    IN IF ~Wrap THEN SetSnapshotCase(reg, m.id)
       ELSE IF RolledOver(u, m) THEN SetSnapshotCaseRollover(reg, fls, m.id)
       ELSE SetSnapshotCaseNoRollover(reg, fls, m.id)

SnapshotId(u, m) ==
    LET reg == pu[u].id
        fls == pu[u].last_seen[m.src]
    IN IF ~Wrap THEN riUpdateSnapshotId(reg, m.id)
       ELSE IF RolledOver(u, m) THEN riUpdateSnapshotIdRollover(reg, fls, m.id)
       ELSE riUpdateSnapshotIdNoRollover(reg, fls, m.id)

\* A unit that leaves packets in flight out of the snapshot, and one that
\* records the counter after the packet.
SnapshotValue_NoInflight(u, m) ==
    IF SnapshotCase(u, m) = NewSS
    THEN [pu[u].value EXCEPT ![m.id] = pu[u].counter] ELSE pu[u].value

SnapshotValue_AfterIncrement(u, m) ==
    IF SnapshotCase(u, m) = NewSS
    THEN [pu[u].value EXCEPT ![m.id] = pu[u].counter + 1] ELSE pu[u].value

\* tiTakeSnapshot, or tiUpdateSnapshotValue with channel state: the counter
\* before this packet, plus one for every data packet that arrives late.
SnapshotValue(u, m) ==
    CASE SnapshotCase(u, m) = NewSS /\ m.id <= MAX_SNAPSHOTS ->
            [pu[u].value EXCEPT ![m.id] = pu[u].counter]
      [] /\ SnapshotCase(u, m) = InFlight
         /\ ChannelState /\ m.feature # 2 /\ pu[u].id <= MAX_SNAPSHOTS ->
            [pu[u].value EXCEPT ![pu[u].id] = @ + 1]
      [] OTHER -> pu[u].value

\* A switch that only reports packets that start a snapshot.
NotificationType_OnlyNew(u, m) ==
    IF SnapshotCase(u, m) = NewSS THEN {"NEWSS_NEWNBR"} ELSE {}

\* Which notification a packet causes.  With channel state the tables look
\* at snapshot_changed_check first.  The egress entries that should single
\* out initiations match snapshot_feature = 30, which no packet has, so
\* every egress notification names the sender.
NotificationType(u, m) ==
    LET new == SnapshotCase(u, m) = NewSS
    IN CASE ~ChannelState /\ new -> {"NEWSS"}
         [] ChannelState /\ m.id # pu[u].last_seen[m.src] /\ u[1] = "in" ->
              CASE new /\ m.feature = 1 -> {"NEWSS_NEWNBR"}
                [] new -> {"NEWSS"}
                [] ~new /\ m.feature = 1 -> {"NEWNBR"}
                [] OTHER -> {}
         [] ChannelState /\ m.id # pu[u].last_seen[m.src] /\ u[1] = "eg" ->
              IF new THEN {"NEWSS_NEWNBR"} ELSE {"NEWNBR"}
         [] OTHER -> {}

\* The id the packet leaves with, and the full id the unit is then at.
CurrentId(u, m) ==
    IF SnapshotCase(u, m) = NewSS /\ m.id <= MAX_SNAPSHOTS THEN m.id ELSE pu[u].id

FullId(u, m) == IF SnapshotCase(u, m) = NewSS THEN m.full ELSE full[u]

\* The senders whose data packets reach a unit.
Channels(u) == IF u[1] = "eg" THEN Ports \ {u[2]} ELSE {u[2]} \ HostPorts

Register(u, m) ==
    /\ pu' = [pu EXCEPT ![u] =
                [counter |-> @.counter + 1,
                 id |-> SnapshotId(u, m),
                 last_seen |-> IF Wrap THEN [@.last_seen EXCEPT ![m.src] = m.id]
                               ELSE @.last_seen,
                 value |-> SnapshotValue(u, m)]]
    /\ notifs' = notifs \cup
         {[unit |-> u, type |-> t, src |-> m.src, feature |-> m.feature,
           full |-> m.full] : t \in NotificationType(u, m)}

Record(u, m) ==
    LET n == FullId(u, m)
    IN /\ full' = [full EXCEPT ![u] = n]
       /\ seen' = [seen EXCEPT ![u][m.src] = m.full]
       /\ inits' = IF m.feature = 2 THEN [inits EXCEPT ![u] = @ + 1] ELSE inits
       /\ base' = IF SnapshotCase(u, m) = NewSS
                  THEN [base EXCEPT ![u][n] = inits[u]] ELSE base
       /\ complete' = IF \A s \in Channels(u) : seen'[u][s] >= n
                      THEN complete \cup {<<u, n>>} ELSE complete

\* d more data packets to a unit whose sender was at snapshot k.
Before(counts, k, d) == [n \in Snaps |-> IF k < n THEN counts[n] + d ELSE counts[n]]

\* A data packet joins the queue of egress q with the id of the ingress.
Enqueue(q, m) ==
    /\ egq' = [egq EXCEPT ![q] = Append(@, m)]
    /\ sent' = [sent EXCEPT !["eg", q] = Before(@, m.full, 1)]

-----------------------------------------------------------------------------
(* The surroundings.                                                      *)

\* Every channel of every unit has carried a recent enough id for the wrapped
\* ids to be told apart.  Nothing in the code sees to this; with Windowed it
\* is assumed of whoever starts snapshots.
Oldest == Min(UNION {{seen[u][s] : s \in Channels(u) \cup {CPU}} : u \in Units})

Window(n) == Windowed => n - Oldest < IdMod

\* startsnap: the processes of different ports run independently.
Initiate(p) ==
    /\ issued[p] < MaxSnap
    /\ Window(issued[p] + 1)
    /\ issued' = [issued EXCEPT ![p] = @ + 1]
    /\ cpuq' = [cpuq EXCEPT ![p] = Append(@, issued'[p])]
    /\ UNCHANGED <<setup, regs, inq, egq, nbr, pkts, losses, hist>>

NeighborAdvance(p) ==
    /\ p \notin HostPorts
    /\ nbr[p] < MaxSnap
    /\ Window(nbr[p] + 1)
    /\ nbr' = [nbr EXCEPT ![p] = @ + 1]
    /\ UNCHANGED <<setup, regs, inq, cpuq, egq, issued, pkts, losses, hist>>

NeighborSend(p) ==
    /\ p \notin HostPorts
    /\ pkts < MaxPkts
    /\ pkts' = pkts + 1
    /\ inq' = [inq EXCEPT ![p] = Append(@, nbr[p])]
    /\ sent' = [sent EXCEPT !["in", p] = Before(@, nbr[p], 1)]
    /\ UNCHANGED <<setup, regs, cpuq, egq, issued, nbr, losses,
                   full, seen, inits, base, complete>>

\* Initiations, link packets and queued packets can be lost.
LoseInitiation(p) ==
    /\ losses < MaxLoss
    /\ cpuq[p] # <<>>
    /\ losses' = losses + 1
    /\ cpuq' = [cpuq EXCEPT ![p] = Tail(@)]
    /\ UNCHANGED <<setup, regs, inq, egq, issued, nbr, pkts, hist>>

LoseLink(p) ==
    /\ losses < MaxLoss
    /\ inq[p] # <<>>
    /\ losses' = losses + 1
    /\ inq' = [inq EXCEPT ![p] = Tail(@)]
    /\ sent' = [sent EXCEPT !["in", p] = Before(@, Head(inq[p]), -1)]
    /\ UNCHANGED <<setup, regs, cpuq, egq, issued, nbr, pkts,
                   full, seen, inits, base, complete>>

-----------------------------------------------------------------------------
(* The switch.                                                            *)

\* Ingress, feature 0: the packet of a host gets a header with the unit's id.
IngressHost(p, q) ==
    LET u == <<"in", p>>
        m == [feature |-> 0, src |-> p, id |-> pu[u].id, full |-> full[u]]
    IN /\ p \in HostPorts
       /\ pkts < MaxPkts
       /\ pkts' = pkts + 1
       /\ pu' = [pu EXCEPT ![u].counter = @ + 1]
       /\ egq' = [egq EXCEPT ![q] = Append(@, m)]
       /\ sent' = [sent EXCEPT !["eg", q] = Before(@, full[u], 1),
                               ![u] = Before(@, full[u], 1)]
       /\ UNCHANGED <<setup, notifs, inq, cpuq, issued, nbr, losses,
                      full, seen, inits, base, complete>>

\* Ingress, feature 1: a packet from the neighbour, forwarded to port q.
IngressLink(p, q) ==
    LET u == <<"in", p>>
        n == Head(inq[p])
        m == [feature |-> 1, src |-> p, id |-> n % IdMod, full |-> n]
    IN /\ inq[p] # <<>>
       /\ inq' = [inq EXCEPT ![p] = Tail(@)]
       /\ Register(u, m)
       /\ Record(u, m)
       /\ Enqueue(q, [m EXCEPT !.id = CurrentId(u, m), !.full = FullId(u, m)])
       /\ UNCHANGED <<cpuq, env>>

\* An ingress that keeps initiations from the egress unit of the port.
IngressInitiation_NotForwarded(p) ==
    LET u == <<"in", p>>
        n == Head(cpuq[p])
        m == [feature |-> 2, src |-> CPU, id |-> n % IdMod, full |-> n]
    IN /\ cpuq[p] # <<>>
       /\ cpuq' = [cpuq EXCEPT ![p] = Tail(@)]
       /\ Register(u, m)
       /\ Record(u, m)
       /\ UNCHANGED <<inq, egq, sent, env>>

\* Ingress, feature 2: an initiation, passed on as it is to the egress unit
\* of the same port.
IngressInitiation(p) ==
    LET u == <<"in", p>>
        n == Head(cpuq[p])
        m == [feature |-> 2, src |-> CPU, id |-> n % IdMod, full |-> n]
    IN /\ cpuq[p] # <<>>
       /\ cpuq' = [cpuq EXCEPT ![p] = Tail(@)]
       /\ Register(u, m)
       /\ Record(u, m)
       /\ egq' = [egq EXCEPT ![p] = Append(@, m)]
       /\ UNCHANGED <<inq, sent, env>>

\* Egress: data packets leave with the unit's id, initiations are dropped.
Egress(q) ==
    LET u == <<"eg", q>>
        m == Head(egq[q])
    IN /\ egq[q] # <<>>
       /\ egq' = [egq EXCEPT ![q] = Tail(@)]
       /\ Register(u, m)
       /\ Record(u, m)
       /\ UNCHANGED <<inq, cpuq, sent, env>>

Next ==
    \/ \E p \in Ports :
          \/ Initiate(p) \/ NeighborAdvance(p) \/ NeighborSend(p)
          \/ LoseInitiation(p) \/ LoseLink(p)
          \/ IngressInitiation(p) \/ Egress(p)
    \/ \E p \in Ports : \E q \in Ports \ {p} : IngressHost(p, q) \/ IngressLink(p, q)

Spec == Init /\ [][Next]_vars

\* startsnap sends every snapshot of its range and the pipelines are never
\* stopped while a packet waits; which one runs next is left open, and nothing
\* obliges hosts and neighbours to send.
Busy ==
    \E p \in Ports :
        \/ cpuq[p] # <<>> \/ egq[p] # <<>> \/ inq[p] # <<>>
        \/ issued[p] < MaxSnap /\ Window(issued[p] + 1)

FairSpec == Spec /\ ([]<>~Busy \/ []<><<TRUE>>_vars)

-----------------------------------------------------------------------------
(* Properties.                                                            *)

\* The value register of snapshot n still belongs to n.
Kept(u, n) == n > full[u] - IdMod

\* A snapshot is exact (Pkt_WC, tiUpdateSnapshotValue): if every channel of a
\* unit brought id n or later before the unit moved past n, the value recorded
\* for n is the number of data packets the senders sent before their own
\* snapshot n, the ones in flight included and each once, plus the initiations
\* the unit itself had counted.
CompleteSnapshotsExact ==
    ChannelState => \A c \in complete :
        LET u == c[1]
            n == c[2]
        IN n > 0 /\ Kept(u, n) =>
             pu[u].value[n % IdMod] = base[u][n] + sent[u][n]

\* The cut is consistent in every variant: a unit at snapshot n never has
\* recorded more packets than were sent to it before snapshot n, so no packet
\* is counted as received in a snapshot that does not count it as sent.
CutConsistent ==
    \A u \in Units :
        full[u] > 0 =>
            pu[u].value[pu[u].id] <= base[u][full[u]] + sent[u][full[u]]

\* "Postcondition: reg_snapshot_id = max(...) includes wrapping/rollover": no
\* unit is left behind a packet it has processed, although it sees the id only
\* modulo IdMod, and the id register, written by the primitives, is the id of
\* the snapshot the case tables last started.
IdsFollow ==
    \A u \in Units :
        /\ \A s \in Senders : full[u] >= seen[u][s]
        /\ pu[u].id = full[u] % IdMod

\* What the CPU is told (tiSendNotificationWithChannelState, "any time we get
\* a new snapshot from a neighbor"): the id register and the last_seen register
\* of every channel are known from the notifications alone.
NotificationsCover ==
    ChannelState => \A u \in Units :
        /\ full[u] > 0 =>
             \E e \in notifs : /\ e.unit = u
                               /\ e.full = full[u]
                               /\ e.type \in {"NEWSS", "NEWSS_NEWNBR"}
        /\ \A s \in Channels(u) :
             seen[u][s] > 0 =>
                \E e \in notifs : /\ e.unit = u
                                  /\ e.src = s
                                  /\ e.full = seen[u][s]
                                  /\ e.type \in {"NEWNBR", "NEWSS_NEWNBR"}

\* Every snapshot startsnap starts reaches both units of its port, and startsnap
\* starts them all unless it waits for a channel, as long as no packet is lost.
SnapshotsReached ==
    <>[](\/ losses > 0
         \/ \A u \in Units :
                full[u] >= IF Windowed THEN issued[u[2]] ELSE MaxSnap)
=============================================================================

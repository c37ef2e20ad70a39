-------------------------------- MODULE Ndp --------------------------------
(***************************************************************************)
(* NDP transport (ndp/sim/ndp.cpp, ndp.h): senders push a first window and *)
(* then send one packet per pull; the receiver answers every packet with   *)
(* an ACK, every header with a NACK, and its pacer spreads the pulls of    *)
(* all flows (fairpullqueue.cpp).  All flows meet in one switch port       *)
(* (CompositeQueue), which returns headers it has no room for.             *)
(*                                                                         *)
(* Packets are numbered from 1, one for every _mss bytes.  Packets take    *)
(* several paths, so net (to the port) and back (to the senders) are bags. *)
(* What leaves the port is received at once: one pipe leads from the port  *)
(* to the receivers.  The pacer number never matters, as RCV_CWND is 0.    *)
(* Time is what the pacer knows of it: whether a drain time has passed.    *)
(***************************************************************************)
EXTENDS CompositeQueue, Integers, FiniteSets, Bags, FiniteSetsExt, SequencesExt

CONSTANTS
    Flows,         \* flow ids, numbers
    Window,        \* _cwnd in packets
    HIST_LEN,      \* 12
    FlightMod,     \* 2^32, in packets
    Workloads,     \* records: resend, whether RESEND_ON_TIMEOUT is defined; size,
                   \* the packets of each flow, 0 if it is not connected
    MaxFaults,     \* bounds, without and with timeouts, of: packets cut to a
                   \* header, headers of other connections, losses, and timeouts
                   \* though no packet was lost
    MaxLoss        \* bound: data packets lost, where timeouts resend them

VARIABLES
    resend,        \* whether RESEND_ON_TIMEOUT is defined
    src,           \* the NdpSrc of each flow
    net,           \* data packets on their way to the port
    queue,         \* the port
    sink,          \* the NdpSink of each flow
    pacer,         \* the NdpPullPacer they share, with its FairPullQueue
    back,          \* packets on their way to the senders
    faults, losses,  \* the ones so far, for the bounds
    got,           \* history: packets each sink has received in full
    acked,         \* history: packets each sender has had an ACK for
    stalled        \* history: flows that may wait for a pull that came

vars == <<resend, src, net, queue, sink, pacer, back, faults, losses,
          got, acked, stalled>>

bounds == <<resend, faults, losses>>

Data(f, n) == [flow |-> f, seq |-> n, hdr |-> FALSE, bounced |-> FALSE]
Foreign == [flow |-> 0, seq |-> 0, hdr |-> TRUE, bounced |-> TRUE]

One(x) == SetToBag({x})
BagOf(s) == FoldSeq(LAMBDA x, b : b (+) One(x), EmptyBag, s)

Init ==
    /\ \E w \in Workloads :
         /\ resend = w.resend
         /\ src = [f \in Flows |->
                [started |-> FALSE, flow_size |-> w.size[f], highest_sent |-> 0, last_acked |-> 0,
                 last_pull |-> 0, pull_window |-> 0, first_window_count |-> 0,
                 flight_size |-> 0, rtx_queue |-> <<>>, sent_times |-> {},
                 armed |-> FALSE, rtx_timeout_pending |-> FALSE, feedback |-> <<>>]]
    /\ net = EmptyBag
    /\ queue = EmptyQueue
    /\ sink = [f \in Flows |-> [cumulative_ack |-> 0, received |-> <<>>,
                                pull_no |-> 0, last_packet_seqno |-> 0]]
    /\ pacer = [pulls |-> [f \in Flows |-> <<>>], queue_map |-> {}, current |-> 0,
                elapsed |-> TRUE, timers |-> 0, due |-> 0]
    /\ back = EmptyBag
    /\ faults = 0 /\ losses = 0
    /\ got = [f \in Flows |-> {}]
    /\ acked = [f \in Flows |-> {}]
    /\ stalled = {}

-----------------------------------------------------------------------------
(* The sender.                                                            *)

\* n calls of send_packet: first what waits for retransmission, then new
\* packets while there are any.
Resent(s, n) == Min({n, Len(s.rtx_queue)})
Fresh(s, n) == Min({n - Resent(s, n), s.flow_size - s.highest_sent})

Sent(s, n) ==
    SubSeq(s.rtx_queue, 1, Resent(s, n))
    \o [i \in 1..Fresh(s, n) |-> s.highest_sent + i]

\* (What is resent stays in the queue.)
send_packet_NoPop(s, n) ==
    [s EXCEPT !.highest_sent = @ + Fresh(s, n),
              !.flight_size = (@ + Fresh(s, n)) % FlightMod,
              !.sent_times = @ \cup ToSet(Sent(s, n)),
              !.armed = @ \/ Sent(s, n) # <<>>]

send_packet(s, n) ==
    [s EXCEPT !.rtx_queue = SubSeq(@, Resent(s, n) + 1, Len(@)),
              !.highest_sent = @ + Fresh(s, n),
              !.flight_size = (@ + Fresh(s, n)) % FlightMod,
              !.sent_times = @ \cup ToSet(Sent(s, n)),
              !.armed = @ \/ Sent(s, n) # <<>>]

\* The sender of f goes on from s and calls send_packet n times.
SrcSends(f, s, n) ==
    /\ src' = [src EXCEPT ![f] = send_packet(s, n)]
    /\ net' = net (+) BagOf([i \in DOMAIN Sent(s, n) |-> Data(f, Sent(s, n)[i])])

\* (A pull counts as one, whatever its number.)
SrcPulled_ByOne(f, s, pull_no) ==
    LET n == Max({0, pull_no - s.last_pull})
    IN SrcSends(f, [s EXCEPT !.last_pull = @ + Min({1, n})], n)

\* pull_packets: the pull number is cumulative.
SrcPulled(f, s, pull_no) ==
    LET n == Max({0, pull_no - s.last_pull})
    IN SrcSends(f, [s EXCEPT !.last_pull = @ + n], n)

startflow(f) ==
    LET n == Min({Window, src[f].flow_size})
    IN /\ n > 0 /\ ~src[f].started
       /\ SrcSends(f, [src[f] EXCEPT !.started = TRUE, !.first_window_count = n], n)
       /\ UNCHANGED <<queue, sink, pacer, back, bounds, got, acked, stalled>>

count_feedback(s, fb) ==
    LET h == Append(s.feedback, fb)
    IN [s EXCEPT !.feedback = IF Len(h) > HIST_LEN THEN Tail(h) ELSE h]

is_bad_path(s) ==
    LET ack_count == Len(SelectSeq(s.feedback, LAMBDA fb : fb = "ACK"))
    IN ack_count > 0 /\ Len(s.feedback) \div ack_count <= 3

Take(m) == back' = back (-) One(m)

\* (A sender that waits for pulls it does not expect.)
ResendsBounce_Never(s) == is_bad_path(s)

\* A returned packet is resent at once if no pull is expected.
ResendsBounce(s) ==
    (s.pull_window = 0 /\ s.first_window_count <= 1) \/ is_bad_path(s)

processRTS(m) ==
    LET f == m.flow
        s == count_feedback([src[f] EXCEPT !.first_window_count = @ - 1,
                                           !.sent_times = @ \ {m.seq},
                                           !.rtx_queue = <<m.seq>> \o @], "BOUNCE")
    IN /\ m.type = "RTS"
       /\ Take(m)
       /\ SrcSends(f, s, IF ResendsBounce(s) THEN 1 ELSE 0)
       /\ stalled' = IF /\ ~ResendsBounce(s) /\ s.pull_window # 0
                        /\ sink[f].pull_no = s.last_pull
                     THEN stalled \cup {f} ELSE stalled
       /\ UNCHANGED <<queue, sink, pacer, bounds, got, acked>>

processNack(m) ==
    LET f == m.flow
        s == count_feedback([src[f] EXCEPT !.pull_window = @ + 1,
                                           !.first_window_count = @ - 1,
                                           !.sent_times = @ \ {m.seq},
                                           !.rtx_queue = Append(@, m.seq)], "NACK")
    IN /\ m.type = "NACK"
       /\ Take(m)
       /\ IF m.pull THEN SrcPulled(f, s, m.pullno) ELSE SrcSends(f, s, 0)
       /\ stalled' = IF src[f].last_pull >= m.no THEN stalled \cup {f} ELSE stalled
       /\ UNCHANGED <<queue, sink, pacer, bounds, got, acked>>

processAck(m) ==
    LET f == m.flow
        s == count_feedback([src[f] EXCEPT !.pull_window = IF m.pull THEN @ ELSE @ + 1,
                                           !.first_window_count = @ - 1,
                                           !.sent_times = @ \ {m.seq},
                                           !.last_acked = Max({@, m.cum}),
                                           !.flight_size = (@ - 1) % FlightMod,
                                           !.armed = src[f].sent_times \ {m.seq} # {}],
                            "ACK")
    IN /\ m.type = "ACK"
       /\ Take(m)
       /\ IF m.pull THEN SrcPulled(f, s, m.pullno) ELSE SrcSends(f, s, 0)
       /\ acked' = [acked EXCEPT ![f] = @ \cup {m.seq}]
       /\ UNCHANGED <<queue, sink, pacer, bounds, got, stalled>>

receivePull(m) ==
    LET f == m.flow
    IN /\ m.type = "PULL"
       /\ Take(m)
       /\ SrcPulled(f, [src[f] EXCEPT !.pull_window = @ - 1,
                                      !.last_acked = Max({@, m.cum})], m.pullno)
       /\ UNCHANGED <<queue, sink, pacer, bounds, got, acked, stalled>>

UnderWay(f, n) ==
    \/ \E p \in BagToSet(net) \cup ToSet(queue.low) \cup ToSet(queue.high) :
          p.flow = f /\ p.seq = n
    \/ \E m \in BagToSet(back) : m.flow = f /\ m.type # "PULL" /\ m.seq = n

Lost(f) == {n \in src[f].sent_times : ~UnderWay(f, n)}

\* The timer's scan, and the event it schedules.  Which packets are overdue at
\* that moment is open; each one that was not lost counts as a fault, and so
\* does a timeout in vain.
rtx_timer_hook(f) ==
    /\ resend /\ src[f].highest_sent > 0 /\ src[f].armed /\ ~src[f].rtx_timeout_pending
    /\ Lost(f) # {} \/ faults < MaxFaults[resend]
    /\ src' = [src EXCEPT ![f].rtx_timeout_pending = TRUE]
    /\ UNCHANGED <<net, queue, sink, pacer, back, bounds, got, acked, stalled>>

Needless(f, overdue) ==
    IF overdue \cap Lost(f) = {} THEN Max({1, Cardinality(overdue)})
    ELSE Cardinality(overdue \ Lost(f))

retransmit_packet(f, overdue) ==
    /\ src[f].rtx_timeout_pending
    /\ overdue \cup Lost(f) = {} \/ faults + Needless(f, overdue) <= MaxFaults[resend]
    /\ faults' = Min({MaxFaults[resend], faults + Needless(f, overdue)})
    /\ src' = [src EXCEPT ![f].rtx_timeout_pending = FALSE,
                          ![f].sent_times = @ \ overdue,
                          ![f].armed = src[f].sent_times \ overdue # {}]
    /\ net' = net (+) SetToBag({Data(f, n) : n \in overdue})
    /\ UNCHANGED <<resend, queue, sink, pacer, back, losses, got, acked,
                   stalled>>

-----------------------------------------------------------------------------
(* The pull pacer.  timers are the events it has scheduled for the moment  *)
(* a drain time has passed since _last_pull, due the ones of this moment.  *)

Waiting(pc) == {f \in Flows : pc.pulls[f] # <<>>}

After(pc, f) == {g \in pc.queue_map : g > f}
Succ(pc, f) == IF After(pc, f) = {} THEN 0 ELSE Min(After(pc, f))

\* FairPullQueue: the flows take turns in the order of their ids (current is 0
\* at the end of the map).
Turn(pc) ==
    LET rest == {f \in Waiting(pc) : pc.current # 0 /\ f >= pc.current}
    IN IF rest = {} THEN Min(Waiting(pc)) ELSE Min(rest)

dequeue(pc) ==
    [pc EXCEPT !.pulls[Turn(pc)] = Tail(@), !.current = Succ(pc, Turn(pc))]

flush_flow(pc, f) ==
    IF f \notin pc.queue_map THEN pc
    ELSE [pc EXCEPT !.pulls[f] = <<>>, !.queue_map = @ \ {f},
                    !.current = IF @ = f THEN Succ(pc, f) ELSE @]

\* An ACK or NACK goes out at once; it pulls if the pacer is idle, otherwise a
\* pull is queued for it.
Idle(pc) == Waiting(pc) = {} /\ pc.elapsed

sendPacket(pc, f, ack) ==
    IF Idle(pc) THEN [pc EXCEPT !.elapsed = FALSE]
    ELSE [pc EXCEPT !.pulls[f] = Append(@, [type |-> "PULL", flow |-> f, cum |-> ack.cum,
                                            pullno |-> ack.pullno]),
                    !.queue_map = @ \cup {f},
                    !.timers = IF Waiting(pc) = {} THEN @ + 1 ELSE @]

dont_pull(ack) == [ack EXCEPT !.pull = FALSE, !.pullno = 0]

DrainTimePasses ==
    /\ ~pacer.elapsed /\ pacer.due = 0
    /\ pacer' = [pacer EXCEPT !.elapsed = TRUE, !.due = pacer.timers, !.timers = 0]
    /\ UNCHANGED <<src, net, queue, sink, back, bounds, got, acked, stalled>>

\* doNextEvent of the pacer.
SendPull ==
    LET f == Turn(pacer)
        left == dequeue(pacer)
    IN /\ pacer.due > 0
       /\ IF Waiting(pacer) = {}
          THEN /\ pacer' = [pacer EXCEPT !.due = @ - 1]
               /\ UNCHANGED back
          ELSE /\ back' = back (+) One(Head(pacer.pulls[f]))
               /\ pacer' = [left EXCEPT !.due = @ - 1, !.elapsed = FALSE,
                                        !.timers = IF Waiting(left) = {} THEN @ ELSE @ + 1]
       /\ UNCHANGED <<src, net, queue, sink, bounds, got, acked, stalled>>

-----------------------------------------------------------------------------
(* The receiver.                                                          *)

\* Packets above a hole are kept in order; one that fills it may take others
\* with it.
insert(r, n) ==
    IF r = <<>> \/ n > Last(r) THEN Append(r, n)
    ELSE LET i == SelectInSeq(r, LAMBDA x : x >= n)
         IN IF r[i] = n THEN r ELSE InsertAt(r, i, n)

Following(r, n) == Max({k \in 0..Len(r) : \A i \in 1..k : r[i] = n + i})

\* (What follows the packet stays in the list.)
record_OnlyOne(k, n) ==
    CASE n = k.cumulative_ack + 1 -> [k EXCEPT !.cumulative_ack = n]
      [] n < k.cumulative_ack + 1 -> k
      [] OTHER -> [k EXCEPT !.received = insert(@, n)]

record(k, n) ==
    CASE n = k.cumulative_ack + 1 ->
           [k EXCEPT !.cumulative_ack = n + Following(k.received, n),
                     !.received = SubSeq(@, Following(k.received, n) + 1, Len(@))]
      [] n < k.cumulative_ack + 1 -> k
      [] OTHER -> [k EXCEPT !.received = insert(@, n)]

\* send_ack, and send_nack for a header.  no is history: the number that came
\* with the packet, also when dont_pull takes it away.
send_ack(p, k) ==
    [type |-> IF p.hdr THEN "NACK" ELSE "ACK", flow |-> p.flow, seq |-> p.seq,
     cum |-> k.cumulative_ack, pull |-> TRUE, pullno |-> k.pull_no, no |-> k.pull_no]

\* receivePacket, with release_pulls.
SinkReceives(p) ==
    LET f == p.flow
        k0 == [sink[f] EXCEPT !.pull_no = @ + 1]
        k == IF p.hdr THEN k0
             ELSE record([k0 EXCEPT !.last_packet_seqno =
                             IF p.seq = src[f].flow_size THEN p.seq ELSE @], p.seq)
        ack == send_ack(p, k)
        pc == sendPacket(pacer, f, ack)
        all == ~p.hdr /\ k.last_packet_seqno > 0 /\ k.cumulative_ack = k.last_packet_seqno
    IN /\ sink' = [sink EXCEPT ![f] = k]
       /\ back' = back (+) One(IF Idle(pacer) THEN ack ELSE dont_pull(ack))
       /\ pacer' = IF all THEN flush_flow(pc, f) ELSE pc
       /\ got' = IF p.hdr THEN got ELSE [got EXCEPT ![f] = @ \cup {p.seq}]

-----------------------------------------------------------------------------
(* The network.                                                           *)

\* bounce: the header goes back to its sender.
Bounced(p) == [type |-> "RTS", flow |-> p.flow, seq |-> p.seq]

Trims(q) == q.queuesize_low + DATASIZE > MAXSIZE

Arrive(p, keep) ==
    LET r == receivePacket(queue, p, keep)
    IN /\ net' = net (-) One(p)
       /\ queue' = r.queue
       /\ back' = back (+) BagOf([i \in DOMAIN r.over |-> Bounced(r.over[i])])
       /\ Trims(queue) => faults < MaxFaults[resend]
       /\ faults' = IF Trims(queue) THEN faults + 1 ELSE faults
       /\ UNCHANGED <<resend, src, sink, pacer, losses, got, acked, stalled>>

\* A header of another connection; if there is no room it goes elsewhere.
CrossTraffic ==
    /\ faults < MaxFaults[resend]
    /\ faults' = faults + 1
    /\ queue' = receivePacket(queue, Foreign, FALSE).queue
    /\ UNCHANGED <<resend, src, net, sink, pacer, back, losses, got, acked, stalled>>

Serve ==
    /\ queue.serv # "INVALID"
    /\ queue' = completeService(queue)
    /\ IF Served(queue).flow = 0 THEN UNCHANGED <<sink, pacer, back, got>>
       ELSE SinkReceives(Served(queue))
    /\ UNCHANGED <<src, net, bounds, acked, stalled>>

Lose(p) ==
    /\ resend /\ losses < MaxLoss /\ faults < MaxFaults[resend]
    /\ losses' = losses + 1 /\ faults' = faults + 1
    /\ net' = net (-) One(p)
    /\ UNCHANGED <<resend, src, queue, sink, pacer, back, got, acked, stalled>>

Feedback ==
    \E m \in BagToSet(back) :
        processRTS(m) \/ processNack(m) \/ processAck(m) \/ receivePull(m)

Arrival == \E p \in BagToSet(net), keep \in BOOLEAN : Arrive(p, keep)

Pacer == DrainTimePasses \/ SendPull

Timeout ==
    \E f \in Flows : \/ rtx_timer_hook(f)
                    \/ \E overdue \in SUBSET src[f].sent_times : retransmit_packet(f, overdue)

Start == \E f \in Flows : startflow(f)

System == Start \/ Feedback \/ Arrival \/ Serve \/ Pacer \/ Timeout

Next == System \/ CrossTraffic \/ \E p \in BagToSet(net) : Lose(p)

Spec == Init /\ [][Next]_vars

\* The event list runs on while an event is scheduled: Busy is ENABLED System,
\* spelled out.
Busy ==
    \/ \E f \in Flows : \/ src[f].flow_size > 0 /\ ~src[f].started
                       \/ src[f].rtx_timeout_pending
                       \/ /\ resend /\ src[f].armed /\ src[f].highest_sent > 0
                          /\ Lost(f) # {} \/ faults < MaxFaults[resend]
    \/ net # EmptyBag /\ (faults < MaxFaults[resend] \/ ~Trims(queue))
    \/ back # EmptyBag
    \/ queue.serv # "INVALID"
    \/ ~pacer.elapsed \/ pacer.due > 0

FairSpec == Spec /\ ([]<>~Busy \/ []<><<TRUE>>_vars)

-----------------------------------------------------------------------------
(* Properties.                                                            *)

Copies(b, f, n) == BagCardinality([x \in {y \in DOMAIN b : y.flow = f /\ y.seq = n} |-> b[x]])
Occurs(s, f, n) == Cardinality({i \in DOMAIN s : s[i].flow = f /\ s[i].seq = n})
Count(s, n) == Cardinality({i \in DOMAIN s : s[i] = n})

Answers == [m \in {x \in DOMAIN back : x.type # "PULL"} |-> back[m]]

\* No packet is lost or sent twice without timeouts: one that was sent and not
\* acknowledged is in exactly one place, on its way, in the port, named by one
\* ACK, NACK or returned header, or waiting in _rtx_queue; and _flight_size
\* counts those packets.
NothingLost ==
    ~resend => \A f \in Flows :
        /\ \A n \in 1..src[f].flow_size :
              (IF n <= src[f].highest_sent /\ n \notin acked[f] THEN 1 ELSE 0) =
              Copies(net, f, n) + Occurs(queue.low, f, n) + Occurs(queue.high, f, n)
              + Copies(Answers, f, n) + Count(src[f].rtx_queue, n)
        /\ src[f].flight_size = src[f].highest_sent - Cardinality(acked[f])

\* Pulls pace the sender: packets of a flow under way and pulls it has not used
\* are never more than the first window, whatever is trimmed, returned, resent
\* or pulled twice.
WindowKept ==
    ~resend => \A f \in Flows :
        BagCardinality([p \in {x \in DOMAIN net : x.flow = f} |-> net[p]])
        + Cardinality({i \in DOMAIN queue.low : queue.low[i].flow = f})
        + Cardinality({i \in DOMAIN queue.high : queue.high[i].flow = f})
        + BagCardinality([m \in {x \in DOMAIN back : x.flow = f /\ x.type = "RTS"} |-> back[m]])
        + (sink[f].pull_no - src[f].last_pull) <= Window

\* The receiver's record is exact: _cumulative_ack and _received stand for the
\* packets that arrived in full, in order and once each, also when packets are
\* resent though they arrived; a sender learns of no others.
SinkExact ==
    \A f \in Flows :
        LET k == sink[f]
        IN /\ got[f] = 1..k.cumulative_ack \cup ToSet(k.received)
           /\ \A i \in DOMAIN k.received : k.received[i] > k.cumulative_ack + 1
           /\ \A i, j \in DOMAIN k.received : i < j => k.received[i] < k.received[j]
           /\ src[f].last_acked <= k.cumulative_ack /\ acked[f] \subseteq got[f]

\* The port between the flows keeps what the assertions of compositequeue.cpp
\* rely on, whatever is trimmed, displaced or returned to its sender.
PortSound == QueueSound(queue)

Finished(f) == src[f].last_acked = src[f].flow_size

\* A flow finishes, also after losses where timeouts resend, unless a NACK comes
\* after a pull with a later number was used up, or a returned packet waits for
\* a pull.
FlowsFinish == <>[](\A f \in Flows : Finished(f) \/ f \in stalled)

=============================================================================

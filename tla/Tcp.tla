-------------------------------- MODULE Tcp --------------------------------
(***************************************************************************)
(* TCP and DCTCP in the simulator (ndp/sim/tcp.cpp, dctcp.cpp), alone or   *)
(* as transfers that start again when they finish (tcp_transfer.cpp,       *)
(* dctcp_transfer.cpp), over one drop-tail queue that marks ECN (queue.cpp,*)
(* ecnqueue.cpp).  Sequence numbers count bytes; the SYN is byte 1.        *)
(*                                                                         *)
(* Time is not modelled: a timer that runs may expire at any time, but one *)
(* that expires while a packet or an ACK is on its way is a fault, as is a *)
(* loss outside the queue, and a workload bounds how many there are.       *)
(* Round trip times only set the timer, so they are left out; so are the   *)
(* fields that only loggers read (_unacked, _effcwnd, _sawtooth).          *)
(***************************************************************************)
EXTENDS Integers, Sequences, FiniteSetsExt, SequencesExt

CONSTANTS
    MSS,         \* _mss
    IW,          \* packets in the first window: 10 in startflow
    MAXWND,      \* 0xffffffff: the first _ssthresh, and _maxcwnd
    QSIZE, K,    \* _maxsize and _K of the queue, in bytes
    Workloads    \* records: dctcp; bytes, the flow's size; runs, how often it is
                 \* sent, 0 if it is no transfer; faults, how many there may be

ASSUME TcpAssumption ==
    /\ {MSS, IW, MAXWND, QSIZE, K} \subseteq Nat
    /\ MSS > 1 /\ IW > 0 /\ QSIZE >= MSS /\ MAXWND > IW * MSS
    /\ \A w \in Workloads : {w.bytes, w.runs, w.faults} \subseteq Nat /\ w.dctcp \in BOOLEAN

VARIABLES
    dctcp,       \* the source is a DCTCPSrc
    bytes,       \* _bytes_to_send
    runs,        \* transfers to come, 0 if the source is not a TcpSrcTransfer
    src, sink,
    events,      \* doNextEvent calls of the source that are scheduled
    queue,       \* data packets: seqno, size
    acks,        \* ACKs: ackno, ecn
    budget,      \* faults that may still happen
    got,         \* history: the packets the sink has received
    lowered,     \* history: a timeout has moved _recoverq back
    late,        \* history: retransmissions when everything was acknowledged
    uncancelled  \* a transfer ended with a timeout event scheduled: the next may start early

vars == <<dctcp, bytes, runs, src, sink, events, queue, acks, budget,
          got, lowered, late, uncancelled>>

\* _flow_size, by set_flowsize and the constructors.
flow_size ==
    bytes + MSS * (IF runs = 0 THEN 1 ELSE IF dctcp THEN 3 ELSE 2)

\* timer is _RFC2988_RTO_timeout # timeInf.  alfa is _alfa > 0, and pkts_marked
\* is _pkts_marked > 0: all that their values decide but the exact cut.
FreshSrc ==
    [is_active |-> FALSE, established |-> FALSE, highest_sent |-> 0, last_acked |-> 0,
     cwnd |-> 0, ssthresh |-> MAXWND, dupacks |-> 0, recoverq |-> 0,
     in_fast_recovery |-> FALSE, timer |-> FALSE, rtx_timeout_pending |-> FALSE,
     pkts_seen |-> 0, pkts_marked |-> FALSE, alfa |-> FALSE, past_cwnd |-> 2 * MSS]

FreshSink == [cumulative_ack |-> 0, received |-> <<>>]

Init ==
    /\ \E w \in Workloads :
         dctcp = w.dctcp /\ bytes = w.bytes /\ runs = w.runs /\ budget = w.faults
    /\ src = FreshSrc
    /\ sink = FreshSink
    /\ events = 1
    /\ queue = <<>> /\ acks = <<>>
    /\ got = {} /\ lowered = FALSE /\ late = 0 /\ uncancelled = FALSE

-----------------------------------------------------------------------------
(* The source.  An operator returns the source and the packets it sends.   *)

Syn == [seqno |-> 1, size |-> 1]
Data(n) == [seqno |-> n, size |-> MSS]

Sends(s, ps) == [src |-> s, pkts |-> ps]

\* (The end of the packet is not looked at.)
send_packets_PastEnd(s) ==
    IF ~s.established
    THEN Sends([s EXCEPT !.highest_sent = 1, !.timer = TRUE], <<Syn>>)
    ELSE LET window == (s.last_acked + s.cwnd - s.highest_sent) \div MSS
             rest == (flow_size + 1 - s.highest_sent + MSS) \div MSS
             n == Max({0, Min({window, rest})})
         IN Sends([s EXCEPT !.highest_sent = @ + n * MSS, !.timer = @ \/ n > 0],
                  [i \in 1..n |-> Data(s.highest_sent + 1 + (i - 1) * MSS)])

send_packets(s) ==
    IF ~s.established
    THEN Sends([s EXCEPT !.highest_sent = 1, !.timer = TRUE], <<Syn>>)
    ELSE LET window == (s.last_acked + s.cwnd - s.highest_sent) \div MSS
             rest == (flow_size + 1 - s.highest_sent) \div MSS
             n == Max({0, Min({window, rest})})
         IN Sends([s EXCEPT !.highest_sent = @ + n * MSS, !.timer = @ \/ n > 0],
                  [i \in 1..n |-> Data(s.highest_sent + 1 + (i - 1) * MSS)])

retransmit_packet(s) ==
    IF ~s.established
    THEN Sends(s, <<Syn>>)
    ELSE Sends([s EXCEPT !.timer = TRUE], <<Data(s.last_acked + 1)>>)

\* retransmit_packet(); send_packets().
RetransmitAndSend(s) ==
    LET r == retransmit_packet(s)
        t == send_packets(r.src)
    IN Sends(t.src, r.pkts \o t.pkts)

\* In a DCTCPSrc the counts start anew.
deflate_window(s) ==
    LET t == [s EXCEPT !.ssthresh = Max({s.cwnd \div 2, 2 * MSS})]
    IN IF dctcp THEN [t EXCEPT !.pkts_seen = 0, !.pkts_marked = FALSE, !.past_cwnd = s.cwnd]
       ELSE t

inflate_window(s) ==
    LET newly_acked == Min({s.last_acked + s.cwnd - s.highest_sent, MSS})
    IN IF newly_acked < 0 THEN s
       ELSE [s EXCEPT !.cwnd = Min({MAXWND,
                IF @ < s.ssthresh THEN @ + Min({s.ssthresh - @, newly_acked})
                ELSE @ + (newly_acked * MSS) \div @})]

startflow(s) == send_packets([s EXCEPT !.cwnd = IW * MSS, !.established = FALSE])

NewAck(s, ackno) ==
    LET t == [s EXCEPT !.timer = ackno < s.highest_sent,
                       !.highest_sent = Max({@, ackno}),
                       !.last_acked = ackno]
        new_data == ackno - s.last_acked
    IN CASE ~s.in_fast_recovery ->
              send_packets(inflate_window([t EXCEPT !.dupacks = 0]))
         [] s.in_fast_recovery /\ ackno >= s.recoverq ->
              send_packets([t EXCEPT !.cwnd = Min({s.ssthresh, t.highest_sent - ackno + MSS}),
                                     !.dupacks = 0, !.in_fast_recovery = FALSE])
         [] OTHER ->
              RetransmitAndSend([t EXCEPT !.cwnd = Max({@ - new_data, 0}) + MSS])

\* (Duplicate ACKs start fast recovery even after a timeout.)
DupAck_AfterTimeout(s) ==
    LET t == [s EXCEPT !.dupacks = Min({@ + 1, 4})]
        d == deflate_window(t)
    IN CASE s.in_fast_recovery ->
              send_packets([s EXCEPT !.cwnd = Min({@ + MSS, MAXWND})])
         [] ~s.in_fast_recovery /\ t.dupacks # 3 -> send_packets(t)
         [] OTHER -> retransmit_packet([d EXCEPT !.cwnd = d.ssthresh + 3 * MSS,
                                                 !.in_fast_recovery = TRUE,
                                                 !.recoverq = s.highest_sent])

\* _dupacks counts on; no value above 3 differs from another.
DupAck(s) ==
    LET t == [s EXCEPT !.dupacks = Min({@ + 1, 4})]
        d == deflate_window(t)
    IN CASE s.in_fast_recovery ->
              send_packets([s EXCEPT !.cwnd = Min({@ + MSS, MAXWND})])
         [] ~s.in_fast_recovery /\ t.dupacks # 3 -> send_packets(t)
         [] OTHER ->
              IF s.last_acked < s.recoverq THEN Sends(t, <<>>)
              ELSE retransmit_packet([d EXCEPT !.cwnd = d.ssthresh + 3 * MSS,
                                               !.in_fast_recovery = TRUE,
                                               !.recoverq = s.highest_sent])

\* TcpSrc::receivePacket.
receiveAck(s, ackno) ==
    LET t == [s EXCEPT !.established = @ \/ ackno = 1]
    IN CASE ackno < s.last_acked -> Sends(s, <<>>)
         [] ackno = s.last_acked -> DupAck(t)
         [] ackno > s.last_acked -> NewAck(t, ackno)

\* DCTCPSrc::receivePacket before it calls that: once per window, _cwnd is
\* cut by a part of itself that is at most a half.
Marked(s, ecn) ==
    LET t == [s EXCEPT !.pkts_seen = @ + 1, !.pkts_marked = @ \/ ecn,
                       !.ssthresh = IF ecn THEN Min({@, s.cwnd}) ELSE @]
        u == [t EXCEPT !.pkts_seen = 0, !.pkts_marked = FALSE, !.alfa = @ \/ t.pkts_marked]
    IN IF t.pkts_seen * MSS < s.past_cwnd THEN {t}
       ELSE IF ~u.alfa THEN {[u EXCEPT !.past_cwnd = s.cwnd]}
       ELSE {[u EXCEPT !.cwnd = c, !.ssthresh = c, !.past_cwnd = c] :
                c \in {Max({n, MSS}) : n \in (s.cwnd \div 2)..s.cwnd}}

Timeout(s) ==
    LET flight == s.highest_sent - s.last_acked
        d == deflate_window([s EXCEPT !.cwnd = IF s.in_fast_recovery
                                               THEN Min({s.ssthresh, flight + MSS}) ELSE @])
    IN retransmit_packet(
         [d EXCEPT !.cwnd = MSS, !.in_fast_recovery = FALSE, !.recoverq = s.highest_sent,
                   !.highest_sent = IF s.established THEN s.last_acked + MSS ELSE @,
                   !.dupacks = 0, !.rtx_timeout_pending = FALSE])

-----------------------------------------------------------------------------
(* The sink and the queue.                                                 *)

\* How many packets at the front of received follow byte n without a gap.
Ready(received, n, size) ==
    Max({k \in 0..Len(received) : \A i \in 1..k : received[i] = n + 1 + (i - 1) * size})

\* (A packet that is held already is held twice.)
receiveData_Twice(k, p) ==
    LET cum == p.seqno + p.size - 1
        n == Ready(k.received, cum, p.size)
        place == Min({i \in 1..Len(k.received) : k.received[i] >= p.seqno})
    IN CASE p.seqno = k.cumulative_ack + 1 ->
              [cumulative_ack |-> cum + n * p.size,
               received |-> SubSeq(k.received, n + 1, Len(k.received))]
         [] p.seqno < k.cumulative_ack + 1 -> k
         [] OTHER ->
              IF k.received = <<>> \/ p.seqno > Last(k.received)
              THEN [k EXCEPT !.received = Append(@, p.seqno)]
              ELSE [k EXCEPT !.received = InsertAt(@, place, p.seqno)]

\* TcpSink::receivePacket, but for the ACK.
receiveData(k, p) ==
    LET cum == p.seqno + p.size - 1
        n == Ready(k.received, cum, p.size)
        place == Min({i \in 1..Len(k.received) : k.received[i] >= p.seqno})
    IN CASE p.seqno = k.cumulative_ack + 1 ->
              [cumulative_ack |-> cum + n * p.size,
               received |-> SubSeq(k.received, n + 1, Len(k.received))]
         [] p.seqno < k.cumulative_ack + 1 -> k
         [] OTHER ->
              IF k.received = <<>> \/ p.seqno > Last(k.received)
              THEN [k EXCEPT !.received = Append(@, p.seqno)]
              ELSE IF k.received[place] = p.seqno THEN k
              ELSE [k EXCEPT !.received = InsertAt(@, place, p.seqno)]

queuesize(q) == FoldSeq(LAMBDA p, n : n + p.size, 0, q)

\* Queue::receivePacket.
Enqueue(q, p) == IF queuesize(q) + p.size > QSIZE THEN q ELSE Append(q, p)

EnqueueAll(q, ps) == FoldLeft(Enqueue, q, ps)

-----------------------------------------------------------------------------

Idle == queue = <<>> /\ acks = <<>>

AllAcked == src.established /\ src.last_acked >= src.highest_sent

\* doNextEvent: the start of a flow, or a timeout.  A transfer that is not
\* active starts, whatever the event was for.  A restart comes a millisecond
\* after the transfer finished, when the packets of that are gone.
doNextEvent ==
    LET starts == runs > 0 /\ ~src.is_active
        timeout == ~starts /\ src.rtx_timeout_pending
        r == CASE starts -> startflow([src EXCEPT !.is_active = TRUE])
               [] timeout -> Timeout(src)
               [] OTHER -> startflow(src)
    IN /\ events > 0
       /\ starts => uncancelled \/ Idle
       /\ events' = events - 1
       /\ src' = r.src
       /\ queue' = EnqueueAll(queue, r.pkts)
       /\ sink' = IF starts THEN FreshSink ELSE sink
       /\ got' = IF starts THEN {} ELSE got
       /\ lowered' = (lowered \/ (timeout /\ src.highest_sent < src.recoverq))
       /\ late' = IF timeout /\ AllAcked THEN late + 1 ELSE late
       /\ UNCHANGED <<dctcp, bytes, runs, acks, budget, uncancelled>>

TimerRuns ==
    /\ runs > 0 => src.is_active
    /\ src.timer /\ src.highest_sent # 0 /\ ~src.rtx_timeout_pending

\* The timer has expired when the scanner looks.
rtx_timer_hook ==
    /\ TimerRuns
    /\ Idle \/ budget > 0
    /\ src' = [src EXCEPT !.rtx_timeout_pending = TRUE]
    /\ events' = events + 1
    /\ budget' = IF Idle THEN budget ELSE budget - 1
    /\ UNCHANGED <<dctcp, bytes, runs, sink, queue, acks, got, lowered, late, uncancelled>>

\* The queue sends a packet, marked if it is over its threshold, to the sink,
\* which acknowledges what it has and echoes the mark.
completeService ==
    LET p == Head(queue)
    IN /\ queue # <<>>
       /\ queue' = Tail(queue)
       /\ sink' = receiveData(sink, p)
       /\ acks' = Append(acks, [ackno |-> sink'.cumulative_ack, ecn |-> queuesize(queue) > K])
       /\ got' = got \cup {p.seqno}
       /\ UNCHANGED <<dctcp, bytes, runs, src, events, budget, lowered, late, uncancelled>>

\* (The last ACK is remembered.)
reset_KeepsAcked(s) ==
    [s EXCEPT !.highest_sent = 0, !.ssthresh = MAXWND, !.dupacks = 0,
              !.recoverq = 0, !.in_fast_recovery = FALSE, !.established = FALSE,
              !.rtx_timeout_pending = FALSE, !.timer = FALSE, !.is_active = FALSE]

\* TcpSrcTransfer::reset.
reset(s) ==
    [s EXCEPT !.highest_sent = 0, !.last_acked = 0, !.ssthresh = MAXWND, !.dupacks = 0,
              !.recoverq = 0, !.in_fast_recovery = FALSE, !.established = FALSE,
              !.rtx_timeout_pending = FALSE, !.timer = FALSE, !.is_active = FALSE]

Sizes == {w.bytes : w \in {v \in Workloads : v.dctcp}}

\* An ACK arrives.  A transfer that has sent all its bytes ends, and starts
\* again unless it is the last; a DCTCP transfer picks a new size.
receivePacket ==
    LET a == Head(acks)
        ignored == runs > 0 /\ ~src.is_active
    IN /\ acks # <<>>
       /\ acks' = Tail(acks)
       /\ UNCHANGED <<dctcp, sink, budget, got, lowered>>
       /\ \/ /\ ignored
             /\ UNCHANGED <<bytes, runs, src, events, queue, late, uncancelled>>
          \/ /\ ~ignored
             /\ \E s \in IF dctcp THEN Marked(src, a.ecn) ELSE {src} :
                  LET r == receiveAck(s, a.ackno)
                      ends == runs > 0 /\ r.src.last_acked >= bytes
                  IN /\ queue' = EnqueueAll(queue, r.pkts)
                     /\ late' = IF r.src.in_fast_recovery /\ ~src.in_fast_recovery /\ AllAcked
                                THEN late + 1 ELSE late
                     /\ uncancelled' = (uncancelled \/ (ends /\ events > 0))
                     /\ \/ /\ ~ends
                           /\ src' = r.src
                           /\ UNCHANGED <<bytes, runs, events>>
                        \/ /\ ends /\ runs = 1
                           /\ src' = [r.src EXCEPT !.is_active = FALSE]
                           /\ UNCHANGED <<bytes, runs, events>>
                        \/ /\ ends /\ runs > 1
                           /\ src' = reset(r.src)
                           /\ bytes' \in IF dctcp THEN Sizes ELSE {bytes}
                           /\ runs' = runs - 1
                           /\ events' = events + 1

\* Loss that is not the queue's.
Lose ==
    /\ budget > 0
    /\ budget' = budget - 1
    /\ \/ queue # <<>> /\ queue' = Tail(queue) /\ UNCHANGED acks
       \/ acks # <<>> /\ acks' = Tail(acks) /\ UNCHANGED queue
    /\ UNCHANGED <<dctcp, bytes, runs, src, sink, events, got, lowered, late, uncancelled>>

Next == doNextEvent \/ rtx_timer_hook \/ completeService \/ receivePacket \/ Lose

Spec == Init /\ [][Next]_vars

\* The event list runs on while there is an event, and the scanner scans.
Busy == ~Idle \/ events > 0 \/ TimerRuns

FairSpec == Spec /\ ([]<>~Busy \/ []<><<TRUE>>_vars)

-----------------------------------------------------------------------------
(* Properties.                                                             *)

\* The sink acknowledges what it has received up to the first gap and holds
\* exactly the rest, in order (the list of receivePacket), and the source never
\* takes more for acknowledged.
SinkExact ==
    LET r == sink.received
    IN ~uncancelled =>
         /\ \A i \in 1..Len(r) - 1 : r[i] < r[i + 1]
         /\ Range(r) = {n \in got : n > sink.cumulative_ack}
         /\ sink.cumulative_ack + 1 \notin got
         /\ \A n \in 1..sink.cumulative_ack : (n = 1 \/ (n - 2) % MSS = 0) => n \in got
         /\ (src.is_active \/ runs = 0) => src.last_acked <= sink.cumulative_ack

\* Nothing beyond the flow's end is sent, but for one packet by each timeout
\* that an ACK of everything overtook.
FlowKept ==
    runs = 0 => src.highest_sent <= flow_size + 1 + late * MSS

\* The packet that fast recovery resends was lost.
Lost(n) == n \notin got /\ \A i \in 1..Len(queue) : queue[i].seqno # n

BeginsRecovery == ~src.in_fast_recovery /\ src'.in_fast_recovery

\* Fast recovery begins only for a packet that was lost, even when duplicate
\* ACKs come from packets a timeout resent needlessly: unless they acknowledge
\* just what had been sent before the timeout, or a second one moved that back.
RecoveryJustified ==
    [][BeginsRecovery /\ ~lowered /\ ~uncancelled =>
         Lost(src.last_acked + 1) \/ src.last_acked = src.recoverq]_vars

\* Every flow is sent and acknowledged in full, and every transfer starts again
\* as often as it is meant to.
FlowsFinish ==
    <>[](\/ uncancelled
         \/ runs = 0 /\ src.last_acked >= flow_size /\ ~src.timer
         \/ runs = 1 /\ ~src.is_active /\ src.last_acked >= bytes)
=============================================================================

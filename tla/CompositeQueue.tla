--------------------------- MODULE CompositeQueue ---------------------------
(***************************************************************************)
(* NDP's switch port (ndp/sim/compositequeue.cpp): full packets wait in a  *)
(* low-priority queue, headers in a high-priority one.  A packet that does *)
(* not fit is cut to its header, or takes the place of the last one queued *)
(* which is cut instead; a header that does not fit goes back to its       *)
(* sender.  A queue is a record; the first element is the next one out.    *)
(***************************************************************************)
EXTENDS Naturals, Sequences

CONSTANTS
    MAXSIZE,     \* _maxsize, of each of the two queues
    DATASIZE,    \* the size of a full packet
    ACKSIZE,     \* the size of a header
    RATIO_HIGH, RATIO_LOW

ASSUME CompositeQueueAssumption ==
    /\ {MAXSIZE, DATASIZE, ACKSIZE, RATIO_HIGH, RATIO_LOW} \subseteq Nat \ {0}
    /\ ACKSIZE <= DATASIZE /\ DATASIZE <= MAXSIZE

\* streak is history: headers served in a row while a full packet waited.
EmptyQueue ==
    [low |-> <<>>, high |-> <<>>, queuesize_low |-> 0, queuesize_high |-> 0,
     serv |-> "INVALID", crt |-> 0, streak |-> 0]

strip_payload(pkt) == [pkt EXCEPT !.hdr = TRUE]

\* (Headers first, always.)
beginService_HeadersFirst(q) ==
    LET high == q.high # <<>>
    IN [q EXCEPT !.serv = IF high THEN "HIGH" ELSE "LOW",
                 !.streak = IF high /\ q.low # <<>> THEN @ + 1 ELSE 0]

\* While both queues hold something they take turns, RATIO_HIGH to RATIO_LOW.
beginService(q) ==
    LET both == q.low # <<>> /\ q.high # <<>>
        next == IF q.crt + 1 >= RATIO_HIGH + RATIO_LOW THEN 0 ELSE q.crt + 1
        high == IF both THEN next < RATIO_HIGH ELSE q.high # <<>>
    IN [q EXCEPT !.crt = IF both THEN next ELSE @,
                 !.serv = IF high THEN "HIGH" ELSE "LOW",
                 !.streak = IF both /\ high THEN @ + 1 ELSE 0]

BeginIfIdle(q) == IF q.serv = "INVALID" THEN beginService(q) ELSE q

\* The packet completeService sends on, and the queue it leaves.
Served(q) == IF q.serv = "LOW" THEN Head(q.low) ELSE Head(q.high)

completeService(q) ==
    LET left == IF q.serv = "LOW"
                THEN [q EXCEPT !.low = Tail(@), !.queuesize_low = @ - DATASIZE]
                ELSE [q EXCEPT !.high = Tail(@), !.queuesize_high = @ - ACKSIZE]
    IN IF left.low = <<>> /\ left.high = <<>>
       THEN [left EXCEPT !.serv = "INVALID", !.streak = 0]
       ELSE beginService(left)

HighFull(q) == q.queuesize_high + ACKSIZE > MAXSIZE

PushHigh(q, pkt) == [q EXCEPT !.high = Append(@, pkt), !.queuesize_high = @ + ACKSIZE]
PushLow(q, pkt) == [q EXCEPT !.low = Append(@, pkt), !.queuesize_low = @ + DATASIZE]

\* The last packet of the low queue loses its place.
Boot(q) == [q EXCEPT !.low = SubSeq(@, 1, Len(@) - 1), !.queuesize_low = @ - DATASIZE]

\* receivePacket: the queue afterwards, and the headers that found no room;
\* keep is the outcome of drand() < 0.5.
receivePacket(q, pkt, keep) ==
    LET header == strip_payload(pkt)
        booted == strip_payload(q.low[Len(q.low)])
    IN CASE ~pkt.hdr /\ q.queuesize_low + DATASIZE <= MAXSIZE ->
              [queue |-> BeginIfIdle(PushLow(q, pkt)), over |-> <<>>]
         [] ~pkt.hdr /\ q.queuesize_low + DATASIZE > MAXSIZE /\ keep ->
              [queue |-> BeginIfIdle(PushLow(IF HighFull(q) THEN Boot(q)
                                             ELSE PushHigh(Boot(q), booted), pkt)),
               over |-> IF HighFull(q) THEN <<booted>> ELSE <<>>]
         [] OTHER ->
              IF HighFull(q) THEN [queue |-> q, over |-> <<header>>]
              ELSE [queue |-> BeginIfIdle(PushHigh(q, header)), over |-> <<>>]

-----------------------------------------------------------------------------

\* What the assertions of compositequeue.cpp rely on: a port serves a queue
\* exactly when it holds something, and one that is not empty, also after the
\* packet in service lost its place to a new one; sizes are those of the
\* contents and within the limit; headers delay a full packet for at most
\* RATIO_HIGH services.
QueueSound(q) ==
    /\ q.queuesize_low = DATASIZE * Len(q.low) /\ q.queuesize_low <= MAXSIZE
    /\ q.queuesize_high = ACKSIZE * Len(q.high) /\ q.queuesize_high <= MAXSIZE
    /\ q.serv = "INVALID" <=> q.low = <<>> /\ q.high = <<>>
    /\ q.serv = "LOW" => q.low # <<>>
    /\ q.serv = "HIGH" => q.high # <<>>
    /\ \A i \in DOMAIN q.low : ~q.low[i].hdr
    /\ \A i \in DOMAIN q.high : q.high[i].hdr
    /\ q.streak <= RATIO_HIGH

=============================================================================

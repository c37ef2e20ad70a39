------------------------------ MODULE Lossless ------------------------------
(***************************************************************************)
(* Lossless Ethernet in the simulator (ndp/sim/queue_lossless*.cpp,        *)
(* switch.cpp, queue.cpp, pipe.cpp).  A link is the queue of its sender, a *)
(* pipe, and what receives from the pipe.  Hosts send from a PriorityQueue.*)
(* In mode "input" a switch sends from a LosslessOutputQueue and accounts  *)
(* for the packets it holds in a LosslessInputQueue for each link; in mode *)
(* "switch" both are one LosslessQueue, and the switch pauses for it.      *)
(*                                                                         *)
(* Packets have one size, 1; a packet is the flow it belongs to.  PAUSE    *)
(* frames are calls (sendPause, receivePacket), so they arrive at once.    *)
(* Speeds are not modelled: a service may take any time.                   *)
(***************************************************************************)
EXTENDS Integers, Sequences

CONSTANTS
    Links, Flows,
    From, To,      \* the two nodes of a link
    HostLinks,     \* the links whose sender is a host
    Route,         \* of a flow: its links in order
    Prio,          \* getPriority of a flow's packets: 0 (Q_LO) to 2 (Q_HI)
    Workloads,     \* records: mode, and packets, how many each flow has
    HIGH, LOW,     \* _high_threshold and _low_threshold
    MAXSIZE,       \* _maxsize of each input queue, in mode "input"
    QMAXSIZE,      \* _maxsize of a LosslessQueue, in mode "switch"
    PIPESIZE       \* packets that can be in a pipe: its delay over a service time

\* A route starts at a host and visits no link twice.  HIGH > LOW is asserted
\* by the constructors; MAXSIZE has room for what comes after a pause, and is
\* 20 packets to a HIGH of 15 in the code.
ASSUME LosslessAssumption ==
    /\ {HIGH, LOW, MAXSIZE, QMAXSIZE, PIPESIZE} \subseteq Nat
    /\ HIGH > LOW /\ MAXSIZE >= HIGH + PIPESIZE + 1
    /\ HostLinks \subseteq Links
    /\ Prio \in [Flows -> 0..2]
    /\ Route \in [Flows -> Seq(Links)]
    /\ \A f \in Flows :
         /\ Route[f] # <<>> /\ Route[f][1] \in HostLinks
         /\ \A i, j \in 1..Len(Route[f]) : Route[f][i] = Route[f][j] => i = j
    /\ \A w \in Workloads : w.mode \in {"input", "switch"} /\ w.packets \in [Flows -> Nat]

VARIABLES
    mode,
    todo,          \* packets of each flow not yet sent by their host
    out,           \* the queue of each link
    pipe,          \* the packets in each pipe, in order
    vin,           \* the LosslessInputQueue of each link
    crossed        \* history: paused queues whose senders another one resumed

vars == <<mode, todo, out, pipe, vin, crossed>>

Classes == 0..2
Q_NONE == 3

\* events counts the completeService events scheduled; the _sending of the
\* lossless queues is events > 0.  doubled is history.
EmptyOut ==
    [queue |-> [c \in Classes |-> <<>>], servicing |-> Q_NONE, events |-> 0,
     state_send |-> "READY", state_recv |-> "READY", doubled |-> FALSE]

Init ==
    /\ \E w \in Workloads : mode = w.mode /\ todo = w.packets
    /\ out = [l \in Links |-> EmptyOut]
    /\ pipe = [l \in Links |-> <<>>]
    /\ vin = [l \in Links |-> [queuesize |-> 0, state_recv |-> "READY"]]
    /\ crossed = {}

-----------------------------------------------------------------------------
(* The sending side, the same in all queues but for the test whether a     *)
(* packet is being sent: queuesize() > 0 in a PriorityQueue, _sending in   *)
(* the lossless queues.                                                    *)

queuesize(q) == Len(q.queue[0]) + Len(q.queue[1]) + Len(q.queue[2])

beginService(q) ==
    [q EXCEPT !.events = @ + 1,
              !.servicing = CHOOSE c \in Classes :
                               /\ q.queue[c] # <<>>
                               /\ \A d \in Classes : d > c => q.queue[d] = <<>>,
              !.doubled = @ \/ q.events > 0]

Sending(l, q) == IF l \in HostLinks THEN queuesize(q) > 0 ELSE q.events > 0

\* (A queue that is sending does not notice.)
Pause_WhenIdle(l, q) ==
    IF Sending(l, q) THEN q ELSE [q EXCEPT !.state_send = "PAUSED"]

Pause(l, q) ==
    [q EXCEPT !.state_send = IF Sending(l, q) THEN "PAUSE_RECEIVED" ELSE "PAUSED"]

\* (A packet being sent is not taken into account.)
Unpause_Always(l, q) ==
    LET r == [q EXCEPT !.state_send = "READY"]
    IN IF queuesize(q) > 0 THEN beginService(r) ELSE r

\* (The next packet to come starts the queue.)
Unpause_NotStarted(l, q) == [q EXCEPT !.state_send = "READY"]

Unpause(l, q) ==
    LET r == [q EXCEPT !.state_send = "READY"]
    IN IF queuesize(q) > 0 /\ (l \in HostLinks \/ q.events = 0) THEN beginService(r) ELSE r

Class(l, f) == IF l \in HostLinks THEN Prio[f] ELSE 0

Enqueue(l, q, f) ==
    LET r == [q EXCEPT !.queue[Class(l, f)] = Append(@, f)]
    IN IF queuesize(q) = 0 /\ q.state_send = "READY" THEN beginService(r) ELSE r

\* (A pause that came during the service is forgotten.)
Dequeue_UnlessPaused(q) ==
    LET r == [q EXCEPT !.queue[q.servicing] = Tail(@), !.events = @ - 1]
    IN IF queuesize(r) = 0 THEN [r EXCEPT !.servicing = Q_NONE]
       ELSE IF r.state_send # "PAUSED" THEN beginService(r) ELSE r

\* completeService, but for what it tells others.
Dequeue(q) ==
    LET r == [q EXCEPT !.queue[q.servicing] = Tail(@), !.events = @ - 1,
                       !.state_send = IF @ = "PAUSE_RECEIVED" THEN "PAUSED" ELSE @]
    IN IF queuesize(r) = 0 THEN [r EXCEPT !.servicing = Q_NONE]
       ELSE IF r.state_send = "READY" THEN beginService(r) ELSE r

-----------------------------------------------------------------------------
(* A switch that accounts for each incoming link.                          *)

Hop(f, l) == CHOOSE i \in 1..Len(Route[f]) : Route[f][i] = l
NextLink(f, l) == Route[f][Hop(f, l) + 1]
PrevLink(f, l) == Route[f][Hop(f, l) - 1]

\* LosslessInputQueue::receivePacket, then that of the output queue.
InputReceives(l, f) ==
    LET n == NextLink(f, l)
        size == vin[l].queuesize + 1
        stop == size > HIGH /\ vin[l].state_recv # "PAUSED"
    IN /\ vin' = [vin EXCEPT ![l] = [queuesize |-> size,
                                     state_recv |-> IF stop THEN "PAUSED" ELSE @.state_recv]]
       /\ out' = [out EXCEPT ![l] = IF stop THEN Pause(l, @) ELSE @,
                             ![n] = Enqueue(n, @, f)]
       /\ UNCHANGED crossed

\* completedService of the input queue a packet came through.
OutputCompletes(l, f) ==
    LET u == PrevLink(f, l)
        size == vin[u].queuesize - 1
        go == size < LOW /\ vin[u].state_recv = "PAUSED"
    IN /\ vin' = [vin EXCEPT ![u] = [queuesize |-> size,
                                     state_recv |-> IF go THEN "READY" ELSE @.state_recv]]
       /\ out' = [out EXCEPT ![u] = IF go THEN Unpause(u, @) ELSE @,
                             ![l] = Dequeue(@)]
       /\ UNCHANGED crossed

-----------------------------------------------------------------------------
(* A switch that pauses for each outgoing link.                            *)

\* Switch::sendPause: the senders to this switch, but for the node that the
\* problem queue leads to.
Informed(l) == {m \in Links : To[m] = From[l] /\ From[m] # To[l]}

QueueReceives(l, f) ==
    LET n == NextLink(f, l)
        q == Enqueue(n, out[n], f)
        stop == queuesize(q) > HIGH /\ q.state_recv # "PAUSED"
    IN /\ out' = [m \in Links |->
                    CASE m = n -> IF stop THEN [q EXCEPT !.state_recv = "PAUSED"] ELSE q
                      [] m # n /\ stop /\ m \in Informed(n) -> Pause(m, out[m])
                      [] OTHER -> out[m]]
       /\ UNCHANGED <<vin, crossed>>

QueueCompletes(l) ==
    LET q == Dequeue(out[l])
        go == queuesize(q) < LOW /\ q.state_recv = "PAUSED"
        others == {m \in Links : From[m] = From[l] /\ out[m].state_recv = "PAUSED"} \ {l}
    IN /\ out' = [m \in Links |->
                    CASE m = l -> IF go THEN [q EXCEPT !.state_recv = "READY"] ELSE q
                      [] m # l /\ go /\ m \in Informed(l) -> Unpause(m, out[m])
                      [] OTHER -> out[m]]
       /\ crossed' = IF go THEN (crossed \ {l}) \cup others ELSE crossed
       /\ UNCHANGED vin

-----------------------------------------------------------------------------

Send(f) ==
    LET l == Route[f][1]
    IN /\ todo[f] > 0
       /\ todo' = [todo EXCEPT ![f] = @ - 1]
       /\ out' = [out EXCEPT ![l] = Enqueue(l, @, f)]
       /\ UNCHANGED <<mode, pipe, vin, crossed>>

\* completeService; its assertion is that there is a packet.
CompleteService(l) ==
    LET q == out[l]
        f == Head(q.queue[q.servicing])
    IN /\ q.events > 0 /\ q.servicing # Q_NONE /\ q.queue[q.servicing] # <<>>
       /\ Len(pipe[l]) < PIPESIZE
       /\ pipe' = [pipe EXCEPT ![l] = Append(@, f)]
       /\ CASE l \in HostLinks ->
                 /\ out' = [out EXCEPT ![l] = Dequeue(@)]
                 /\ UNCHANGED <<vin, crossed>>
            [] l \notin HostLinks /\ mode = "input" -> OutputCompletes(l, f)
            [] l \notin HostLinks /\ mode = "switch" -> QueueCompletes(l)
       /\ UNCHANGED <<mode, todo>>

\* Pipe::doNextEvent.
PipeDelivers(l) ==
    LET f == Head(pipe[l])
    IN /\ pipe[l] # <<>>
       /\ pipe' = [pipe EXCEPT ![l] = Tail(@)]
       /\ IF l = Route[f][Len(Route[f])]
          THEN UNCHANGED <<out, vin, crossed>>
          ELSE \/ mode = "input" /\ InputReceives(l, f)
               \/ mode = "switch" /\ QueueReceives(l, f)
       /\ UNCHANGED <<mode, todo>>

Next ==
    \/ \E f \in Flows : Send(f)
    \/ \E l \in Links : CompleteService(l) \/ PipeDelivers(l)

Spec == Init /\ [][Next]_vars

\* The event list runs on while an event is scheduled: Busy is ENABLED Next,
\* spelled out.
CanComplete(l) ==
    /\ out[l].events > 0 /\ out[l].servicing # Q_NONE
    /\ out[l].queue[out[l].servicing] # <<>> /\ Len(pipe[l]) < PIPESIZE

Busy ==
    \/ \E f \in Flows : todo[f] > 0
    \/ \E l \in Links : CanComplete(l) \/ pipe[l] # <<>>

FairSpec == Spec /\ ([]<>~Busy \/ []<><<TRUE>>_vars)

-----------------------------------------------------------------------------
(* Properties.                                                             *)

\* "LOSSLESS not working! I should have dropped this packet": never, as long as
\* the sender sends no more than one packet at a time, and the queue is not one
\* whose pause another queue of the switch has ended.
NoOverflow ==
    IF mode = "input"
    THEN \A l \in Links : ~out[l].doubled => vin[l].queuesize <= MAXSIZE
    ELSE \A l \in Links \ (HostLinks \cup crossed) :
            (\A m \in Informed(l) : ~out[m].doubled) => queuesize(out[l]) <= QMAXSIZE

\* A sender is paused exactly as long as the queue it sends to wants it to be,
\* whatever it was doing when the frames came.
PauseHeeded ==
    mode = "input" =>
        \A l \in Links : (vin[l].state_recv = "PAUSED") <=> (out[l].state_send # "READY")

\* A lossless queue sends one packet at a time (the assertions of beginService),
\* and no queue that may send and has something to send is idle.
QueuesWork ==
    \A l \in Links :
        /\ l \notin HostLinks => out[l].events <= 1
        /\ out[l].state_send = "READY" /\ queuesize(out[l]) > 0 => out[l].events > 0
        /\ out[l].state_send = "PAUSED" /\ ~out[l].doubled => out[l].events = 0

\* Every packet arrives: no pause lasts for ever.
AllDelivered ==
    <>[](\/ /\ \A f \in Flows : todo[f] = 0
            /\ \A l \in Links : queuesize(out[l]) = 0 /\ pipe[l] = <<>>
         \/ \E l \in Links : out[l].doubled)

=============================================================================

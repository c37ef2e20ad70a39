--------------------------- MODULE LosslessProofs ---------------------------
(***************************************************************************)
(* Pausing works for every topology, route, load and threshold: a queue    *)
(* that may send and has a packet sends, a lossless queue sends one packet *)
(* at a time, a sender is paused exactly as long as the input queue it     *)
(* sends to is, and that queue never holds more than MAXSIZE packets.      *)
(*                                                                         *)
(* The invariant is about one queue (Works) and one link (LinkInv).  The   *)
(* bound needs what is still on its way when a pause is sent: the packets  *)
(* held, those in the pipe and the one being sent never exceed             *)
(* HIGH + PIPESIZE + 1 during a pause.                                     *)
(***************************************************************************)
EXTENDS Lossless, TLAPS

Over(l) == {f \in Flows : \E i \in 1..Len(Route[f]) : Route[f][i] = l}

Contents(l) == [Classes -> Seq(Over(l))]

Queues(l) ==
    [queue : Contents(l), servicing : 0..3, events : Nat,
     state_send : {"READY", "PAUSE_RECEIVED", "PAUSED"},
     state_recv : {"READY", "PAUSED"}, doubled : BOOLEAN]

Works(l, q) ==
    /\ q.state_send = "READY" /\ queuesize(q) > 0 => q.events > 0
    /\ l \notin HostLinks => ~q.doubled
    /\ ~q.doubled => /\ q.events <= 1
                     /\ q.events = 1 => queuesize(q) > 0
                     /\ q.state_send = "PAUSED" => q.events = 0

Bounded(size, recv, len, q) ==
    /\ size \in Int /\ recv \in {"READY", "PAUSED"}
    /\ recv = "PAUSED" <=> q.state_send # "READY"
    /\ recv = "READY" => size <= HIGH
    /\ recv = "PAUSED" /\ ~q.doubled => size + len + q.events <= HIGH + PIPESIZE + 1

LinkInv(l) == Bounded(vin[l].queuesize, vin[l].state_recv, Len(pipe[l]), out[l])

TypeInv ==
    /\ mode \in {"input", "switch"}
    /\ todo \in [Flows -> Nat]
    /\ DOMAIN out = Links /\ \A l \in Links : out[l] \in Queues(l)
    /\ DOMAIN pipe = Links
    /\ \A l \in Links : pipe[l] \in Seq(Over(l)) /\ Len(pipe[l]) <= PIPESIZE
    /\ DOMAIN vin = Links
    /\ \A l \in Links : vin[l] = [queuesize |-> vin[l].queuesize, state_recv |-> vin[l].state_recv]

IInv ==
    /\ TypeInv
    /\ \A l \in Links : Works(l, out[l])
    /\ mode = "input" => \A l \in Links : LinkInv(l)

-----------------------------------------------------------------------------
(* One queue.                                                              *)

\* A queue has a size, and one that is not empty has a packet in some class.
LEMMA Size ==
    ASSUME NEW l, NEW q \in Queues(l)
    PROVE  /\ queuesize(q) \in Nat
           /\ \A c \in Classes : q.queue[c] \in Seq(Over(l)) /\ Len(q.queue[c]) <= queuesize(q)
           /\ queuesize(q) > 0 =>
                \E c \in Classes : /\ q.queue[c] # <<>>
                                   /\ \A d \in Classes : d > c => q.queue[d] = <<>>
PROOF
<1>1. \A c \in Classes : q.queue[c] \in Seq(Over(l)) /\ Len(q.queue[c]) \in Nat
  BY DEF Queues, Contents
<1>2. \A c \in Classes : q.queue[c] = <<>> <=> Len(q.queue[c]) = 0
  BY <1>1
<1>3. /\ Classes = {0, 1, 2}
      /\ Len(q.queue[0]) \in Nat /\ Len(q.queue[1]) \in Nat /\ Len(q.queue[2]) \in Nat
  BY <1>1 DEF Classes
<1>4. queuesize(q) \in Nat /\ \A c \in Classes : Len(q.queue[c]) <= queuesize(q)
  <2> DEFINE a == Len(q.queue[0])
             b == Len(q.queue[1])
             d == Len(q.queue[2])
  <2>1. a \in Nat /\ b \in Nat /\ d \in Nat /\ queuesize(q) = a + b + d
    BY <1>3 DEF queuesize
  <2>2. \A c \in Classes : Len(q.queue[c]) \in {a, b, d}
    BY <1>3
  <2> HIDE DEF a, b, d
  <2> QED BY <2>1, <2>2
<1>5. ASSUME queuesize(q) > 0
      PROVE  \E c \in Classes : /\ q.queue[c] # <<>>
                                /\ \A d \in Classes : d > c => q.queue[d] = <<>>
  <2>1. CASE q.queue[2] # <<>>
    BY <2>1, <1>3
  <2>2. CASE q.queue[2] = <<>> /\ q.queue[1] # <<>>
    BY <2>2, <1>3
  <2>3. CASE q.queue[2] = <<>> /\ q.queue[1] = <<>>
    <3>1. q.queue[0] # <<>>
      BY <2>3, <1>2, <1>3, <1>5 DEF queuesize
    <3> QED BY <3>1, <2>3, <1>3
  <2> QED BY <2>1, <2>2, <2>3
<1> QED BY <1>1, <1>4, <1>5

\* beginService schedules one event for a class that has a packet.
LEMMA BeginService ==
    ASSUME NEW l, NEW q \in Queues(l), queuesize(q) > 0
    PROVE  /\ beginService(q) \in Queues(l)
           /\ beginService(q).queue = q.queue
           /\ queuesize(beginService(q)) = queuesize(q)
           /\ beginService(q).events = q.events + 1
           /\ beginService(q).state_send = q.state_send
           /\ beginService(q).doubled <=> q.doubled \/ q.events > 0
PROOF
<1> DEFINE c == CHOOSE c \in Classes : /\ q.queue[c] # <<>>
                                       /\ \A d \in Classes : d > c => q.queue[d] = <<>>
<1>1. c \in Classes
  BY Size
<1>2. beginService(q) = [q EXCEPT !.events = q.events + 1, !.servicing = c,
                                  !.doubled = (q.doubled \/ q.events > 0)]
  BY DEF beginService
<1> HIDE DEF c
<1>3. q.events \in Nat /\ (q.doubled \/ q.events > 0) \in BOOLEAN /\ c \in 0..3
  BY <1>1 DEF Queues, Classes
<1>4. beginService(q) \in Queues(l)
  <2> DEFINE b == (q.doubled \/ q.events > 0)
  <2>1. b \in BOOLEAN /\ beginService(q) = [q EXCEPT !.events = q.events + 1, !.servicing = c,
                                                     !.doubled = b]
    BY <1>2, <1>3
  <2> HIDE DEF b
  <2>2. q.events + 1 \in Nat
    BY <1>3
  <2> QED BY <2>1, <2>2, <1>3, ZenonT(60) DEF Queues
<1>5. /\ beginService(q).queue = q.queue /\ beginService(q).events = q.events + 1
      /\ beginService(q).state_send = q.state_send
      /\ beginService(q).doubled <=> q.doubled \/ q.events > 0
  BY <1>2, <1>3, Zenon DEF Queues
<1> QED BY <1>4, <1>5 DEF queuesize

\* A pause.
LEMMA PauseWorks ==
    ASSUME NEW l \in Links, NEW q \in Queues(l), Works(l, q)
    PROVE  /\ Pause(l, q) \in Queues(l) /\ Works(l, Pause(l, q))
           /\ Pause(l, q).state_send # "READY"
           /\ Pause(l, q).events = q.events /\ Pause(l, q).doubled = q.doubled
PROOF
<1>1. Pause(l, q) \in Queues(l) /\ queuesize(Pause(l, q)) = queuesize(q)
  BY DEF Pause, Queues, queuesize
<1>2. /\ Pause(l, q).events = q.events /\ Pause(l, q).doubled = q.doubled
      /\ Pause(l, q).state_send = IF Sending(l, q) THEN "PAUSE_RECEIVED" ELSE "PAUSED"
  BY DEF Pause, Queues
<1>3. queuesize(q) \in Nat /\ q.events \in Nat
  BY Size DEF Queues
<1>4. Works(l, Pause(l, q))
  BY <1>1, <1>2, <1>3 DEF Works, Sending
<1> QED BY <1>1, <1>2, <1>4

\* The end of a pause.
LEMMA UnpauseWorks ==
    ASSUME NEW l \in Links, NEW q \in Queues(l), Works(l, q)
    PROVE  /\ Unpause(l, q) \in Queues(l) /\ Works(l, Unpause(l, q))
           /\ Unpause(l, q).state_send = "READY"
PROOF
<1> DEFINE r == [q EXCEPT !.state_send = "READY"]
           go == queuesize(q) > 0 /\ (l \in HostLinks \/ q.events = 0)
<1>1. /\ r \in Queues(l) /\ queuesize(r) = queuesize(q) /\ r.events = q.events
      /\ r.doubled = q.doubled /\ r.state_send = "READY"
  BY DEF Queues, queuesize
<1>2. queuesize(q) \in Nat /\ q.events \in Nat
  BY Size DEF Queues
<1>3. Unpause(l, q) = IF go THEN beginService(r) ELSE r
  BY DEF Unpause
<1> HIDE DEF r
<1>4. CASE go
  <2>1. /\ beginService(r) \in Queues(l)
        /\ queuesize(beginService(r)) = queuesize(q)
        /\ beginService(r).events = q.events + 1
        /\ beginService(r).state_send = "READY"
        /\ (beginService(r).doubled <=> q.doubled \/ q.events > 0)
    BY <1>1, <1>4, BeginService
  <2>2. Works(l, beginService(r))
    BY <2>1, <1>2, <1>4 DEF Works
  <2> QED BY <2>1, <2>2, <1>3, <1>4
<1>5. CASE ~go
  BY <1>1, <1>2, <1>3, <1>5 DEF Works
<1> QED BY <1>4, <1>5

\* A packet joins a queue.
LEMMA EnqueueWorks ==
    ASSUME NEW l \in Links, NEW q \in Queues(l), Works(l, q), NEW f \in Over(l)
    PROVE  /\ Enqueue(l, q, f) \in Queues(l) /\ Works(l, Enqueue(l, q, f))
           /\ Enqueue(l, q, f).state_send = q.state_send
           /\ q.state_send # "READY" => /\ Enqueue(l, q, f).events = q.events
                                        /\ Enqueue(l, q, f).doubled = q.doubled
PROOF
<1> DEFINE c == Class(l, f)
           r == [q EXCEPT !.queue[c] = Append(q.queue[c], f)]
<1>1. c \in Classes
  BY LosslessAssumption DEF Class, Classes, Over
<1> HIDE DEF c
<1>2. /\ r \in Queues(l) /\ queuesize(r) = queuesize(q) + 1 /\ r.events = q.events
      /\ r.doubled = q.doubled /\ r.state_send = q.state_send
  <2> DEFINE t == [q.queue EXCEPT ![c] = Append(q.queue[c], f)]
  <2>1. q.queue \in Contents(l) /\ t \in Contents(l)
    BY <1>1 DEF Queues, Contents
  <2>2. \A d \in Classes : /\ Len(q.queue[d]) \in Nat
                           /\ Len(t[d]) = IF d = c THEN Len(q.queue[d]) + 1 ELSE Len(q.queue[d])
    BY <1>1, <2>1 DEF Contents
  <2>3. r = [q EXCEPT !.queue = t]
    BY DEF Queues
  <2> HIDE DEF t, r
  <2>4. r \in Queues(l) /\ r.queue = t /\ r.events = q.events /\ r.doubled = q.doubled
        /\ r.state_send = q.state_send
    BY <2>1, <2>3 DEF Queues
  <2>5. Classes = {0, 1, 2}
    BY DEF Classes
  <2>6. queuesize(r) = queuesize(q) + 1
    <3>1. /\ queuesize(r) = Len(t[0]) + Len(t[1]) + Len(t[2])
          /\ queuesize(q) = Len(q.queue[0]) + Len(q.queue[1]) + Len(q.queue[2])
      BY <2>4 DEF queuesize
    <3>2. c = 0 \/ c = 1 \/ c = 2
      BY <1>1, <2>5
    <3> DEFINE n(d) == Len(q.queue[d])
               m(d) == Len(t[d])
    <3>3. /\ n(0) \in Nat /\ m(0) = IF c = 0 THEN n(0) + 1 ELSE n(0)
          /\ n(1) \in Nat /\ m(1) = IF c = 1 THEN n(1) + 1 ELSE n(1)
          /\ n(2) \in Nat /\ m(2) = IF c = 2 THEN n(2) + 1 ELSE n(2)
      BY <2>2, <2>5
    <3>4. queuesize(r) = m(0) + m(1) + m(2) /\ queuesize(q) = n(0) + n(1) + n(2)
      BY <3>1
    <3> HIDE DEF n, m
    <3> QED BY <3>2, <3>3, <3>4
  <2> QED BY <2>4, <2>6
<1>3. queuesize(q) \in Nat /\ q.events \in Nat
  BY Size DEF Queues
<1> DEFINE go == queuesize(q) = 0 /\ q.state_send = "READY"
<1>4. Enqueue(l, q, f) = IF go THEN beginService(r) ELSE r
  BY DEF Enqueue, c
<1> HIDE DEF r
<1>5. CASE go
  <2>1. /\ beginService(r) \in Queues(l)
        /\ queuesize(beginService(r)) = queuesize(q) + 1
        /\ beginService(r).events = q.events + 1
        /\ beginService(r).state_send = q.state_send
        /\ (beginService(r).doubled <=> q.doubled \/ q.events > 0)
    BY <1>2, <1>3, BeginService
  <2>2. Works(l, beginService(r))
    BY <2>1, <1>3, <1>5 DEF Works
  <2> QED BY <2>1, <2>2, <1>4, <1>5
<1>6. CASE ~go
  BY <1>2, <1>3, <1>4, <1>6 DEF Works
<1> QED BY <1>5, <1>6

\* A packet leaves a queue.
LEMMA DequeueWorks ==
    ASSUME NEW l \in Links, NEW q \in Queues(l), Works(l, q),
           q.events > 0, q.servicing \in Classes, q.queue[q.servicing] # <<>>
    PROVE  /\ Dequeue(q) \in Queues(l) /\ Works(l, Dequeue(q))
           /\ Dequeue(q).state_send = "READY" <=> q.state_send = "READY"
           /\ q.state_send # "READY" => /\ Dequeue(q).events = q.events - 1
                                        /\ Dequeue(q).doubled = q.doubled
PROOF
<1> DEFINE c == q.servicing
           st == IF q.state_send = "PAUSE_RECEIVED" THEN "PAUSED" ELSE q.state_send
           r == [q EXCEPT !.queue[c] = Tail(q.queue[c]), !.events = q.events - 1,
                          !.state_send = st]
<1>1. /\ r \in Queues(l) /\ queuesize(r) = queuesize(q) - 1 /\ r.events = q.events - 1
      /\ r.doubled = q.doubled /\ r.state_send = st
  <2> DEFINE t == [q.queue EXCEPT ![c] = Tail(q.queue[c])]
  <2>1. q.queue \in Contents(l) /\ t \in Contents(l)
    BY DEF Queues, Contents
  <2>2. \A d \in Classes : /\ Len(q.queue[d]) \in Nat
                           /\ Len(t[d]) = IF d = c THEN Len(q.queue[d]) - 1 ELSE Len(q.queue[d])
    BY <2>1 DEF Contents
  <2>3. r = [q EXCEPT !.queue = t, !.events = q.events - 1, !.state_send = st]
    BY DEF Queues
  <2>4. q.events - 1 \in Nat /\ st \in {"READY", "PAUSE_RECEIVED", "PAUSED"}
    BY DEF Queues
  <2> HIDE DEF t, r, st
  <2>5. r \in Queues(l) /\ r.queue = t /\ r.events = q.events - 1 /\ r.doubled = q.doubled
        /\ r.state_send = st
    BY <2>1, <2>3, <2>4, Zenon DEF Queues
  <2>6. Classes = {0, 1, 2}
    BY DEF Classes
  <2>7. queuesize(r) = queuesize(q) - 1
    <3>1. /\ queuesize(r) = Len(t[0]) + Len(t[1]) + Len(t[2])
          /\ queuesize(q) = Len(q.queue[0]) + Len(q.queue[1]) + Len(q.queue[2])
      BY <2>5 DEF queuesize
    <3>2. c = 0 \/ c = 1 \/ c = 2
      BY <2>6
    <3> DEFINE n(d) == Len(q.queue[d])
               m(d) == Len(t[d])
    <3>3. /\ n(0) \in Nat /\ m(0) = IF c = 0 THEN n(0) - 1 ELSE n(0)
          /\ n(1) \in Nat /\ m(1) = IF c = 1 THEN n(1) - 1 ELSE n(1)
          /\ n(2) \in Nat /\ m(2) = IF c = 2 THEN n(2) - 1 ELSE n(2)
      BY <2>2, <2>6
    <3>4. queuesize(r) = m(0) + m(1) + m(2) /\ queuesize(q) = n(0) + n(1) + n(2)
      BY <3>1
    <3> HIDE DEF n, m
    <3> QED BY <3>2, <3>3, <3>4, SMTT(60)
  <2> QED BY <2>5, <2>7
<1>2. queuesize(q) \in Nat /\ queuesize(r) \in Nat /\ q.events \in Nat
  BY <1>1, Size DEF Queues
<1>3. Dequeue(q) = IF queuesize(r) = 0 THEN [r EXCEPT !.servicing = Q_NONE]
                   ELSE IF r.state_send = "READY" THEN beginService(r) ELSE r
  BY DEF Dequeue
<1>4. st # "PAUSE_RECEIVED" /\ (st = "READY" <=> q.state_send = "READY")
  BY DEF Queues
<1> HIDE DEF r, st
<1>5. CASE queuesize(r) = 0
  <2> DEFINE e == [r EXCEPT !.servicing = Q_NONE]
  <2>1. /\ e \in Queues(l) /\ queuesize(e) = 0 /\ e.events = q.events - 1
        /\ e.doubled = q.doubled /\ e.state_send = st
    <3>1. e \in Queues(l) /\ e.queue = r.queue /\ e.events = r.events
          /\ e.doubled = r.doubled /\ e.state_send = r.state_send
      BY <1>1 DEF Queues, Q_NONE
    <3> QED BY <3>1, <1>1, <1>5, Zenon DEF queuesize
  <2> HIDE DEF e
  <2>2. Works(l, e)
    BY <2>1, <1>2 DEF Works
  <2> QED BY <2>1, <2>2, <1>3, <1>4, <1>5 DEF e
<1>6. CASE queuesize(r) > 0 /\ st = "READY"
  <2>1. /\ beginService(r) \in Queues(l)
        /\ queuesize(beginService(r)) = queuesize(r)
        /\ beginService(r).events = q.events
        /\ beginService(r).state_send = st
        /\ (beginService(r).doubled <=> q.doubled \/ q.events > 1)
    BY <1>1, <1>2, <1>6, BeginService
  <2>2. Works(l, beginService(r))
    BY <2>1, <1>2, <1>6 DEF Works
  <2> QED BY <2>1, <2>2, <1>1, <1>3, <1>4, <1>6
<1>7. CASE queuesize(r) > 0 /\ st # "READY"
  <2>1. Works(l, r)
    BY <1>1, <1>2, <1>7 DEF Works
  <2> QED BY <2>1, <1>1, <1>3, <1>4, <1>7
<1> QED BY <1>2, <1>5, <1>6, <1>7

-----------------------------------------------------------------------------
(* Routes.                                                                 *)

\* A packet of f that is on link l finds l in its route.
LEMMA HopFound ==
    ASSUME NEW l, NEW f \in Over(l)
    PROVE  Hop(f, l) \in 1..Len(Route[f]) /\ Route[f][Hop(f, l)] = l
PROOF
  BY DEF Over, Hop

\* The next link of a route exists unless l is the last, and is another one.
LEMMA NextLinkFound ==
    ASSUME NEW l \in Links, NEW f \in Over(l), l # Route[f][Len(Route[f])]
    PROVE  NextLink(f, l) \in Links /\ f \in Over(NextLink(f, l)) /\ NextLink(f, l) # l
PROOF
<1> DEFINE h == Hop(f, l)
<1>1. f \in Flows /\ Route[f] \in Seq(Links) /\ Len(Route[f]) \in Nat
  BY LosslessAssumption DEF Over
<1>2. h \in 1..Len(Route[f]) /\ Route[f][h] = l
  BY HopFound
<1> HIDE DEF h
<1>3. h # Len(Route[f]) /\ h + 1 \in 1..Len(Route[f]) /\ h # h + 1
  BY <1>1, <1>2
<1>4. NextLink(f, l) = Route[f][h + 1]
  BY DEF NextLink, h
<1>5. Route[f][h + 1] \in Links /\ Route[f][h + 1] # Route[f][h]
  BY <1>1, <1>2, <1>3, LosslessAssumption, SMTT(60)
<1> QED BY <1>1, <1>2, <1>3, <1>4, <1>5 DEF Over

\* The link before a switch's link exists, and is another one.
LEMMA PrevLinkFound ==
    ASSUME NEW l \in Links \ HostLinks, NEW f \in Over(l)
    PROVE  PrevLink(f, l) \in Links /\ PrevLink(f, l) # l
PROOF
<1> DEFINE h == Hop(f, l)
<1>1. f \in Flows /\ Route[f] \in Seq(Links) /\ Len(Route[f]) \in Nat /\ Route[f][1] \in HostLinks
  BY LosslessAssumption DEF Over
<1>2. h \in 1..Len(Route[f]) /\ Route[f][h] = l
  BY HopFound
<1> HIDE DEF h
<1>3. h # 1 /\ h - 1 \in 1..Len(Route[f]) /\ h # h - 1
  BY <1>1, <1>2
<1>4. PrevLink(f, l) = Route[f][h - 1]
  BY DEF PrevLink, h
<1>5. Route[f][h - 1] \in Links /\ Route[f][h - 1] # Route[f][h]
  BY <1>1, <1>2, <1>3, LosslessAssumption, SMTT(60)
<1> QED BY <1>2, <1>4, <1>5

-----------------------------------------------------------------------------
(* The steps.                                                              *)

\* At first all queues and pipes are empty and nothing is paused.
LEMMA InitIInv == Init => IInv
PROOF
<1> SUFFICES ASSUME Init PROVE IInv
  OBVIOUS
<1>1. PICK w \in Workloads : mode = w.mode /\ todo = w.packets
  BY DEF Init
<1>2. \A l \in Links : EmptyOut \in Queues(l) /\ Works(l, EmptyOut)
  <2> SUFFICES ASSUME NEW l \in Links PROVE EmptyOut \in Queues(l) /\ Works(l, EmptyOut)
    OBVIOUS
  <2>1. [c \in Classes |-> <<>>] \in Contents(l)
    BY DEF Contents
  <2>2. EmptyOut \in Queues(l)
    BY <2>1 DEF EmptyOut, Queues, Q_NONE
  <2>3. queuesize(EmptyOut) = 0
    BY DEF EmptyOut, queuesize, Classes
  <2> QED BY <2>2, <2>3 DEF Works, EmptyOut
<1>3. TypeInv
  BY <1>1, <1>2, LosslessAssumption DEF Init, TypeInv
<1>4. \A l \in Links : Works(l, out[l])
  BY <1>2 DEF Init
<1>5. \A l \in Links : LinkInv(l)
  <2> SUFFICES ASSUME NEW l \in Links PROVE LinkInv(l)
    OBVIOUS
  <2>1. vin[l].queuesize = 0 /\ vin[l].state_recv = "READY" /\ out[l].state_send = "READY"
    BY DEF Init, EmptyOut
  <2>2. HIGH \in Nat
    BY LosslessAssumption
  <2> QED BY <2>1, <2>2 DEF LinkInv, Bounded
<1> QED BY <1>3, <1>4, <1>5 DEF IInv

\* A host hands over a packet.
LEMMA SendIInv ==
    ASSUME IInv, NEW f \in Flows, Send(f)
    PROVE  IInv'
PROOF
<1> DEFINE l == Route[f][1]
           q == Enqueue(l, out[l], f)
<1>1. l \in Links /\ f \in Over(l)
  BY LosslessAssumption DEF Over
<1>2. out[l] \in Queues(l) /\ Works(l, out[l])
  BY <1>1 DEF IInv, TypeInv
<1>3. /\ q \in Queues(l) /\ Works(l, q) /\ q.state_send = out[l].state_send
      /\ out[l].state_send # "READY" => q.events = out[l].events /\ q.doubled = out[l].doubled
  BY <1>1, <1>2, EnqueueWorks
<1>4. out' = [out EXCEPT ![l] = q] /\ todo[f] > 0 /\ todo' = [todo EXCEPT ![f] = @ - 1]
      /\ UNCHANGED <<mode, pipe, vin>>
  BY DEF Send
<1> HIDE DEF l, q
<1>5. DOMAIN out' = Links /\ out'[l] = q /\ \A m \in Links \ {l} : out'[m] = out[m]
  BY <1>1, <1>4 DEF IInv, TypeInv
<1>6. TypeInv'
  BY <1>3, <1>4, <1>5 DEF IInv, TypeInv
<1>7. \A m \in Links : Works(m, out'[m])
  BY <1>3, <1>5 DEF IInv
<1>8. ASSUME mode = "input", NEW m \in Links PROVE LinkInv(m)'
  <2>1. LinkInv(m)
    BY <1>8 DEF IInv
  <2>2. CASE m = l
    BY <2>1, <2>2, <1>3, <1>4, <1>5 DEF LinkInv, Bounded
  <2>3. CASE m # l
    BY <2>1, <2>3, <1>4, <1>5 DEF LinkInv
  <2> QED BY <2>2, <2>3
<1> QED BY <1>4, <1>6, <1>7, <1>8 DEF IInv

\* The ways a link's account changes: a packet goes into its pipe,
LEMMA AccountSent ==
    ASSUME NEW size, NEW recv, NEW len \in Nat, NEW q, NEW r, Bounded(size, recv, len, q),
           q.events \in Nat, r.state_send = "READY" <=> q.state_send = "READY",
           q.state_send # "READY" => r.events = q.events - 1 /\ r.doubled = q.doubled
    PROVE  Bounded(size, recv, len + 1, r)
PROOF
<1>1. HIGH \in Nat /\ LOW \in Nat /\ HIGH > LOW /\ PIPESIZE \in Nat
  BY LosslessAssumption
<1> QED BY <1>1 DEF Bounded

\* one comes out of it and has arrived,
LEMMA AccountArrived ==
    ASSUME NEW size, NEW recv, NEW len \in Nat, NEW q, Bounded(size, recv, len, q), q.events \in Nat
    PROVE  Bounded(size, recv, len - 1, q)
PROOF
<1>1. HIGH \in Nat /\ LOW \in Nat /\ HIGH > LOW /\ PIPESIZE \in Nat
  BY LosslessAssumption
<1> QED BY <1>1 DEF Bounded

\* one comes out of it and is held, with no need for a pause or during one,
LEMMA AccountHeld ==
    ASSUME NEW size, NEW recv, NEW len \in Nat, NEW q, Bounded(size, recv, len, q),
           q.events \in Nat, size + 1 <= HIGH \/ recv = "PAUSED"
    PROVE  Bounded(size + 1, recv, len - 1, q)
PROOF
<1>1. HIGH \in Nat /\ LOW \in Nat /\ HIGH > LOW /\ PIPESIZE \in Nat
  BY LosslessAssumption
<1> QED BY <1>1 DEF Bounded

\* one comes out of it and a pause begins,
LEMMA AccountPaused ==
    ASSUME NEW size, NEW len \in Nat, NEW q, NEW r, Bounded(size, "READY", len, q),
           q.events \in Nat, len <= PIPESIZE, r.state_send # "READY",
           r.events = q.events, r.doubled = q.doubled, ~q.doubled => q.events <= 1
    PROVE  Bounded(size + 1, "PAUSED", len - 1, r)
PROOF
<1>1. HIGH \in Nat /\ LOW \in Nat /\ HIGH > LOW /\ PIPESIZE \in Nat
  BY LosslessAssumption
<1> QED BY <1>1 DEF Bounded

\* one leaves the switch,
LEMMA AccountLeft ==
    ASSUME NEW size, NEW recv, NEW len \in Nat, NEW q, Bounded(size, recv, len, q), q.events \in Nat
    PROVE  Bounded(size - 1, recv, len, q)
PROOF
<1>1. HIGH \in Nat /\ LOW \in Nat /\ HIGH > LOW /\ PIPESIZE \in Nat
  BY LosslessAssumption
<1> QED BY <1>1 DEF Bounded

\* and one leaves the switch and a pause ends.
LEMMA AccountResumed ==
    ASSUME NEW size \in Int, NEW len, NEW r, size - 1 < LOW, r.state_send = "READY"
    PROVE  Bounded(size - 1, "READY", len, r)
PROOF
<1>1. HIGH \in Nat /\ LOW \in Nat /\ HIGH > LOW /\ PIPESIZE \in Nat
  BY LosslessAssumption
<1> QED BY <1>1 DEF Bounded

\* What completeService finds: the packet it sends travels over this link.
LEMMA ServiceFinds ==
    ASSUME IInv, NEW l \in Links, CompleteService(l)
    PROVE  /\ out[l] \in Queues(l) /\ Works(l, out[l])
           /\ out[l].events > 0 /\ out[l].servicing \in Classes
           /\ out[l].queue[out[l].servicing] # <<>>
           /\ Head(out[l].queue[out[l].servicing]) \in Over(l)
           /\ pipe[l] \in Seq(Over(l)) /\ Len(pipe[l]) < PIPESIZE
PROOF
<1>1. out[l] \in Queues(l) /\ Works(l, out[l]) /\ pipe[l] \in Seq(Over(l))
  BY DEF IInv, TypeInv
<1>2. /\ out[l].events > 0 /\ out[l].servicing # Q_NONE
      /\ out[l].queue[out[l].servicing] # <<>> /\ Len(pipe[l]) < PIPESIZE
  BY DEF CompleteService
<1>3. out[l].servicing \in Classes
  BY <1>1, <1>2 DEF Queues, Classes, Q_NONE
<1>4. out[l].queue[out[l].servicing] \in Seq(Over(l))
  BY <1>1, <1>3, Size
<1> QED BY <1>1, <1>2, <1>3, <1>4

\* The packet that left the queue of l is in its pipe: with the service event
\* gone, the sum that LinkInv bounds is what it was.
LEMMA PipeFilled ==
    ASSUME IInv, NEW l \in Links, CompleteService(l), out'[l] = Dequeue(out[l])
    PROVE  /\ DOMAIN pipe' = Links /\ \A m \in Links \ {l} : pipe'[m] = pipe[m]
           /\ pipe'[l] \in Seq(Over(l)) /\ Len(pipe'[l]) <= PIPESIZE
           /\ out'[l] \in Queues(l) /\ Works(l, out'[l])
           /\ mode = "input" /\ vin'[l] = vin[l] => LinkInv(l)'
PROOF
<1> DEFINE f == Head(out[l].queue[out[l].servicing])
<1>1. /\ out[l] \in Queues(l) /\ Works(l, out[l]) /\ out[l].events > 0
      /\ out[l].servicing \in Classes /\ out[l].queue[out[l].servicing] # <<>>
      /\ f \in Over(l) /\ pipe[l] \in Seq(Over(l)) /\ Len(pipe[l]) < PIPESIZE
  BY ServiceFinds
<1>2. pipe' = [pipe EXCEPT ![l] = Append(pipe[l], f)] /\ DOMAIN pipe = Links /\ mode' = mode
  BY DEF CompleteService, IInv, TypeInv
<1> HIDE DEF f
<1>3. DOMAIN pipe' = Links /\ pipe'[l] = Append(pipe[l], f) /\ \A m \in Links \ {l} : pipe'[m] = pipe[m]
  BY <1>2
<1>4. pipe'[l] \in Seq(Over(l)) /\ Len(pipe'[l]) = Len(pipe[l]) + 1 /\ Len(pipe[l]) \in Nat
  BY <1>1, <1>3
<1>5. Len(pipe'[l]) <= PIPESIZE
  BY <1>1, <1>4, LosslessAssumption, SMTT(60)
<1>6. /\ out'[l] \in Queues(l) /\ Works(l, out'[l])
      /\ out'[l].state_send = "READY" <=> out[l].state_send = "READY"
      /\ out[l].state_send # "READY" => /\ out'[l].events = out[l].events - 1
                                        /\ out'[l].doubled = out[l].doubled
  BY <1>1, DequeueWorks
<1>7. ASSUME mode = "input", vin'[l] = vin[l] PROVE LinkInv(l)'
  <2>1. Bounded(vin[l].queuesize, vin[l].state_recv, Len(pipe[l]), out[l]) /\ out[l].events \in Nat
    BY <1>1, <1>7 DEF IInv, Queues, LinkInv
  <2>2. Bounded(vin[l].queuesize, vin[l].state_recv, Len(pipe[l]) + 1, out'[l])
    BY <2>1, <1>4, <1>6, AccountSent, SMTT(60)
  <2> QED BY <2>2, <1>4, <1>7 DEF LinkInv
<1> QED BY <1>3, <1>4, <1>5, <1>6, <1>7

\* A link whose queue, pipe and input queue are as they were.
LEMMA LinkSame ==
    ASSUME NEW m, LinkInv(m), out'[m] = out[m], pipe'[m] = pipe[m], vin'[m] = vin[m]
    PROVE  LinkInv(m)'
PROOF
  BY DEF LinkInv

\* A host's queue sends a packet.
LEMMA HostCompletes ==
    ASSUME IInv, NEW l \in HostLinks, CompleteService(l)
    PROVE  IInv'
PROOF
<1>0. l \in Links
  BY LosslessAssumption
<1>1. out' = [out EXCEPT ![l] = Dequeue(out[l])] /\ UNCHANGED <<vin, mode, todo>>
  BY Zenon DEF CompleteService
<1>2. DOMAIN out' = Links /\ out'[l] = Dequeue(out[l]) /\ \A m \in Links \ {l} : out'[m] = out[m]
  BY <1>0, <1>1 DEF IInv, TypeInv
<1>3. /\ DOMAIN pipe' = Links /\ \A m \in Links \ {l} : pipe'[m] = pipe[m]
      /\ pipe'[l] \in Seq(Over(l)) /\ Len(pipe'[l]) <= PIPESIZE
      /\ out'[l] \in Queues(l) /\ Works(l, out'[l])
      /\ mode = "input" /\ vin'[l] = vin[l] => LinkInv(l)'
  BY <1>0, <1>2, PipeFilled
<1>4. TypeInv'
  BY <1>1, <1>2, <1>3, Zenon DEF IInv, TypeInv
<1>5. \A m \in Links : Works(m, out'[m])
  BY <1>2, <1>3 DEF IInv
<1>6. ASSUME mode = "input", NEW m \in Links PROVE LinkInv(m)'
  BY <1>1, <1>2, <1>3, <1>6, LinkSame DEF IInv
<1> QED BY <1>1, <1>4, <1>5, <1>6 DEF IInv

\* A LosslessOutputQueue sends a packet, and tells its input queue.
LEMMA OutputCompletesIInv ==
    ASSUME IInv, NEW l \in Links \ HostLinks, CompleteService(l), mode = "input"
    PROVE  IInv'
PROOF
<1> DEFINE f == Head(out[l].queue[out[l].servicing])
           u == PrevLink(f, l)
           size == vin[u].queuesize - 1
           go == size < LOW /\ vin[u].state_recv = "PAUSED"
           recv == IF go THEN "READY" ELSE vin[u].state_recv
           q == IF go THEN Unpause(u, out[u]) ELSE out[u]
<1>1. OutputCompletes(l, f) /\ UNCHANGED <<mode, todo>>
  BY DEF CompleteService
<1>2. u \in Links /\ u # l
  BY ServiceFinds, PrevLinkFound
<1>3. /\ vin' = [vin EXCEPT ![u] = [queuesize |-> size, state_recv |-> recv]]
      /\ out' = [out EXCEPT ![u] = q, ![l] = Dequeue(out[l])]
  BY <1>1, <1>2, Zenon DEF OutputCompletes, IInv, TypeInv
<1>4. out[u] \in Queues(u) /\ Works(u, out[u]) /\ LinkInv(u)
  BY <1>2 DEF IInv, TypeInv
<1>5. /\ q \in Queues(u) /\ Works(u, q)
      /\ go => q.state_send = "READY"
      /\ ~go => q = out[u]
  BY <1>2, <1>4, UnpauseWorks, Zenon
<1>6. vin[u].queuesize \in Int /\ size = vin[u].queuesize - 1
  BY <1>4, Zenon DEF LinkInv, Bounded
<1>7. /\ go => size < LOW /\ recv = "READY"
      /\ ~go => recv = vin[u].state_recv
  BY Zenon
<1> HIDE DEF f, u, size, go, recv, q
<1>8. /\ DOMAIN out' = Links /\ out'[l] = Dequeue(out[l]) /\ out'[u] = q
      /\ \A m \in Links \ {l, u} : out'[m] = out[m]
  BY <1>2, <1>3 DEF IInv, TypeInv
<1>9. /\ DOMAIN vin' = Links /\ vin'[u] = [queuesize |-> size, state_recv |-> recv]
      /\ \A m \in Links \ {u} : vin'[m] = vin[m]
  BY <1>2, <1>3 DEF IInv, TypeInv
<1>10. /\ DOMAIN pipe' = Links /\ \A m \in Links \ {l} : pipe'[m] = pipe[m]
       /\ pipe'[l] \in Seq(Over(l)) /\ Len(pipe'[l]) <= PIPESIZE
       /\ out'[l] \in Queues(l) /\ Works(l, out'[l])
       /\ mode = "input" /\ vin'[l] = vin[l] => LinkInv(l)'
  BY <1>8, PipeFilled
<1>11. TypeInv'
  BY <1>1, <1>2, <1>5, <1>8, <1>9, <1>10, ZenonT(60) DEF IInv, TypeInv
<1>12. \A m \in Links : Works(m, out'[m])
  BY <1>5, <1>8, <1>10 DEF IInv
<1>13. Bounded(vin'[u].queuesize, vin'[u].state_recv, Len(pipe'[u]), out'[u])
  <2>1. /\ Bounded(vin[u].queuesize, vin[u].state_recv, Len(pipe[u]), out[u])
        /\ Len(pipe[u]) \in Nat /\ out[u].events \in Nat /\ pipe'[u] = pipe[u]
        /\ vin'[u].queuesize = size /\ vin'[u].state_recv = recv
    BY <1>2, <1>4, <1>9, <1>10, SMTT(60) DEF IInv, TypeInv, Queues, LinkInv
  <2>2. Bounded(size, recv, Len(pipe[u]), q)
    <3>1. CASE go
      BY <3>1, <2>1, <1>5, <1>6, <1>7, AccountResumed
    <3>2. CASE ~go
      BY <3>2, <2>1, <1>5, <1>6, <1>7, AccountLeft
    <3> QED BY <3>1, <3>2
  <2> QED BY <2>1, <2>2, <1>8
<1>14. ASSUME NEW m \in Links PROVE LinkInv(m)'
  <2>1. CASE m = u
    BY <2>1, <1>13 DEF LinkInv
  <2>2. CASE m = l
    BY <2>2, <1>2, <1>9, <1>10
  <2>3. CASE m \notin {u, l}
    BY <2>3, <1>8, <1>9, <1>10, LinkSame DEF IInv
  <2> QED BY <2>1, <2>2, <2>3
<1> QED BY <1>1, <1>11, <1>12, <1>14 DEF IInv

\* state_recv is no part of what makes a queue work.
LEMMA RecvWorks ==
    ASSUME NEW l \in Links, NEW q \in Queues(l), Works(l, q), NEW st \in {"READY", "PAUSED"}
    PROVE  [q EXCEPT !.state_recv = st] \in Queues(l) /\ Works(l, [q EXCEPT !.state_recv = st])
PROOF
<1> DEFINE r == [q EXCEPT !.state_recv = st]
<1>1. r \in Queues(l)
  BY DEF Queues
<1>2. /\ r.queue = q.queue /\ r.events = q.events /\ r.state_send = q.state_send
      /\ r.doubled = q.doubled
  BY DEF Queues
<1>3. queuesize(r) = queuesize(q)
  BY <1>2 DEF queuesize
<1> QED BY <1>1, <1>2, <1>3 DEF Works

\* A LosslessQueue sends a packet, and its switch may end a pause.
LEMMA QueueCompletesIInv ==
    ASSUME IInv, NEW l \in Links \ HostLinks, CompleteService(l), mode = "switch"
    PROVE  IInv'
PROOF
<1> DEFINE q == Dequeue(out[l])
           go == queuesize(q) < LOW /\ q.state_recv = "PAUSED"
<1>1. QueueCompletes(l) /\ UNCHANGED <<mode, todo>>
  BY DEF CompleteService
<1>2. /\ out' = [m \in Links |->
                    CASE m = l -> IF go THEN [q EXCEPT !.state_recv = "READY"] ELSE q
                      [] m # l /\ go /\ m \in Informed(l) -> Unpause(m, out[m])
                      [] OTHER -> out[m]]
      /\ vin' = vin
  BY <1>1 DEF QueueCompletes
<1>3. q \in Queues(l) /\ Works(l, q)
  BY ServiceFinds, DequeueWorks
<1> HIDE DEF q, go
<1>4. DOMAIN out' = Links
  BY <1>2
<1>5. ASSUME NEW m \in Links PROVE out'[m] \in Queues(m) /\ Works(m, out'[m])
  <2>1. out[m] \in Queues(m) /\ Works(m, out[m])
    BY DEF IInv, TypeInv
  <2>2. CASE m = l
    <3>1. out'[m] \in {q, [q EXCEPT !.state_recv = "READY"]}
      BY <2>2, <1>2
    <3>2. /\ [q EXCEPT !.state_recv = "READY"] \in Queues(l)
          /\ Works(l, [q EXCEPT !.state_recv = "READY"])
      BY <1>3, <2>2, RecvWorks, Zenon
    <3> QED BY <3>1, <3>2, <2>2, <1>3, Zenon
  <2>3. CASE m # l
    <3>1. out'[m] \in {out[m], Unpause(m, out[m])}
      BY <2>3, <1>2
    <3> QED BY <3>1, <2>1, UnpauseWorks
  <2> QED BY <2>2, <2>3
<1>6. /\ DOMAIN pipe' = Links
      /\ \A m \in Links : pipe'[m] \in Seq(Over(m)) /\ Len(pipe'[m]) <= PIPESIZE
  <2> DEFINE f == Head(out[l].queue[out[l].servicing])
  <2>1. f \in Over(l) /\ pipe[l] \in Seq(Over(l)) /\ Len(pipe[l]) < PIPESIZE
    BY ServiceFinds
  <2>2. pipe' = [pipe EXCEPT ![l] = Append(pipe[l], f)]
    BY DEF CompleteService
  <2> HIDE DEF f
  <2>3. Append(pipe[l], f) \in Seq(Over(l)) /\ Len(Append(pipe[l], f)) <= PIPESIZE
    BY <2>1, LosslessAssumption, SMTT(60)
  <2> QED BY <2>2, <2>3 DEF IInv, TypeInv
<1>7. TypeInv'
  BY <1>1, <1>2, <1>4, <1>5, <1>6, Zenon DEF IInv, TypeInv
<1> QED BY <1>1, <1>5, <1>7 DEF IInv

\* What comes out of a pipe.
LEMMA PipeEmptied ==
    ASSUME IInv, NEW l \in Links, PipeDelivers(l)
    PROVE  /\ Head(pipe[l]) \in Over(l)
           /\ DOMAIN pipe' = Links /\ \A m \in Links \ {l} : pipe'[m] = pipe[m]
           /\ Len(pipe[l]) \in Nat /\ Len(pipe'[l]) = Len(pipe[l]) - 1
           /\ \A m \in Links : pipe'[m] \in Seq(Over(m)) /\ Len(pipe'[m]) <= PIPESIZE
PROOF
<1>1. /\ pipe[l] # <<>> /\ pipe' = [pipe EXCEPT ![l] = Tail(pipe[l])]
      /\ DOMAIN pipe = Links /\ pipe[l] \in Seq(Over(l)) /\ Len(pipe[l]) <= PIPESIZE
  BY DEF PipeDelivers, IInv, TypeInv
<1>2. /\ DOMAIN pipe' = Links /\ pipe'[l] = Tail(pipe[l])
      /\ \A m \in Links \ {l} : pipe'[m] = pipe[m]
  BY <1>1
<1>3. /\ Head(pipe[l]) \in Over(l) /\ Len(pipe[l]) \in Nat
      /\ Tail(pipe[l]) \in Seq(Over(l)) /\ Len(Tail(pipe[l])) = Len(pipe[l]) - 1
  BY <1>1
<1>4. Len(pipe'[l]) <= PIPESIZE
  BY <1>1, <1>2, <1>3, LosslessAssumption
<1> QED BY <1>1, <1>2, <1>3, <1>4 DEF IInv, TypeInv

\* A packet reaches its destination.
LEMMA ArrivesIInv ==
    ASSUME IInv, NEW l \in Links, PipeDelivers(l),
           l = Route[Head(pipe[l])][Len(Route[Head(pipe[l])])]
    PROVE  IInv'
PROOF
<1>1. UNCHANGED <<out, vin, mode, todo>>
  BY DEF PipeDelivers
<1>2. /\ DOMAIN pipe' = Links /\ \A m \in Links \ {l} : pipe'[m] = pipe[m]
      /\ Len(pipe[l]) \in Nat /\ Len(pipe'[l]) = Len(pipe[l]) - 1
      /\ \A m \in Links : pipe'[m] \in Seq(Over(m)) /\ Len(pipe'[m]) <= PIPESIZE
  BY PipeEmptied
<1>3. TypeInv'
  BY <1>1, <1>2 DEF IInv, TypeInv
<1>4. ASSUME mode = "input", NEW m \in Links PROVE LinkInv(m)'
  <2>1. LinkInv(m) /\ out[m].events \in Nat
    BY <1>4 DEF IInv, TypeInv, Queues
  <2>2. CASE m = l
    <3>1. Bounded(vin[m].queuesize, vin[m].state_recv, Len(pipe[m]) - 1, out[m])
      BY <2>1, <2>2, <1>2, AccountArrived DEF LinkInv
    <3> QED BY <3>1, <2>2, <1>1, <1>2 DEF LinkInv
  <2>3. CASE m # l
    BY <2>1, <2>3, <1>1, <1>2, LinkSame
  <2> QED BY <2>2, <2>3
<1> QED BY <1>1, <1>3, <1>4 DEF IInv

\* A LosslessInputQueue takes a packet, and hands it to the output queue.
LEMMA InputReceivesIInv ==
    ASSUME IInv, NEW l \in Links, PipeDelivers(l), mode = "input",
           l # Route[Head(pipe[l])][Len(Route[Head(pipe[l])])]
    PROVE  IInv'
PROOF
<1> DEFINE f == Head(pipe[l])
           n == NextLink(f, l)
           size == vin[l].queuesize + 1
           stop == size > HIGH /\ vin[l].state_recv # "PAUSED"
           recv == IF stop THEN "PAUSED" ELSE vin[l].state_recv
           q == IF stop THEN Pause(l, out[l]) ELSE out[l]
           r == Enqueue(n, out[n], f)
<1>1. InputReceives(l, f) /\ UNCHANGED <<mode, todo>>
  BY DEF PipeDelivers
<1>2. f \in Over(l)
  BY PipeEmptied
<1>3. n \in Links /\ f \in Over(n) /\ n # l
  BY <1>2, NextLinkFound
<1>4. /\ vin' = [vin EXCEPT ![l] = [queuesize |-> size, state_recv |-> recv]]
      /\ out' = [out EXCEPT ![l] = q, ![n] = r]
  BY <1>1, <1>3 DEF InputReceives, IInv, TypeInv
<1>5. /\ out[l] \in Queues(l) /\ Works(l, out[l]) /\ LinkInv(l) /\ out[l].events \in Nat
      /\ out[n] \in Queues(n) /\ Works(n, out[n]) /\ LinkInv(n) /\ out[n].events \in Nat
  BY <1>3 DEF IInv, TypeInv, Queues
<1>6. /\ q \in Queues(l) /\ Works(l, q)
      /\ stop => q.state_send # "READY" /\ q.events = out[l].events /\ q.doubled = out[l].doubled
      /\ ~stop => q = out[l]
  BY <1>5, PauseWorks
<1>7. /\ r \in Queues(n) /\ Works(n, r) /\ r.state_send = out[n].state_send
      /\ out[n].state_send # "READY" => r.events = out[n].events /\ r.doubled = out[n].doubled
  BY <1>3, <1>5, EnqueueWorks
<1>8. vin[l].queuesize \in Int /\ size = vin[l].queuesize + 1 /\ vin[l].state_recv \in {"READY", "PAUSED"}
  BY <1>5 DEF LinkInv, Bounded
<1>9. /\ stop => vin[l].state_recv # "PAUSED" /\ recv = "PAUSED"
      /\ ~stop => recv = vin[l].state_recv /\ (~(size > HIGH) \/ vin[l].state_recv = "PAUSED")
  OBVIOUS
<1> HIDE DEF f, n, size, stop, recv, q, r
<1>10. /\ DOMAIN out' = Links /\ out'[l] = q /\ out'[n] = r
       /\ \A m \in Links \ {l, n} : out'[m] = out[m]
  BY <1>3, <1>4 DEF IInv, TypeInv
<1>11. /\ DOMAIN vin' = Links /\ vin'[l] = [queuesize |-> size, state_recv |-> recv]
       /\ \A m \in Links \ {l} : vin'[m] = vin[m]
  BY <1>4 DEF IInv, TypeInv
<1>12. /\ DOMAIN pipe' = Links /\ \A m \in Links \ {l} : pipe'[m] = pipe[m]
       /\ Len(pipe[l]) \in Nat /\ Len(pipe'[l]) = Len(pipe[l]) - 1
       /\ \A m \in Links : pipe'[m] \in Seq(Over(m)) /\ Len(pipe'[m]) <= PIPESIZE
  BY PipeEmptied
<1>13. TypeInv'
  BY <1>1, <1>3, <1>6, <1>7, <1>10, <1>11, <1>12, ZenonT(60) DEF IInv, TypeInv
<1>14. \A m \in Links : Works(m, out'[m])
  BY <1>6, <1>7, <1>10 DEF IInv
<1>15. LinkInv(l)'
  <2>1. Bounded(vin[l].queuesize, vin[l].state_recv, Len(pipe[l]), out[l])
    BY <1>5 DEF LinkInv
  <2>2. Bounded(size, recv, Len(pipe[l]) - 1, q)
    <3>1. CASE stop
      <4>1. Len(pipe[l]) <= PIPESIZE /\ (~out[l].doubled => out[l].events <= 1)
        BY <1>5 DEF IInv, TypeInv, Works
      <4>2. vin[l].state_recv = "READY" /\ recv = "PAUSED"
        BY <3>1, <1>8, <1>9
      <4> QED BY <3>1, <4>1, <4>2, <2>1, <1>5, <1>6, <1>8, <1>12, AccountPaused, Zenon
    <3>2. CASE ~stop
      <4>1. size <= HIGH \/ vin[l].state_recv = "PAUSED"
        BY <3>2, <1>8, <1>9, LosslessAssumption, SMTT(60)
      <4> QED BY <3>2, <4>1, <2>1, <1>5, <1>6, <1>8, <1>9, <1>12, AccountHeld, SMTT(60)
    <3> QED BY <3>1, <3>2
  <2> QED BY <2>2, <1>10, <1>11, <1>12, SMTT(60) DEF LinkInv
<1>16. Bounded(vin'[n].queuesize, vin'[n].state_recv, Len(pipe'[n]), out'[n])
  <2>1. Bounded(vin[n].queuesize, vin[n].state_recv, Len(pipe[n]), out[n])
    BY <1>5 DEF LinkInv
  <2>2. Bounded(vin[n].queuesize, vin[n].state_recv, Len(pipe[n]), r)
    BY <2>1, <1>7 DEF Bounded
  <2> QED BY <2>2, <1>3, <1>10, <1>11, <1>12
<1>17. ASSUME NEW m \in Links PROVE LinkInv(m)'
  <2>1. CASE m = l
    BY <2>1, <1>15
  <2>2. CASE m = n
    BY <2>2, <1>16 DEF LinkInv
  <2>3. CASE m \notin {l, n}
    BY <2>3, <1>10, <1>11, <1>12, LinkSame, Zenon DEF IInv
  <2> QED BY <2>1, <2>2, <2>3
<1> QED BY <1>1, <1>13, <1>14, <1>17 DEF IInv

\* A LosslessQueue takes a packet, and its switch may begin a pause.
LEMMA QueueReceivesIInv ==
    ASSUME IInv, NEW l \in Links, PipeDelivers(l), mode = "switch",
           l # Route[Head(pipe[l])][Len(Route[Head(pipe[l])])]
    PROVE  IInv'
PROOF
<1> DEFINE f == Head(pipe[l])
           n == NextLink(f, l)
           q == Enqueue(n, out[n], f)
           stop == queuesize(q) > HIGH /\ q.state_recv # "PAUSED"
<1>1. QueueReceives(l, f) /\ UNCHANGED <<mode, todo>>
  BY DEF PipeDelivers
<1>2. n \in Links /\ f \in Over(n)
  BY PipeEmptied, NextLinkFound
<1>3. /\ out' = [m \in Links |->
                    CASE m = n -> IF stop THEN [q EXCEPT !.state_recv = "PAUSED"] ELSE q
                      [] m # n /\ stop /\ m \in Informed(n) -> Pause(m, out[m])
                      [] OTHER -> out[m]]
      /\ vin' = vin
  BY <1>1 DEF QueueReceives
<1>4. q \in Queues(n) /\ Works(n, q)
  BY <1>2, EnqueueWorks DEF IInv, TypeInv
<1> HIDE DEF f, n, q, stop
<1>5. DOMAIN out' = Links
  BY <1>3
<1>6. ASSUME NEW m \in Links PROVE out'[m] \in Queues(m) /\ Works(m, out'[m])
  <2>1. out[m] \in Queues(m) /\ Works(m, out[m])
    BY DEF IInv, TypeInv
  <2>2. CASE m = n
    <3>1. out'[m] \in {q, [q EXCEPT !.state_recv = "PAUSED"]}
      BY <2>2, <1>3
    <3>2. /\ [q EXCEPT !.state_recv = "PAUSED"] \in Queues(n)
          /\ Works(n, [q EXCEPT !.state_recv = "PAUSED"])
      BY <1>4, <2>2, RecvWorks, Zenon
    <3> QED BY <3>1, <3>2, <2>2, <1>4, Zenon
  <2>3. CASE m # n
    <3>1. out'[m] \in {out[m], Pause(m, out[m])}
      BY <2>3, <1>3
    <3> QED BY <3>1, <2>1, PauseWorks
  <2> QED BY <2>2, <2>3
<1>7. /\ DOMAIN pipe' = Links
      /\ \A m \in Links : pipe'[m] \in Seq(Over(m)) /\ Len(pipe'[m]) <= PIPESIZE
  BY PipeEmptied
<1>8. TypeInv'
  BY <1>1, <1>3, <1>5, <1>6, <1>7, Zenon DEF IInv, TypeInv
<1> QED BY <1>1, <1>6, <1>8 DEF IInv

-----------------------------------------------------------------------------
(* The theorems.                                                           *)

\* The invariant holds in every reachable state, whatever the topology.
THEOREM Invariant == Spec => []IInv
PROOF
<1>1. Init => IInv
  BY InitIInv
<1>2. IInv /\ [Next]_vars => IInv'
  <2> SUFFICES ASSUME IInv, [Next]_vars PROVE IInv'
    OBVIOUS
  <2>0. mode \in {"input", "switch"}
    BY DEF IInv, TypeInv
  <2>1. ASSUME NEW f \in Flows, Send(f) PROVE IInv'
    BY <2>1, SendIInv
  <2>2. ASSUME NEW l \in Links, CompleteService(l) PROVE IInv'
    BY <2>0, <2>2, HostCompletes, OutputCompletesIInv, QueueCompletesIInv
  <2>3. ASSUME NEW l \in Links, PipeDelivers(l) PROVE IInv'
    BY <2>0, <2>3, ArrivesIInv, InputReceivesIInv, QueueReceivesIInv
  <2>4. CASE UNCHANGED vars
    BY <2>4 DEF vars, IInv, TypeInv, LinkInv
  <2> QED BY <2>1, <2>2, <2>3, <2>4 DEF Next
<1> QED BY <1>1, <1>2, PTL DEF Spec

\* With input queues, no queue ever holds more than MAXSIZE packets, if its
\* sender never sent two at a time ("LOSSLESS not working!" is never printed).
THEOREM InputNeverOverflows == Spec => [](mode = "input" => NoOverflow)
PROOF
<1>1. IInv => (mode = "input" => NoOverflow)
  <2> SUFFICES ASSUME IInv, mode = "input", NEW l \in Links, ~out[l].doubled
               PROVE  vin[l].queuesize <= MAXSIZE
    BY DEF NoOverflow
  <2>1. LinkInv(l) /\ Len(pipe[l]) \in Nat /\ out[l].events \in Nat
    BY SMTT(60) DEF IInv, TypeInv, Queues
  <2>2. HIGH \in Nat /\ PIPESIZE \in Nat /\ MAXSIZE \in Nat /\ MAXSIZE >= HIGH + PIPESIZE + 1
    BY LosslessAssumption
  <2> QED BY <2>1, <2>2, SMTT(60) DEF LinkInv, Bounded
<1> QED BY <1>1, Invariant, PTL

\* A sender is paused exactly as long as the input queue it sends to is, no
\* matter what either was doing when the PAUSE frames came.
THEOREM PausesHeeded == Spec => []PauseHeeded
PROOF
<1>1. IInv => PauseHeeded
  BY Zenon DEF IInv, LinkInv, Bounded, PauseHeeded
<1> QED BY <1>1, Invariant, PTL

\* A lossless queue has at most one packet in service, and no queue that may
\* send and holds a packet is idle.
THEOREM QueuesKeepWorking == Spec => []QueuesWork
PROOF
<1>1. IInv => QueuesWork
  BY Zenon DEF IInv, TypeInv, Queues, Works, QueuesWork
<1> QED BY <1>1, Invariant, PTL

=============================================================================

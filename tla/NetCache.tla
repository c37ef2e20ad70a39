------------------------------ MODULE NetCache ------------------------------
(***************************************************************************)
(* NetCache (netcache/): a switch between a client, a key-value server and *)
(* a controller.  The controller asks the server for the values of a fixed *)
(* list of hot keys (UPDATE); the server's reply fills the switch's cache  *)
(* on its way back.  Reads of a key that is cached and valid are answered  *)
(* by the switch, the others by the server; the switch counts the reads of *)
(* keys outside the cache in a count-min sketch and reports a key, once,   *)
(* to the controller when it is hot.                                       *)
(*                                                                         *)
(* All hosts talk UDP: messages may overtake one another and be lost.  The *)
(* switch handles a packet in one step: ingress is one thread, and all     *)
(* reads of the server leave by one port, which one egress thread serves.  *)
(***************************************************************************)
EXTENDS Integers, FiniteSets, FiniteSetsExt

CONSTANTS
    Keys,        \* keys the server holds
    Cached,      \* keys with an entry in check_cache_exist (commands.txt)
    HotList,     \* keys the controller starts with (hot.txt)
    Values,
    Hash,        \* Hash[i][k], i = 1 crc32, 2 csum16, 3 crc16
    HH_LOAD_NUM, \* 256
    HH_BF_NUM,   \* 512
    HH_THRESHOLD,\* 128
    MaxReads,    \* bound: reads the client sends
    MaxLoss      \* bound: messages lost

ASSUME NetCacheAssumption ==
    /\ Cached \subseteq Keys /\ HotList \subseteq Keys
    /\ Hash \in [1..3 -> [Keys -> Nat]]
    /\ {HH_LOAD_NUM, HH_BF_NUM} \subseteq Nat \ {0}
    /\ {HH_THRESHOLD, MaxReads, MaxLoss} \subseteq Nat

NoValue == "zero"   \* what a value register holds before it is written

VARIABLES
    kv,          \* server.py: the items it loaded
    cache_valid, \* cache_valid_reg, by key (the index is the key)
    cache_value, \* value_i_j_reg, the 32 slices of a value as one
    load,        \* hh_load_1_reg .. hh_load_4_reg
    bf,          \* hh_bf_1_reg .. hh_bf_3_reg
    todo,        \* controller.py: hot keys still to request
    controller,  \* "running" or "stopped"
    net,         \* messages, with the node each is on its way to
    sentReads,   \* client: reads sent
    replies,     \* client: what it received, by read
    losses,
    reads,       \* history: reads of each key the sketch counted
    reports      \* history: reports of each key

cacheRegs == <<cache_valid, cache_value>>
hhRegs    == <<load, bf>>
ctrl      == <<todo, controller>>
counted   == <<reads, reports>>
client    == <<sentReads, replies>>
vars == <<kv, cacheRegs, hhRegs, ctrl, net, client, losses, counted>>

Init ==
    /\ kv \in [Keys -> Values]
    /\ cache_valid = [k \in Cached |-> 0]
    /\ cache_value = [k \in Cached |-> NoValue]
    /\ load = [i \in 1..4 |-> [j \in 0..(HH_LOAD_NUM - 1) |-> 0]]
    /\ bf = [i \in 1..3 |-> [j \in 0..(HH_BF_NUM - 1) |-> 0]]
    /\ todo = HotList
    /\ controller = "running"
    /\ net = {}
    /\ sentReads = 0
    /\ replies = {}
    /\ losses = 0
    /\ reads = [k \in Keys |-> 0]
    /\ reports = [k \in Keys |-> 0]

\* A message: the node it is on its way to, where it is addressed, its
\* operation, key and value, and the client's number for the read it is about.
Msg(to, dst, op, k, v, n) ==
    [to |-> to, dst |-> dst, op |-> op, key |-> k, val |-> v, read |-> n]

Replace(m, ms) == net' = (net \ {m}) \cup ms

-----------------------------------------------------------------------------
(* The hosts.                                                             *)

\* client/send.py
ClientSend(k) ==
    /\ sentReads < MaxReads
    /\ sentReads' = sentReads + 1
    /\ net' = net \cup {Msg("switch", "server", "READ_REQUEST", k, NoValue, sentReads')}
    /\ UNCHANGED <<kv, cacheRegs, hhRegs, ctrl, replies, losses, counted>>

\* client/receive.py
ClientReceive(m) ==
    /\ m.to = "client"
    /\ replies' = replies \cup {m}
    /\ Replace(m, {})
    /\ UNCHANGED <<kv, cacheRegs, hhRegs, ctrl, sentReads, losses, counted>>

\* controller.py, start: one UPDATE per hot key, then it listens.
ControllerUpdate(k) ==
    /\ controller = "running"
    /\ k \in todo
    /\ todo' = todo \ {k}
    /\ net' = net \cup {Msg("switch", "server", "UPDATE_REQUEST", k, NoValue, 0)}
    /\ UNCHANGED <<kv, cacheRegs, hhRegs, controller, client, losses, counted>>

\* controller.py, loop: anything but a report is skipped.  A report first adds
\* one to a counter that was never set, which ends the program.
ControllerReceive(m) ==
    /\ m.to = "controller"
    /\ controller = "running" /\ todo = {}
    /\ controller' = IF m.op = "HOT_READ_REQUEST" THEN "stopped" ELSE controller
    /\ Replace(m, {})
    /\ UNCHANGED <<kv, cacheRegs, hhRegs, todo, client, losses, counted>>

\* server.py
ServerReceive(m) ==
    /\ m.to = "server"
    /\ CASE m.op \in {"READ_REQUEST", "HOT_READ_REQUEST"} ->
              Replace(m, {Msg("switch", "client", "READ_REPLY", m.key, kv[m.key], m.read)})
         [] m.op = "UPDATE_REQUEST" ->
              Replace(m, {Msg("switch", "controller", "UPDATE_REPLY", m.key, kv[m.key], 0)})
         [] OTHER -> Replace(m, {})
    /\ UNCHANGED <<kv, cacheRegs, hhRegs, ctrl, client, losses, counted>>

Lose(m) ==
    /\ losses < MaxLoss
    /\ losses' = losses + 1
    /\ Replace(m, {})
    /\ UNCHANGED <<kv, cacheRegs, hhRegs, ctrl, client, counted>>

-----------------------------------------------------------------------------
(* The switch.                                                            *)

\* A read that hits: the cache answers in the server's place.  (A switch that
\* looks at the table entry and not at the valid bit.)
ReadHit_NotValidated(m) ==
    m.op = "READ_REQUEST" /\ m.key \in Cached

ReadHit(m) ==
    m.op = "READ_REQUEST" /\ m.key \in Cached /\ cache_valid[m.key] = 1

SwitchReadHit(m) ==
    /\ m.to = "switch" /\ ReadHit(m)
    /\ Replace(m, {Msg("client", "client", "READ_REPLY", m.key, cache_value[m.key], m.read)})
    /\ UNCHANGED <<kv, cacheRegs, hhRegs, ctrl, client, losses, counted>>

\* The server's answer to the controller fills the cache and goes on without
\* its value.
SwitchUpdateReply(m) ==
    /\ m.to = "switch" /\ m.op = "UPDATE_REPLY" /\ m.key \in Cached
    /\ cache_valid' = [cache_valid EXCEPT ![m.key] = 1]
    /\ cache_value' = [cache_value EXCEPT ![m.key] = m.val]
    /\ Replace(m, {[m EXCEPT !.to = m.dst, !.val = NoValue]})
    /\ UNCHANGED <<kv, hhRegs, ctrl, client, losses, counted>>

\* count_min: row 4 uses the hash of row 1.
LoadIndex(i, k) == Hash[IF i = 4 THEN 1 ELSE i][k] % HH_LOAD_NUM
BfIndex(i, k)   == Hash[i][k] % HH_BF_NUM

count_min(k) ==
    load' = [i \in 1..4 |-> [load[i] EXCEPT ![LoadIndex(i, k)] = @ + 1]]

\* The thresholds are compared with the registers read before the increment.
\* (A sketch that compares with >=.)
Hot_AtLeast(k) == \A i \in 1..4 : load[i][LoadIndex(i, k)] >= HH_THRESHOLD

Hot(k) == \A i \in 1..4 : load[i][LoadIndex(i, k)] > HH_THRESHOLD

\* bloom_filter: all three bits are set, and the key is new if one was not.
bloom_filter(k) ==
    bf' = [i \in 1..3 |-> [bf[i] EXCEPT ![BfIndex(i, k)] = 1]]

Unreported(k) == \E i \in 1..3 : bf[i][BfIndex(i, k)] = 0

\* A read of a key without a cache entry: counted at the egress; the packet
\* goes on to the server and a clone of it to the controller as a report.
SwitchReadMiss(m) ==
    LET k == m.key
        report == Hot(k) /\ Unreported(k)
    IN /\ m.to = "switch" /\ m.op = "READ_REQUEST" /\ k \notin Cached
       /\ count_min(k)
       /\ IF Hot(k) THEN bloom_filter(k) ELSE UNCHANGED bf
       /\ Replace(m, {[m EXCEPT !.to = m.dst]} \cup
              (IF report THEN {Msg("controller", "controller", "HOT_READ_REQUEST", k, NoValue, m.read)}
               ELSE {}))
       /\ reads' = [reads EXCEPT ![k] = @ + 1]
       /\ reports' = [reports EXCEPT ![k] = @ + IF report THEN 1 ELSE 0]
       /\ UNCHANGED <<kv, cacheRegs, ctrl, client, losses>>

\* Everything else is routed: reads that find an entry that is not valid yet,
\* requests of the controller and replies of the server.  (A switch that takes
\* any read of a cached key for a hit does not route the first ones.)
SwitchRoute_NotInvalid(m) ==
    /\ m.to = "switch"
    /\ m.op # "READ_REQUEST"
    /\ m.op = "UPDATE_REPLY" => m.key \notin Cached
    /\ Replace(m, {[m EXCEPT !.to = m.dst]})
    /\ UNCHANGED <<kv, cacheRegs, hhRegs, ctrl, client, losses, counted>>

SwitchRoute(m) ==
    /\ m.to = "switch"
    /\ m.op = "READ_REQUEST" => m.key \in Cached /\ cache_valid[m.key] = 0
    /\ m.op = "UPDATE_REPLY" => m.key \notin Cached
    /\ Replace(m, {[m EXCEPT !.to = m.dst]})
    /\ UNCHANGED <<kv, cacheRegs, hhRegs, ctrl, client, losses, counted>>

Next ==
    \/ \E k \in Keys : ClientSend(k) \/ ControllerUpdate(k)
    \/ \E m \in net :
          \/ ClientReceive(m) \/ ControllerReceive(m) \/ ServerReceive(m) \/ Lose(m)
          \/ SwitchReadHit(m) \/ SwitchUpdateReply(m) \/ SwitchReadMiss(m)
          \/ SwitchRoute(m)

Spec == Init /\ [][Next]_vars

\* Client, server and switch do not all rest while one of them has a message to
\* take.
Fairness ==
    WF_vars(\E m \in net :
                \/ ClientReceive(m) \/ ServerReceive(m) \/ SwitchReadHit(m)
                \/ SwitchUpdateReply(m) \/ SwitchReadMiss(m) \/ SwitchRoute(m))

FairSpec == Spec /\ Fairness

-----------------------------------------------------------------------------
(* Properties.                                                            *)

Ops == {"READ_REQUEST", "READ_REPLY", "HOT_READ_REQUEST",
        "UPDATE_REQUEST", "UPDATE_REPLY"}

Message ==
    [to : {"switch", "server", "client", "controller"},
     dst : {"server", "client", "controller"},
     op : Ops, key : Keys, val : Values \cup {NoValue}, read : 0..MaxReads]

\* Registers, messages and counters keep their types, and every address, key
\* and value in the network is one a host put there.
TypeOK ==
    /\ kv \in [Keys -> Values]
    /\ cache_valid \in [Cached -> 0..1]
    /\ cache_value \in [Cached -> Values \cup {NoValue}]
    /\ load \in [1..4 -> [0..(HH_LOAD_NUM - 1) -> Nat]]
    /\ bf \in [1..3 -> [0..(HH_BF_NUM - 1) -> 0..1]]
    /\ todo \subseteq HotList
    /\ net \subseteq Message
    /\ sentReads \in 0..MaxReads
    /\ replies \subseteq Message
    /\ losses \in 0..MaxLoss
    /\ reads \in [Keys -> Nat]
    /\ reports \in [Keys -> Nat]

\* Whoever answers a read, switch or server, and whatever happened to the
\* messages that fill the cache, the client gets the server's value.
AnswersRight == \A r \in replies : r.val = kv[r.key]

\* bloom_filter: no key is reported twice.
ReportedOnce == \A k \in Keys : reports[k] <= 1

\* The keys that share a cell of row i with k.
SharedLoad(i, k) == {j \in Keys \ Cached : LoadIndex(i, j) = LoadIndex(i, k)}

\* Other keys that were read set every bit of k in the filter.
Masked(k) ==
    \A i \in 1..3 : \E j \in Keys \ {k} :
        BfIndex(i, j) = BfIndex(i, k) /\ reads[j] > 0

\* Reports are right although keys share cells of the sketch and of the filter:
\* a key that was read once more than HH_THRESHOLD plus one has been reported,
\* unless the filter takes it for other hot keys, and a key is reported only
\* when in every row the keys of its cell were read more than that often.
ReportsRight ==
    \A k \in Keys :
        /\ reads[k] > HH_THRESHOLD + 1 => reports[k] = 1 \/ Masked(k)
        /\ reports[k] > 0 =>
             \A i \in 1..4 :
                MapThenSumSet(LAMBDA j : reads[j], SharedLoad(i, k)) > HH_THRESHOLD + 1

\* When nothing is lost every read is answered in the end, the ones that race
\* with the filling of the cache and the ones the switch reports included.
ReadsAnswered ==
    <>[](losses > 0 \/ \A n \in 1..sentReads : \E r \in replies : r.read = n)
=============================================================================

------------------------------ MODULE NetChain ------------------------------
(***************************************************************************)
(* NetChain: a key-value store replicated along a chain of P4 switches     *)
(* (netchain/).  Writes enter at the head, which numbers them; every       *)
(* replica applies a write only if its number is newer than the one it     *)
(* stores; the tail answers.  Reads are answered by the tail alone.  A     *)
(* controller reacts to the crash of one switch: it first routes around it *)
(* (failover), then copies the state of a chain member to a backup switch  *)
(* and puts that switch into the chain, one virtual group at a time.       *)
(*                                                                         *)
(* A packet is a record; net is the set of packets in flight, so packets   *)
(* may overtake one another.  Registers are indexed by key, because        *)
(* find_index gives the same injective index on every switch.              *)
(***************************************************************************)
EXTENDS Integers, Sequences, FiniteSetsExt

CONSTANTS
    Chain,       \* the three switches of the chain, head first
    Backup,      \* the switch that replaces a failed one
    Client,      \* the hosts: where requests come from and replies go to
    Access,      \* the switch the hosts are attached to
    END,         \* the address 0.0.0.0 that ends an overlay list
    Route,       \* Route[s][a]: the node switch s sends packets for a to
    PopAgainAt,  \* the switches whose pop_chain_again table is configured
    Setups       \* the deployments and workloads a behaviour may have

VARIABLES
    setup,        \* the deployment and workload of this behaviour
    alive,        \* the switches that are running
    role,         \* get_my_address: role of a switch for a key, or "none"
    sequence_reg, \* the two register arrays of every switch
    value_reg,
    rules,        \* entries of the failure_recovery tables
    net,          \* packets in flight
    ctl,          \* the controller: program counter, failed position (0: none),
                  \* virtual groups and keys to do, copies
    writes, reads, losses,  \* steps taken so far, for the bounds
    order,        \* history: the writes of a key in the order of the head
    owed,         \* history: writes on their way to the head of a recovered chain
    completed     \* history: newest version of a key a client has seen

vars == <<setup, alive, role, sequence_reg, value_reg, rules, net, ctl,
          writes, reads, losses, order, owed, completed>>

VGroup == setup.vgroup        \* the virtual group of a key
Keys == DOMAIN VGroup         \* numbers: key order is index order
MayFail == setup.mayFail      \* positions in Chain of the switches that may crash
SeqMod == setup.seqMod        \* sequence numbers are below it (2^16 in the code)
MaxWrites == setup.writes     \* bounds on client and network steps
MaxReads == setup.reads
MaxLoss == setup.losses

Switches == {Chain[i] : i \in 1..Len(Chain)} \cup {Backup}
Groups == {VGroup[k] : k \in Keys}
HeadSw == Chain[1]
TailSw == Chain[Len(Chain)]
FailPos == ctl.failed
FailSw == Chain[FailPos]

RoleAt(i) == CASE i = 1 -> "HEAD"
               [] i = Len(Chain) -> "TAIL"
               [] OTHER -> "REPLICA"

(* Version n of key k, and the version that wrote value v (0: initial).    *)
ValueOf(k, n) == IF n = 0 THEN 0 ELSE order[k][n]
VersionOf(k, v) ==
    IF v = 0 THEN 0 ELSE CHOOSE n \in 1..Len(order[k]) : order[k][n] = v

-----------------------------------------------------------------------------
(* init_flowtable: roles and equal values on the three chain switches.     *)
Init ==
    /\ setup \in Setups
    /\ alive = Switches
    /\ role = [s \in Switches |-> [k \in Keys |->
                 IF \E i \in 1..Len(Chain) : Chain[i] = s
                 THEN RoleAt(CHOOSE i \in 1..Len(Chain) : Chain[i] = s)
                 ELSE "none"]]
    /\ sequence_reg = [s \in Switches |-> [k \in Keys |-> 0]]
    /\ value_reg = [s \in Switches |-> [k \in Keys |-> 0]]
    /\ rules = {}
    /\ net = {}
    /\ ctl = [pc |-> "watch", failed |-> 0, todo |-> Groups, keys |-> {},
              seq |-> [k \in Keys |-> 0], val |-> [k \in Keys |-> 0]]
    /\ writes = 0 /\ reads = 0 /\ losses = 0
    /\ order = [k \in Keys |-> <<>>]
    /\ owed = {}
    /\ completed = [k \in Keys |-> 0]

-----------------------------------------------------------------------------
(* The clients send and forget.  Values are numbered, so writes differ.    *)
(* floor is history, not a header field: what the client had seen of the   *)
(* key when it sent the request.                                           *)
Request(op, k, first, hops, val, id) ==
    [at |-> Access, dst |-> first, op |-> op, key |-> k, seq |-> 0,
     val |-> val, overlay |-> Append(hops, END), id |-> id,
     floor |-> completed[k]]

write_req(k) ==
    /\ writes < MaxWrites
    /\ writes' = writes + 1
    /\ net' = net \cup {Request("WRITE_REQUEST", k, HeadSw, Chain,
                                writes + 1, 0)}
    /\ owed' = IF ctl.pc = "done" THEN owed \cup {writes + 1} ELSE owed
    /\ UNCHANGED <<setup, alive, role, sequence_reg, value_reg, rules, ctl, reads,
                   losses, order, completed>>

read_req(k) ==
    /\ reads < MaxReads
    /\ reads' = reads + 1
    /\ net' = net \cup {Request("READ_REQUEST", k, TailSw,
                                <<Chain[3], Chain[2], Chain[1]>>, 0,
                                reads + 1)}
    /\ UNCHANGED <<setup, alive, role, sequence_reg, value_reg, rules, ctl, writes,
                   losses, order, owed, completed>>

-----------------------------------------------------------------------------
(* The ingress pipeline of a switch, table by table.                       *)

(* get_my_address, then ipv4.dstAddr == my_md.ipaddress.                   *)
ForMe(s, p) == role[s][p.key] # "none" /\ p.dst = s

IsHead(s, p) == role[s][p.key] = "HEAD"

maintain_sequence_NotIncremented(s, p) ==
    IF IsHead(s, p) THEN sequence_reg[s][p.key] ELSE p.seq
(* maintain_sequence: the head numbers the write, in 16 bits.              *)
maintain_sequence(s, p) ==
    IF IsHead(s, p) THEN (sequence_reg[s][p.key] + 1) % SeqMod ELSE p.seq

Assigns_AnySequence(s, p) == ForMe(s, p) /\ p.op = "WRITE_REQUEST"

(* The condition under which assign_value and pop_chain are applied.       *)
Assigns(s, p) ==
    /\ ForMe(s, p)
    /\ p.op = "WRITE_REQUEST"
    /\ IsHead(s, p) \/ p.seq > sequence_reg[s][p.key]

pop_chain(p) == [p EXCEPT !.overlay = Tail(@)]

(* gen_reply goes back to the client; other messages stay as they are.     *)
gen_reply(p, op) == [p EXCEPT !.dst = Client, !.op = op]

ReplyOp(op) == CASE op = "READ_REQUEST" -> "READ_REPLY"
                 [] op = "WRITE_REQUEST" -> "WRITE_REPLY"
                 [] OTHER -> op

(* find_index .. drop_packet: a read picks the value up, a write is        *)
(* numbered and applied.  drop_packet only marks the packet: the mark is   *)
(* the egress port, which ipv4_route overwrites.                           *)
Serve(s, p) ==
    CASE p.op = "READ_REQUEST" -> [p EXCEPT !.val = value_reg[s][p.key]]
      [] Assigns(s, p) ->
           pop_chain([p EXCEPT !.seq = maintain_sequence(s, p)])
      [] OTHER -> p

(* The tail answers, any other member sends the packet down the chain.     *)
Forward(s, p) ==
    IF role[s][p.key] = "TAIL"
    THEN gen_reply(IF s \in PopAgainAt THEN pop_chain(p) ELSE p, ReplyOp(p.op))
    ELSE [p EXCEPT !.dst = p.overlay[1]]

(* failure_recovery: the matching entry with the smallest priority number. *)
Matching(s, p) ==
    {r \in rules : r.sw = s /\ r.dst = p.dst /\ VGroup[p.key] \in r.vgs}

failure_recovery(s, p) ==
    IF Matching(s, p) = {} THEN p
    ELSE LET r == CHOOSE r \in Matching(s, p) :
                    \A q \in Matching(s, p) : r.prio <= q.prio
         IN CASE r.act = "failover" ->
                   pop_chain([p EXCEPT !.dst = p.overlay[2]])
              [] r.act = "failover_write_reply" -> gen_reply(p, "WRITE_REPLY")
              [] r.act = "failure_recovery" ->
                   [p EXCEPT !.overlay[1] = Backup, !.dst = Backup]
              [] r.act = "drop_packet" -> p

ingress(s, p) ==
    failure_recovery(s, IF ForMe(s, p) THEN Forward(s, Serve(s, p)) ELSE p)

(* ipv4_route: the packet leaves for the next node; without a route, or    *)
(* towards a switch that is down, it is gone.                              *)
ipv4_route(s, p) ==
    LET nh == Route[s][p.dst]
    IN IF nh \in alive \cup {Client} THEN {[p EXCEPT !.at = nh]} ELSE {}

(* A running switch takes a packet through its whole pipeline.             *)
Process(s, p) ==
    /\ s \in alive
    /\ p.at = s
    /\ net' = (net \ {p}) \cup ipv4_route(s, ingress(s, p))
    /\ sequence_reg' =
         IF Assigns(s, p)
         THEN [sequence_reg EXCEPT ![s][p.key] = maintain_sequence(s, p)]
         ELSE sequence_reg
    /\ value_reg' = IF Assigns(s, p)
                    THEN [value_reg EXCEPT ![s][p.key] = p.val]
                    ELSE value_reg
    /\ order' = IF Assigns(s, p) /\ IsHead(s, p)
                THEN [order EXCEPT ![p.key] = Append(@, p.val)]
                ELSE order
    /\ UNCHANGED <<setup, alive, role, rules, ctl, writes, reads, losses, owed,
                   completed>>

(* A reply reaches the client.                                             *)
Receive(p) ==
    /\ p.at = Client
    /\ net' = net \ {p}
    /\ completed' =
         [completed EXCEPT ![p.key] = IF VersionOf(p.key, p.val) > @
                                      THEN VersionOf(p.key, p.val) ELSE @]
    /\ UNCHANGED <<setup, alive, role, sequence_reg, value_reg, rules, ctl, writes,
                   reads, losses, order, owed>>

(* UDP over a switch queue: any packet may be lost.                        *)
Lose(p) ==
    /\ losses < MaxLoss
    /\ losses' = losses + 1
    /\ net' = net \ {p}
    /\ UNCHANGED <<setup, alive, role, sequence_reg, value_reg, rules, ctl, writes,
                   reads, order, owed, completed>>

-----------------------------------------------------------------------------
(* The controller (test_failure): one switch is stopped, the failure is    *)
(* noticed, failover runs, then failure_recovery, group after group.       *)

(* The packets queued in the stopped switch are gone with it.              *)
stop_switch ==
    /\ ctl.pc = "watch"
    /\ \E i \in MayFail :
         /\ alive' = alive \ {Chain[i]}
         /\ net' = {p \in net : p.at # Chain[i]}
         /\ ctl' = [ctl EXCEPT !.pc = "failover", !.failed = i]
    /\ UNCHANGED <<setup, role, sequence_reg, value_reg, rules, writes, reads,
                   losses, order, owed, completed>>

(* The chain members the controller copies from and programs.              *)
Target == IF FailPos = Len(Chain) THEN Chain[FailPos - 1] ELSE Chain[FailPos + 1]
Neighbor == IF FailPos = 1 THEN Chain[2] ELSE Chain[FailPos - 1]

Rule(vgs, prio, act) ==
    [sw |-> Neighbor, dst |-> FailSw, vgs |-> vgs, prio |-> prio, act |-> act]

ControllerOnly ==
    /\ owed' = IF ctl'.pc = "done"
               THEN {p.val : p \in {q \in net : q.op = "WRITE_REQUEST" /\ q.dst = HeadSw}}
               ELSE owed
    /\ UNCHANGED <<setup, alive, sequence_reg, value_reg, net, writes, reads,
                   losses, order, completed>>

failover_Answering ==
    /\ ctl.pc = "failover"
    /\ ctl' = [ctl EXCEPT !.pc = "disable"]
    /\ rules' = rules \cup {Rule(Groups, 3, "failover_write_reply")}
    /\ UNCHANGED role
    /\ ControllerOnly

(* For a failed head the branch takes len() of the pipe it has opened,     *)
(* which raises: the script ends there.                                    *)
failover ==
    /\ ctl.pc = "failover"
    /\ IF FailPos = 1
       THEN /\ ctl' = [ctl EXCEPT !.pc = "raised"]
            /\ UNCHANGED rules
       ELSE /\ ctl' = [ctl EXCEPT !.pc = "disable"]
            /\ rules' = rules \cup
                 {Rule(Groups, 3, IF FailPos = Len(Chain)
                                 THEN "failover_write_reply" ELSE "failover")}
    /\ UNCHANGED role
    /\ ControllerOnly

(* The next virtual group, in increasing order.                            *)
Group == CHOOSE g \in ctl.todo : \A h \in ctl.todo : g <= h
KeysOf(g) == {k \in Keys : VGroup[k] = g}
NextKey == CHOOSE k \in ctl.keys : \A j \in ctl.keys : k <= j

disable_read_write_NoRule ==
    /\ ctl.pc = "disable"
    /\ ctl.todo # {}
    /\ ctl' = [ctl EXCEPT !.pc = "sequence", !.keys = KeysOf(Group)]
    /\ UNCHANGED <<role, rules>>
    /\ ControllerOnly

disable_read_write ==
    /\ ctl.pc = "disable"
    /\ ctl.todo # {}
    /\ rules' = rules \cup {Rule({Group}, 2, "drop_packet")}
    /\ ctl' = [ctl EXCEPT !.pc = "sequence", !.keys = KeysOf(Group)]
    /\ UNCHANGED role
    /\ ControllerOnly

copy_sequence_FromNeighbor ==
    /\ ctl.pc = "sequence"
    /\ LET left == ctl.keys \ {NextKey}
       IN ctl' = [ctl EXCEPT
                    !.seq[NextKey] = sequence_reg[Neighbor][NextKey],
                    !.keys = IF left = {} THEN KeysOf(Group) ELSE left,
                    !.pc = IF left = {} THEN "value" ELSE "sequence"]
    /\ UNCHANGED <<role, rules>>
    /\ ControllerOnly

(* One register_read command per key: first all sequence numbers ...       *)
copy_sequence ==
    /\ ctl.pc = "sequence"
    /\ LET left == ctl.keys \ {NextKey}
       IN ctl' = [ctl EXCEPT
                    !.seq[NextKey] = sequence_reg[Target][NextKey],
                    !.keys = IF left = {} THEN KeysOf(Group) ELSE left,
                    !.pc = IF left = {} THEN "value" ELSE "sequence"]
    /\ UNCHANGED <<role, rules>>
    /\ ControllerOnly

(* ... then all values.                                                    *)
copy_value ==
    /\ ctl.pc = "value"
    /\ LET left == ctl.keys \ {NextKey}
       IN ctl' = [ctl EXCEPT
                    !.val[NextKey] = value_reg[Target][NextKey],
                    !.keys = left,
                    !.pc = IF left = {} THEN "load" ELSE "value"]
    /\ UNCHANGED <<role, rules>>
    /\ ControllerOnly

(* The whole batch goes to the backup, which no packet of the group is     *)
(* addressed to before enable_read_write.                                  *)
load_backup ==
    LET K == KeysOf(Group)
    IN /\ ctl.pc = "load"
       /\ role' = [role EXCEPT ![Backup] = [k \in Keys |->
                     IF k \in K THEN RoleAt(FailPos) ELSE @[k]]]
       /\ sequence_reg' = [sequence_reg EXCEPT ![Backup] = [k \in Keys |->
                             IF k \in K THEN ctl.seq[k] ELSE @[k]]]
       /\ value_reg' = [value_reg EXCEPT ![Backup] = [k \in Keys |->
                          IF k \in K THEN ctl.val[k] ELSE @[k]]]
       /\ ctl' = [ctl EXCEPT !.pc = "enable"]
       /\ UNCHANGED <<setup, alive, rules, net, writes, reads, losses, order,
                      owed, completed>>

enable_read_write_LowPriority ==
    /\ ctl.pc = "enable"
    /\ rules' = rules \cup {Rule({Group}, 3, "failure_recovery")}
    /\ ctl' = [ctl EXCEPT !.todo = @ \ {Group},
                          !.pc = IF ctl.todo = {Group} THEN "done" ELSE "disable"]
    /\ UNCHANGED role
    /\ ControllerOnly

enable_read_write ==
    /\ ctl.pc = "enable"
    /\ rules' = rules \cup {Rule({Group}, 1, "failure_recovery")}
    /\ ctl' = [ctl EXCEPT !.todo = @ \ {Group},
                          !.pc = IF ctl.todo = {Group} THEN "done" ELSE "disable"]
    /\ UNCHANGED role
    /\ ControllerOnly

Controller ==
    \/ failover
    \/ disable_read_write
    \/ copy_sequence
    \/ copy_value
    \/ load_backup
    \/ enable_read_write

-----------------------------------------------------------------------------
Next ==
    \/ \E k \in Keys : write_req(k)
    \/ \E k \in Keys : read_req(k)
    \/ \E p \in net : \E s \in Switches : Process(s, p)
    \/ \E p \in net : Receive(p)
    \/ \E p \in net : Lose(p)
    \/ stop_switch
    \/ Controller

Spec == Init /\ [][Next]_vars

(* Queued packets are forwarded and the script runs on by itself.          *)
Busy == net # {} \/ ctl.pc \notin {"watch", "raised", "done"}

FairSpec == Spec /\ ([]<>~Busy \/ []<><<TRUE>>_vars)

-----------------------------------------------------------------------------
ChainSet == {Chain[i] : i \in 1..Len(Chain)}
Addresses == Switches \cup {Client, END}
(* The head has not used up the 16-bit sequence numbers of key k.          *)
NotWrapped(k) == Len(order[k]) < SeqMod

(* A sequence number means the same write everywhere: a chain switch that  *)
(* stores number n stores the value the head gave number n, whatever order *)
(* the writes reached it in (the nc_hdr.seq > sequence_md.seq guard).      *)
NumbersAgree ==
    \A s \in ChainSet, k \in Keys : NotWrapped(k) =>
        /\ sequence_reg[s][k] <= Len(order[k])
        /\ value_reg[s][k] = ValueOf(k, sequence_reg[s][k])

(* A read answered by the tail returns no version older than what any      *)
(* client had been told of when the read was sent, whether that was the    *)
(* reply to a write (also a stale one the tail answers without applying)   *)
(* or to another read.                                                     *)
ReadsAreFresh ==
    \A p \in net : p.op = "READ_REPLY" /\ NotWrapped(p.key) =>
        VersionOf(p.key, p.val) >= p.floor

(* What a client was told, or is being told, is stored by every running    *)
(* chain switch, so the crash of any one of them loses no answered write;  *)
(* a backup that replaces the tail has it too once it is in the chain.     *)
AnsweredIsStored ==
    LET stored(k, n) == NotWrapped(k) =>
            /\ \A s \in ChainSet \cap alive : sequence_reg[s][k] >= n
            /\ role[Backup][k] = "TAIL" => sequence_reg[Backup][k] >= n
    IN /\ \A k \in Keys : stored(k, completed[k])
       /\ \A p \in net : p.op \in {"READ_REPLY", "WRITE_REPLY"}
            => stored(p.key, VersionOf(p.key, p.val))

(* The backup's number may be older than its value, because the controller *)
(* reads the sequence register before the value register, but never newer: *)
(* with a newer number it would refuse the writes it lacks.                *)
BackupNotAhead ==
    \A k \in Keys : role[Backup][k] # "none" /\ NotWrapped(k) =>
        /\ sequence_reg[Backup][k] <= VersionOf(k, value_reg[Backup][k])
        /\ sequence_reg[Backup][k] <= sequence_reg[HeadSw][k]

(* Even past the last number only the head starts over: no step takes the  *)
(* number stored by a replica, the tail or the backup in use back.         *)
NeverGoesBack ==
    [][\A s \in Switches \ {HeadSw}, k \in Keys :
         role[s][k] # "none" => sequence_reg'[s][k] >= sequence_reg[s][k]]_vars

(* The switch that answers for the chain.                                  *)
Answering == IF FailPos = Len(Chain) /\ ctl.pc = "done" THEN Backup ELSE TailSw

Lands(w) == \E k \in Keys : \E n \in 1..Len(order[k]) :
                order[k][n] = w /\ sequence_reg[Answering][k] >= n

(* A write on its way to the head of a chain whose recovery is complete is *)
(* in the end stored at the tail or superseded there by a newer one,       *)
(* unless a packet is lost or the head's numbers are used up.              *)
WritesLand ==
    <>[](losses > 0 \/ (\E k \in Keys : ~NotWrapped(k)) \/ \A w \in owed : Lands(w))
=============================================================================

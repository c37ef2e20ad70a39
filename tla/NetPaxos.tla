------------------------------ MODULE NetPaxos ------------------------------
(***************************************************************************)
(* NetPaxos: the coordinator and the acceptors of Paxos as P4 programs     *)
(* (netpaxos/).  The coordinator gives every client request the next       *)
(* instance and sends it as a phase 2A of proposal 0, whose phase 1 is     *)
(* implied.  An acceptor answers phase 1A and 2A messages from registers   *)
(* indexed by the instance.  Clients, proposers of higher proposals (which *)
(* fill the gaps left by lost messages) and learners are host programs     *)
(* outside the repository; they are modelled from the messages the P4 code *)
(* exchanges with them.                                                    *)
(*                                                                         *)
(* msgs is the set of messages ever sent: a message may be handled late,   *)
(* out of order, repeatedly or never.                                      *)
(***************************************************************************)
EXTENDS Integers, FiniteSets

CONSTANTS
    Acceptors,     \* the acceptor switches (paxos.acpt)
    Quorums,       \* the sets of acceptors a learner or proposer waits for
    Values,        \* what clients submit
    MaxInst,       \* instances 0 .. MaxInst-1 (INST_COUNT = 64000 registers)
    MaxProposal,   \* proposals 0 .. MaxProposal (16 bits in the code)
    MaxResets      \* bound on reset messages

(* Two quorums meet.                                                       *)
ASSUME QuorumAssumption ==
    /\ \A Q \in Quorums : Q \subseteq Acceptors
    /\ \A Q, R \in Quorums : Q \cap R # {}

(* A register that was never written reads 0, so 0 is no client value.     *)
ASSUME ValueAssumption == Values \subseteq Nat \ {0}

ASSUME BoundAssumption ==
    MaxInst \in Nat /\ MaxProposal \in Nat /\ MaxResets \in Nat

Instances == 0 .. MaxInst-1
Proposals == 0 .. MaxProposal

VARIABLES
    inst_register,       \* coordinator: the next instance
    proposal_register,   \* acceptors, per instance: proposal promised,
    vproposal_register,  \*   proposal of the last vote,
    val_register,        \*   value of the last vote
    msgs,                \* messages sent
    resets               \* reset messages handled so far

acceptorVars == <<proposal_register, vproposal_register, val_register>>
vars == <<inst_register, proposal_register, vproposal_register, val_register,
          msgs, resets>>

Message ==
    [msgtype : {"submit"}, val : Values] \cup
    [msgtype : {"1A"}, inst : Instances, proposal : Proposals] \cup
    [msgtype : {"1B"}, inst : Instances, proposal : Proposals,
     vproposal : Proposals, val : Values \cup {0}, acpt : Acceptors] \cup
    [msgtype : {"2A"}, inst : Instances, proposal : Proposals, val : Values] \cup
    [msgtype : {"2B"}, inst : Instances, proposal : Proposals,
     vproposal : Proposals, val : Values, acpt : Acceptors]

Init ==
    /\ inst_register = 0
    /\ proposal_register = [a \in Acceptors |-> [i \in Instances |-> 0]]
    /\ vproposal_register = [a \in Acceptors |-> [i \in Instances |-> 0]]
    /\ val_register = [a \in Acceptors |-> [i \in Instances |-> 0]]
    /\ msgs = {}
    /\ resets = 0

Send(m) == msgs' = msgs \cup {m}

-----------------------------------------------------------------------------
(* A client submits a value (msgtype 0, proposal left at 0).               *)
Submit(v) ==
    /\ Send([msgtype |-> "submit", val |-> v])
    /\ UNCHANGED <<inst_register, acceptorVars, resets>>

(* The coordinator: every copy of a request it sees takes a new instance.  *)
increase_sequence(m) ==
    /\ m.msgtype = "submit"
    /\ inst_register \in Instances
    /\ inst_register' = inst_register + 1
    /\ Send([msgtype |-> "2A", inst |-> inst_register, proposal |-> 0,
             val |-> m.val])
    /\ UNCHANGED <<acceptorVars, resets>>

(* msgtype 0xff: instances are given out from 0 again.                     *)
reset_paxos ==
    /\ resets < MaxResets
    /\ resets' = resets + 1
    /\ inst_register' = 0
    /\ UNCHANGED <<acceptorVars, msgs>>

-----------------------------------------------------------------------------
NotOlder_Strict(a, m) == proposal_register[a][m.inst] < m.proposal

(* An acceptor handles a message whose proposal is not below the one in    *)
(* its register (read_round); any other message is dropped.                *)
NotOlder(a, m) == proposal_register[a][m.inst] <= m.proposal

handle_phase1a_NoPromise(a, m) ==
    /\ m.msgtype = "1A"
    /\ NotOlder(a, m)
    /\ Send([msgtype |-> "1B", inst |-> m.inst, proposal |-> m.proposal,
             vproposal |-> vproposal_register[a][m.inst],
             val |-> val_register[a][m.inst], acpt |-> a])
    /\ UNCHANGED <<inst_register, acceptorVars, resets>>

handle_phase1a(a, m) ==
    /\ m.msgtype = "1A"
    /\ NotOlder(a, m)
    /\ proposal_register' =
         [proposal_register EXCEPT ![a][m.inst] = m.proposal]
    /\ Send([msgtype |-> "1B", inst |-> m.inst, proposal |-> m.proposal,
             vproposal |-> vproposal_register[a][m.inst],
             val |-> val_register[a][m.inst], acpt |-> a])
    /\ UNCHANGED <<inst_register, vproposal_register, val_register, resets>>

handle_phase2a(a, m) ==
    /\ m.msgtype = "2A"
    /\ NotOlder(a, m)
    /\ proposal_register' =
         [proposal_register EXCEPT ![a][m.inst] = m.proposal]
    /\ vproposal_register' =
         [vproposal_register EXCEPT ![a][m.inst] = m.proposal]
    /\ val_register' = [val_register EXCEPT ![a][m.inst] = m.val]
    /\ Send([msgtype |-> "2B", inst |-> m.inst, proposal |-> m.proposal,
             vproposal |-> m.proposal, val |-> m.val, acpt |-> a])
    /\ UNCHANGED <<inst_register, resets>>

-----------------------------------------------------------------------------
(* A proposer (external) prepares an instance with a proposal above 0, a   *)
(* number it shares with no other proposer.                                *)
Prepare(i, b) ==
    /\ b > 0
    /\ Send([msgtype |-> "1A", inst |-> i, proposal |-> b])
    /\ UNCHANGED <<inst_register, acceptorVars, resets>>

Promises(i, b, Q) ==
    {m \in msgs : m.msgtype = "1B" /\ m.inst = i /\ m.proposal = b
                  /\ m.acpt \in Q}

(* With promises from a quorum it proposes, once, the value reported with  *)
(* the highest vproposal, or any value if none was reported.               *)
Propose(i, b, v, Q) ==
    LET reported == {m \in Promises(i, b, Q) : m.val # 0}
    IN /\ b > 0
       /\ \A m \in msgs : ~(m.msgtype = "2A" /\ m.inst = i /\ m.proposal = b)
       /\ \A a \in Q : \E m \in Promises(i, b, Q) : m.acpt = a
       /\ \/ reported = {}
          \/ \E m \in reported :
               m.val = v /\ \A n \in reported : n.vproposal <= m.vproposal
       /\ Send([msgtype |-> "2A", inst |-> i, proposal |-> b, val |-> v])
       /\ UNCHANGED <<inst_register, acceptorVars, resets>>

Next ==
    \/ \E v \in Values : Submit(v)
    \/ \E m \in msgs : increase_sequence(m)
    \/ reset_paxos
    \/ \E a \in Acceptors, m \in msgs : handle_phase1a(a, m)
    \/ \E a \in Acceptors, m \in msgs : handle_phase2a(a, m)
    \/ \E i \in Instances, b \in Proposals : Prepare(i, b)
    \/ \E i \in Instances, b \in Proposals, v \in Values, Q \in Quorums :
         Propose(i, b, v, Q)

Spec == Init /\ [][Next]_vars

(* The switches keep forwarding: a phase 2A for an instance reaches every  *)
(* acceptor in the end (some copy of it, some time).                       *)
Fairness ==
    \A a \in Acceptors, i \in Instances :
        WF_vars(\E m \in msgs : m.msgtype = "2A" /\ m.inst = i
                                /\ handle_phase2a(a, m))

FairSpec == Spec /\ Fairness

-----------------------------------------------------------------------------
Voted(a, i, b, v) ==
    \E m \in msgs : /\ m.msgtype = "2B" /\ m.acpt = a /\ m.inst = i
                    /\ m.proposal = b /\ m.val = v

(* A learner (external) delivers a value voted for by a quorum in one      *)
(* proposal.                                                               *)
Chosen(i, v) ==
    \E b \in Proposals, Q \in Quorums : \A a \in Q : Voted(a, i, b, v)

(* The registers and messages keep their shapes.                           *)
TypeOK ==
    /\ inst_register \in 0 .. MaxInst
    /\ proposal_register \in [Acceptors -> [Instances -> Proposals]]
    /\ vproposal_register \in [Acceptors -> [Instances -> Proposals]]
    /\ val_register \in [Acceptors -> [Instances -> Values \cup {0}]]
    /\ msgs \subseteq Message
    /\ resets \in 0 .. MaxResets

(* No two learners deliver different values for an instance, whatever      *)
(* messages are lost, repeated or reordered and however many proposers     *)
(* compete with the coordinator, as long as the coordinator is not reset.  *)
Agreement ==
    resets = 0 => \A i \in Instances, v, w \in Values :
                      Chosen(i, v) /\ Chosen(i, w) => v = w

(* A promise is an honest and binding report: of the proposals below the   *)
(* one it promises, the acceptor has voted and ever will vote for none     *)
(* above the vote it reports in vproposal, and for none at all if it       *)
(* reports the value 0 (handle_phase1a answers from the registers that     *)
(* handle_phase2a writes).                                                 *)
PromisesKept ==
    \A m \in msgs : m.msgtype = "1B" =>
        \A n \in msgs :
            n.msgtype = "2B" /\ n.acpt = m.acpt /\ n.inst = m.inst
              /\ n.proposal < m.proposal
            => m.val # 0 /\ n.proposal <= m.vproposal

(* An acceptor never takes a promise or a vote back: its two proposal      *)
(* registers only grow and the value changes only together with a vote of  *)
(* a proposal at least as high, also after a reset of the coordinator.     *)
AcceptorsOnlyAdvance ==
    [][\A a \in Acceptors, i \in Instances :
         /\ proposal_register'[a][i] >= proposal_register[a][i]
         /\ vproposal_register'[a][i] >= vproposal_register[a][i]
         /\ val_register'[a][i] # val_register[a][i] =>
              vproposal_register'[a][i] = proposal_register'[a][i]]_vars

(* No proposer competes and the coordinator is not reset.                  *)
Undisturbed == resets = 0 /\ \A m \in msgs : m.msgtype # "1A"

(* As long as nothing disturbs it, every instance the coordinator gives    *)
(* out is decided: the acceptors vote in the proposal 0 their registers    *)
(* start with (proposal <= paxos.proposal, not <).                         *)
InstancesDecided ==
    []Undisturbed => \A i \in Instances :
        i < inst_register ~> \E v \in Values : Chosen(i, v)
=============================================================================

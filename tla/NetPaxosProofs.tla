--------------------------- MODULE NetPaxosProofs ---------------------------
(***************************************************************************)
(* Proofs about NetPaxos, for any set of acceptors, any intersecting       *)
(* quorums, and any number of instances and proposals.                     *)
(***************************************************************************)
EXTENDS NetPaxos, TLAPS

(* An acceptor that has passed proposal c without voting in it.            *)
WontVote(a, i, c) ==
    proposal_register[a][i] > c /\ \A v \in Values : ~Voted(a, i, c, v)

(* No value but v is, or can still be, chosen below proposal b.            *)
SafeAt(i, b, v) ==
    \A c \in Proposals : c < b =>
        \E Q \in Quorums : \A a \in Q : Voted(a, i, c, v) \/ WontVote(a, i, c)

Proposed(i, b, v) ==
    [msgtype |-> "2A", inst |-> i, proposal |-> b, val |-> v] \in msgs

(* The registers of an acceptor summarise the votes it has sent.           *)
RegistersInv ==
    \A a \in Acceptors, i \in Instances :
        /\ vproposal_register[a][i] <= proposal_register[a][i]
        /\ \A c \in Proposals, v \in Values :
             vproposal_register[a][i] = c /\ val_register[a][i] = v =>
                 Voted(a, i, c, v)
        /\ \A c \in Proposals, v \in Values : Voted(a, i, c, v) =>
             val_register[a][i] # 0 /\ c <= vproposal_register[a][i]

(* A vote was asked for; a promise reports the votes below it.             *)
VotesInv ==
    \A a \in Acceptors, i \in Instances, b \in Proposals, v \in Values :
        Voted(a, i, b, v) => Proposed(i, b, v)

PromiseInv ==
    \A m \in msgs : m.msgtype = "1B" =>
        /\ m.proposal <= proposal_register[m.acpt][m.inst]
        /\ m.vproposal <= m.proposal
        /\ m.val # 0 => Voted(m.acpt, m.inst, m.vproposal, m.val)
        /\ \A c \in Proposals, v \in Values :
             Voted(m.acpt, m.inst, c, v) /\ c < m.proposal =>
                 m.val # 0 /\ c <= m.vproposal

(* Until a reset, a proposal has one value, and a safe one.                *)
ProposalsInv ==
    resets = 0 =>
        \A i \in Instances, b \in Proposals, v \in Values : Proposed(i, b, v) =>
            /\ b = 0 => i < inst_register
            /\ \A w \in Values : Proposed(i, b, w) => w = v
            /\ SafeAt(i, b, v)

IInv == TypeOK /\ RegistersInv /\ VotesInv /\ PromiseInv /\ ProposalsInv
-----------------------------------------------------------------------------
(* What the message types of the set Message say of a message.             *)
LEMMA MessageTypes ==
    ASSUME TypeOK, NEW m \in msgs
    PROVE  /\ m.msgtype = "submit" => m.val \in Values
           /\ m.msgtype = "1A" => /\ m.inst \in Instances
                                  /\ m.proposal \in Proposals
           /\ m.msgtype = "1B" => /\ m.inst \in Instances
                                  /\ m.proposal \in Proposals
                                  /\ m.vproposal \in Proposals
                                  /\ m.val \in Values \cup {0}
                                  /\ m.acpt \in Acceptors
           /\ m.msgtype = "2A" => /\ m.inst \in Instances
                                  /\ m.proposal \in Proposals
                                  /\ m.val \in Values
                                  /\ Proposed(m.inst, m.proposal, m.val)
           /\ m.msgtype = "2B" => /\ m.inst \in Instances
                                  /\ m.proposal \in Proposals
                                  /\ m.val \in Values
                                  /\ m.acpt \in Acceptors
                                  /\ Voted(m.acpt, m.inst, m.proposal, m.val)
<1>1. m \in Message
  BY DEF TypeOK
<1>2. CASE m \in [msgtype : {"submit"}, val : Values]
  BY <1>2
<1>3. CASE m \in [msgtype : {"1A"}, inst : Instances, proposal : Proposals]
  BY <1>3
<1>4. CASE m \in [msgtype : {"1B"}, inst : Instances, proposal : Proposals,
                  vproposal : Proposals, val : Values \cup {0},
                  acpt : Acceptors]
  BY <1>4
<1>5. CASE m \in [msgtype : {"2A"}, inst : Instances, proposal : Proposals,
                  val : Values]
  <2>1. m = [msgtype |-> "2A", inst |-> m.inst, proposal |-> m.proposal,
             val |-> m.val]
    BY <1>5
  <2> QED BY <1>5, <2>1 DEF Proposed
<1>6. CASE m \in [msgtype : {"2B"}, inst : Instances, proposal : Proposals,
                  vproposal : Proposals, val : Values, acpt : Acceptors]
  BY <1>6 DEF Voted
<1> QED BY <1>1, <1>2, <1>3, <1>4, <1>5, <1>6 DEF Message

-----------------------------------------------------------------------------
(* Every step keeps the types.                                             *)
LEMMA TypeStep == TypeOK /\ [Next]_vars => TypeOK'
<1> SUFFICES ASSUME TypeOK, [Next]_vars PROVE TypeOK'
  OBVIOUS
<1> USE BoundAssumption, ValueAssumption
<1>1. ASSUME NEW v \in Values, Submit(v) PROVE TypeOK'
  BY <1>1 DEF TypeOK, Submit, Send, Message, acceptorVars
<1>2. ASSUME NEW m \in msgs, increase_sequence(m) PROVE TypeOK'
  <2>1. m.val \in Values
    BY <1>2, MessageTypes DEF increase_sequence
  <2>2. [msgtype |-> "2A", inst |-> inst_register, proposal |-> 0,
         val |-> m.val] \in Message
    BY <1>2, <2>1 DEF increase_sequence, Message, Proposals
  <2>3. inst_register' \in 0 .. MaxInst
    BY <1>2 DEF increase_sequence, Instances
  <2> QED BY <1>2, <2>2, <2>3 DEF increase_sequence, TypeOK, Send, acceptorVars
<1>3. CASE reset_paxos
  BY <1>3 DEF TypeOK, reset_paxos, acceptorVars
<1>4. ASSUME NEW a \in Acceptors, NEW m \in msgs, handle_phase1a(a, m)
      PROVE  TypeOK'
  <2>1. m.inst \in Instances /\ m.proposal \in Proposals
    BY <1>4, MessageTypes DEF handle_phase1a
  <2>2. [msgtype |-> "1B", inst |-> m.inst, proposal |-> m.proposal,
         vproposal |-> vproposal_register[a][m.inst],
         val |-> val_register[a][m.inst], acpt |-> a] \in Message
    BY <2>1 DEF TypeOK, Message
  <2> QED BY <1>4, <2>1, <2>2 DEF handle_phase1a, TypeOK, Send
<1>5. ASSUME NEW a \in Acceptors, NEW m \in msgs, handle_phase2a(a, m)
      PROVE  TypeOK'
  <2>1. m.inst \in Instances /\ m.proposal \in Proposals /\ m.val \in Values
    BY <1>5, MessageTypes DEF handle_phase2a
  <2>2. [msgtype |-> "2B", inst |-> m.inst, proposal |-> m.proposal,
         vproposal |-> m.proposal, val |-> m.val, acpt |-> a] \in Message
    BY <2>1 DEF Message
  <2> QED BY <1>5, <2>1, <2>2 DEF handle_phase2a, TypeOK, Send
<1>6. ASSUME NEW i \in Instances, NEW b \in Proposals, Prepare(i, b)
      PROVE  TypeOK'
  BY <1>6 DEF TypeOK, Prepare, Send, Message, acceptorVars
<1>7. ASSUME NEW i \in Instances, NEW b \in Proposals, NEW v \in Values,
             NEW Q \in Quorums, Propose(i, b, v, Q)
      PROVE  TypeOK'
  BY <1>7 DEF TypeOK, Propose, Send, Message, acceptorVars
<1>8. CASE UNCHANGED vars
  BY <1>8 DEF TypeOK, vars
<1> QED BY <1>1, <1>2, <1>3, <1>4, <1>5, <1>6, <1>7, <1>8 DEF Next

(* The registers of the coordinator and the acceptors, and the messages,   *)
(* always have the shapes TypeOK gives them.                               *)
THEOREM TypeCorrect == Spec => []TypeOK
<1>1. Init => TypeOK
  BY BoundAssumption DEF Init, TypeOK, Instances, Proposals
<1> QED BY <1>1, TypeStep, PTL DEF Spec

-----------------------------------------------------------------------------
(* Messages and promises only accumulate, and an acceptor casts a new vote *)
(* only in a proposal it has not passed.                                   *)
LEMMA Growth ==
    ASSUME TypeOK, [Next]_vars
    PROVE  /\ msgs \subseteq msgs'
           /\ \A a \in Acceptors, i \in Instances :
                proposal_register[a][i] <= proposal_register'[a][i]
           /\ \A a \in Acceptors, i \in Instances, c \in Proposals,
                 v \in Values :
                Voted(a, i, c, v)' =>
                    Voted(a, i, c, v) \/ proposal_register[a][i] <= c
<1> DEFINE P == /\ msgs \subseteq msgs'
                /\ \A a \in Acceptors, i \in Instances :
                     proposal_register[a][i] <= proposal_register'[a][i]
                /\ \A a \in Acceptors, i \in Instances, c \in Proposals,
                      v \in Values :
                     Voted(a, i, c, v)' =>
                         Voted(a, i, c, v) \/ proposal_register[a][i] <= c
<1>0. \A a \in Acceptors, i \in Instances :
        proposal_register[a][i] <= proposal_register[a][i]
  BY DEF TypeOK, Proposals
<1>1. ASSUME NEW v \in Values, Submit(v) PROVE P
  BY <1>0, <1>1 DEF Submit, Send, acceptorVars, Voted
<1>2. ASSUME NEW m \in msgs, increase_sequence(m) PROVE P
  BY <1>0, <1>2 DEF increase_sequence, Send, acceptorVars, Voted
<1>3. CASE reset_paxos
  BY <1>0, <1>3 DEF reset_paxos, acceptorVars, Voted
<1>4. ASSUME NEW a \in Acceptors, NEW m \in msgs, handle_phase1a(a, m) PROVE P
  <2>1. m.inst \in Instances /\ m.proposal \in Proposals
    BY <1>4, MessageTypes DEF handle_phase1a
  <2>2. \A x \in Acceptors, i \in Instances :
          proposal_register[x][i] <= proposal_register'[x][i]
    BY <1>0, <1>4, <2>1 DEF handle_phase1a, NotOlder, TypeOK
  <2>3. \A x, i, c, v : Voted(x, i, c, v)' => Voted(x, i, c, v)
    BY <1>4 DEF handle_phase1a, Send, Voted
  <2> QED BY <1>4, <2>2, <2>3 DEF handle_phase1a, Send
<1>5. ASSUME NEW a \in Acceptors, NEW m \in msgs, handle_phase2a(a, m) PROVE P
  <2>1. m.inst \in Instances /\ m.proposal \in Proposals
    BY <1>5, MessageTypes DEF handle_phase2a
  <2>2. \A x \in Acceptors, i \in Instances :
          proposal_register[x][i] <= proposal_register'[x][i]
    BY <1>0, <1>5, <2>1 DEF handle_phase2a, NotOlder, TypeOK
  <2>3. \A x, i, c, v : Voted(x, i, c, v)' =>
          Voted(x, i, c, v) \/ (x = a /\ i = m.inst /\ c = m.proposal)
    BY <1>5 DEF handle_phase2a, Send, Voted
  <2> QED BY <1>5, <2>2, <2>3 DEF handle_phase2a, Send, NotOlder
<1>6. ASSUME NEW i \in Instances, NEW b \in Proposals, Prepare(i, b) PROVE P
  BY <1>0, <1>6 DEF Prepare, Send, acceptorVars, Voted
<1>7. ASSUME NEW i \in Instances, NEW b \in Proposals, NEW v \in Values,
             NEW Q \in Quorums, Propose(i, b, v, Q)
      PROVE  P
  BY <1>0, <1>7 DEF Propose, Send, acceptorVars, Voted
<1>8. CASE UNCHANGED vars
  BY <1>0, <1>8 DEF vars, Voted
<1> QED BY <1>1, <1>2, <1>3, <1>4, <1>5, <1>6, <1>7, <1>8 DEF Next

(* What is safe stays safe.                                                *)
LEMMA SafeStable ==
    ASSUME TypeOK, [Next]_vars, NEW i \in Instances, NEW b \in Proposals,
           NEW v \in Values, SafeAt(i, b, v)
    PROVE  SafeAt(i, b, v)'
<1> SUFFICES ASSUME NEW c \in Proposals, c < b
             PROVE  \E Q \in Quorums : \A a \in Q :
                        Voted(a, i, c, v)' \/ WontVote(a, i, c)'
  BY DEF SafeAt
<1>1. PICK Q \in Quorums : \A a \in Q : Voted(a, i, c, v) \/ WontVote(a, i, c)
  BY DEF SafeAt
<1>2. ASSUME NEW a \in Q PROVE Voted(a, i, c, v)' \/ WontVote(a, i, c)'
  <2>1. a \in Acceptors
    BY QuorumAssumption
  <2>2. CASE Voted(a, i, c, v)
    BY <2>2, Growth DEF Voted
  <2>3. CASE WontVote(a, i, c)
    <3>1. /\ proposal_register[a][i] \in Nat /\ proposal_register'[a][i] \in Nat
          /\ c \in Nat
      BY <2>1, TypeStep DEF TypeOK, Proposals
    <3>2. proposal_register'[a][i] > c
      BY <2>1, <2>3, <3>1, Growth DEF WontVote
    <3>3. \A w \in Values : ~Voted(a, i, c, w)'
      BY <2>1, <2>3, <3>1, Growth DEF WontVote
    <3> QED BY <3>2, <3>3 DEF WontVote
  <2> QED BY <1>1, <2>2, <2>3
<1> QED BY <1>2

-----------------------------------------------------------------------------
(* A step of an actor other than an acceptor casts no vote, makes no       *)
(* promise and leaves the registers of the acceptors alone.                *)
LEMMA OthersStep ==
    ASSUME TypeOK, RegistersInv, VotesInv, PromiseInv,
           UNCHANGED acceptorVars, msgs \subseteq msgs',
           \A m \in msgs' : m \in msgs \/ m.msgtype \notin {"1B", "2B"}
    PROVE  RegistersInv' /\ VotesInv' /\ PromiseInv'
<1>1. \A a, i, b, v : Voted(a, i, b, v)' <=> Voted(a, i, b, v)
  BY DEF Voted
<1>2. \A i, b, v : Proposed(i, b, v) => Proposed(i, b, v)'
  BY DEF Proposed
<1>3. RegistersInv'
  BY <1>1 DEF RegistersInv, acceptorVars
<1>4. VotesInv'
  BY <1>1, <1>2 DEF VotesInv
<1>5. PromiseInv'
  <2> SUFFICES ASSUME NEW m \in msgs', m.msgtype = "1B"
               PROVE  /\ m.proposal <= proposal_register'[m.acpt][m.inst]
                      /\ m.vproposal <= m.proposal
                      /\ m.val # 0 => Voted(m.acpt, m.inst, m.vproposal, m.val)'
                      /\ \A c \in Proposals, v \in Values :
                           Voted(m.acpt, m.inst, c, v)' /\ c < m.proposal =>
                               m.val # 0 /\ c <= m.vproposal
    BY DEF PromiseInv
  <2>1. m \in msgs
    OBVIOUS
  <2> QED BY <1>1, <2>1 DEF PromiseInv, acceptorVars
<1> QED BY <1>3, <1>4, <1>5

(* An acceptor that answers a phase 1A reports the registers it has.       *)
LEMMA Phase1aStep ==
    ASSUME TypeOK, RegistersInv, VotesInv, PromiseInv,
           NEW a \in Acceptors, NEW m \in msgs, handle_phase1a(a, m)
    PROVE  RegistersInv' /\ VotesInv' /\ PromiseInv'
<1>1. m.inst \in Instances /\ m.proposal \in Proposals
  BY MessageTypes DEF handle_phase1a
<1>2. \A x, i, b, v : Voted(x, i, b, v)' <=> Voted(x, i, b, v)
  BY DEF handle_phase1a, Send, Voted
<1>3. \A i, b, v : Proposed(i, b, v) => Proposed(i, b, v)'
  BY DEF handle_phase1a, Send, Proposed
<1>4. \A x \in Acceptors, i \in Instances :
        /\ proposal_register[x][i] \in Nat /\ vproposal_register[x][i] \in Nat
        /\ proposal_register'[x][i] \in Nat
        /\ proposal_register[x][i] <= proposal_register'[x][i]
        /\ x = a /\ i = m.inst => proposal_register'[x][i] = m.proposal
  BY <1>1 DEF handle_phase1a, NotOlder, TypeOK, Proposals
<1>5. RegistersInv'
  BY <1>2, <1>4 DEF RegistersInv, handle_phase1a
<1>6. VotesInv'
  BY <1>2, <1>3 DEF VotesInv
<1>7. PromiseInv'
  <2> SUFFICES ASSUME NEW n \in msgs', n.msgtype = "1B"
               PROVE  /\ n.proposal <= proposal_register'[n.acpt][n.inst]
                      /\ n.vproposal <= n.proposal
                      /\ n.val # 0 => Voted(n.acpt, n.inst, n.vproposal, n.val)
                      /\ \A c \in Proposals, v \in Values :
                           Voted(n.acpt, n.inst, c, v) /\ c < n.proposal =>
                               n.val # 0 /\ c <= n.vproposal
    BY <1>2 DEF PromiseInv
  <2>1. CASE n \in msgs
    <3>1. n.acpt \in Acceptors /\ n.inst \in Instances /\ n.proposal \in Nat
      BY <2>1, MessageTypes DEF Proposals
    <3> QED BY <1>4, <2>1, <3>1 DEF PromiseInv
  <2>2. CASE n = [msgtype |-> "1B", inst |-> m.inst, proposal |-> m.proposal,
                  vproposal |-> vproposal_register[a][m.inst],
                  val |-> val_register[a][m.inst], acpt |-> a]
    <3>1. /\ n.acpt = a /\ n.inst = m.inst /\ n.proposal = m.proposal
          /\ n.vproposal = vproposal_register[a][m.inst]
          /\ n.val = val_register[a][m.inst]
      BY <2>2
    <3>2. vproposal_register[a][m.inst] <= m.proposal
      BY <1>1, <1>4 DEF RegistersInv, handle_phase1a, NotOlder, Proposals
    <3>3. m.proposal <= proposal_register'[a][m.inst]
      BY <1>1, <1>4
    <3>4. vproposal_register[a][m.inst] \in Proposals
          /\ val_register[a][m.inst] \in Values \cup {0}
      BY <1>1 DEF TypeOK
    <3> QED BY <1>1, <3>1, <3>2, <3>3, <3>4 DEF RegistersInv
  <2> QED BY <2>1, <2>2 DEF handle_phase1a, Send
<1> QED BY <1>5, <1>6, <1>7

(* An acceptor that votes has promised nothing above its vote.             *)
LEMMA Phase2aStep ==
    ASSUME TypeOK, RegistersInv, VotesInv, PromiseInv,
           NEW a \in Acceptors, NEW m \in msgs, handle_phase2a(a, m)
    PROVE  RegistersInv' /\ VotesInv' /\ PromiseInv'
<1>1. /\ m.inst \in Instances /\ m.proposal \in Proposals /\ m.val \in Values
      /\ Proposed(m.inst, m.proposal, m.val)
  BY MessageTypes DEF handle_phase2a
<1>2. \A x, i, b, v : Voted(x, i, b, v)' <=>
        \/ Voted(x, i, b, v)
        \/ x = a /\ i = m.inst /\ b = m.proposal /\ v = m.val
  <2> DEFINE vote == [msgtype |-> "2B", inst |-> m.inst,
                      proposal |-> m.proposal, vproposal |-> m.proposal,
                      val |-> m.val, acpt |-> a]
  <2>1. /\ vote.msgtype = "2B" /\ vote.acpt = a /\ vote.inst = m.inst
        /\ vote.proposal = m.proposal /\ vote.val = m.val
    OBVIOUS
  <2>2. msgs' = msgs \cup {vote}
    BY DEF handle_phase2a, Send
  <2> HIDE DEF vote
  <2> QED BY <2>1, <2>2 DEF Voted
<1>3. \A i, b, v : Proposed(i, b, v) => Proposed(i, b, v)'
  BY DEF handle_phase2a, Send, Proposed
<1>4. \A x \in Acceptors, i \in Instances :
        /\ proposal_register[x][i] \in Nat /\ vproposal_register[x][i] \in Nat
        /\ proposal_register'[x][i] \in Nat /\ vproposal_register'[x][i] \in Nat
        /\ proposal_register[x][i] <= proposal_register'[x][i]
        /\ x = a /\ i = m.inst =>
             /\ proposal_register'[x][i] = m.proposal
             /\ vproposal_register'[x][i] = m.proposal
             /\ val_register'[x][i] = m.val
        /\ ~(x = a /\ i = m.inst) =>
             /\ proposal_register'[x][i] = proposal_register[x][i]
             /\ vproposal_register'[x][i] = vproposal_register[x][i]
             /\ val_register'[x][i] = val_register[x][i]
  BY <1>1, SMTT(60) DEF handle_phase2a, NotOlder, TypeOK, Proposals
<1>5. RegistersInv'
  <2> SUFFICES ASSUME NEW x \in Acceptors, NEW i \in Instances
               PROVE  /\ vproposal_register'[x][i] <= proposal_register'[x][i]
                      /\ \A c \in Proposals, v \in Values :
                           /\ vproposal_register'[x][i] = c
                           /\ val_register'[x][i] = v
                           => Voted(x, i, c, v)'
                      /\ \A c \in Proposals, v \in Values :
                           Voted(x, i, c, v)' =>
                             /\ val_register'[x][i] # 0
                             /\ c <= vproposal_register'[x][i]
    BY DEF RegistersInv
  <2>0. /\ vproposal_register[x][i] <= proposal_register[x][i]
        /\ \A c \in Proposals, v \in Values :
             /\ vproposal_register[x][i] = c /\ val_register[x][i] = v =>
                  Voted(x, i, c, v)
             /\ Voted(x, i, c, v) =>
                  val_register[x][i] # 0 /\ c <= vproposal_register[x][i]
    BY DEF RegistersInv
  <2>1. CASE ~(x = a /\ i = m.inst)
    BY <1>2, <1>4, <2>0, <2>1
  <2>2. CASE x = a /\ i = m.inst
    <3>1. m.proposal \in Nat /\ m.val # 0 /\ Proposals \subseteq Nat
      BY <1>1, ValueAssumption DEF Proposals
    <3>2. vproposal_register[x][i] <= m.proposal
      BY <1>4, <2>0, <2>2, <3>1, SMTT(60) DEF handle_phase2a, NotOlder
    <3>3. \A c \in Proposals, v \in Values : Voted(x, i, c, v)' =>
            c <= m.proposal
      BY <1>2, <1>4, <2>0, <3>1, <3>2
    <3> QED BY <1>2, <1>4, <2>2, <3>1, <3>3
  <2> QED BY <2>1, <2>2
<1>6. VotesInv'
  BY <1>1, <1>2, <1>3 DEF VotesInv
<1>7. PromiseInv'
  <2> SUFFICES ASSUME NEW n \in msgs', n.msgtype = "1B"
               PROVE  /\ n.proposal <= proposal_register'[n.acpt][n.inst]
                      /\ n.vproposal <= n.proposal
                      /\ n.val # 0 => Voted(n.acpt, n.inst, n.vproposal, n.val)'
                      /\ \A c \in Proposals, v \in Values :
                           Voted(n.acpt, n.inst, c, v)' /\ c < n.proposal =>
                               n.val # 0 /\ c <= n.vproposal
    BY DEF PromiseInv
  <2>1. n \in msgs
    BY DEF handle_phase2a, Send
  <2>2. /\ n.acpt \in Acceptors /\ n.inst \in Instances /\ n.proposal \in Nat
        /\ n.proposal <= proposal_register[n.acpt][n.inst]
        /\ m.proposal \in Nat
    BY <1>1, <2>1, MessageTypes DEF Proposals, PromiseInv
  <2>3. n.acpt = a /\ n.inst = m.inst => n.proposal <= m.proposal
    BY <1>4, <2>2, SMTT(60) DEF handle_phase2a, NotOlder
  <2>4. n.proposal <= proposal_register'[n.acpt][n.inst]
    BY <1>4, <2>2, SMTT(60)
  <2>5. \A c \in Proposals, v \in Values :
          Voted(n.acpt, n.inst, c, v)' /\ c < n.proposal =>
              n.val # 0 /\ c <= n.vproposal
    <3> SUFFICES ASSUME NEW c \in Proposals, NEW v \in Values,
                        Voted(n.acpt, n.inst, c, v)', c < n.proposal
                 PROVE  Voted(n.acpt, n.inst, c, v)
      BY <2>1 DEF PromiseInv
    <3> QED BY <1>2, <2>2, <2>3, SMTT(60) DEF Proposals
  <2> QED BY <1>2, <2>1, <2>4, <2>5 DEF PromiseInv
<1> QED BY <1>5, <1>6, <1>7

-----------------------------------------------------------------------------
(* The value a proposer picks from the promises of a quorum is safe.       *)
LEMMA ProposeIsSafe ==
    ASSUME IInv, resets = 0, NEW i \in Instances, NEW b \in Proposals,
           NEW v \in Values, NEW Q \in Quorums, Propose(i, b, v, Q)
    PROVE  SafeAt(i, b, v)
<1> DEFINE reported == {m \in Promises(i, b, Q) : m.val # 0}
<1>0. Proposals \subseteq Nat /\ Q \subseteq Acceptors
  BY QuorumAssumption DEF Proposals
<1>1. ASSUME NEW m \in Promises(i, b, Q)
      PROVE  /\ m \in msgs /\ m.msgtype = "1B" /\ m.inst = i /\ m.proposal = b
             /\ m.acpt \in Q /\ m.vproposal \in Proposals
             /\ m.val \in Values \cup {0}
  BY <1>1, MessageTypes DEF Promises, IInv
<1>2. ASSUME NEW a \in Q, NEW c \in Proposals, c < b,
             \A m \in reported : m.vproposal < c
      PROVE  WontVote(a, i, c)
  <2>1. PICK m \in Promises(i, b, Q) : m.acpt = a
    BY DEF Propose
  <2>2. proposal_register[a][i] > c
    <3>1. b <= proposal_register[a][i] /\ proposal_register[a][i] \in Nat
      BY <1>0, <1>1, <2>1, Zenon DEF IInv, PromiseInv, TypeOK
    <3> QED BY <1>0, <1>2, <3>1
  <2>3. ASSUME NEW w \in Values, Voted(a, i, c, w) PROVE FALSE
    <3>1. m.val # 0 /\ c <= m.vproposal
      BY <1>1, <1>2, <2>1, <2>3 DEF IInv, PromiseInv
    <3>2. m.vproposal < c
      BY <1>2, <3>1
    <3>3. c \in Nat /\ m.vproposal \in Nat
      BY <1>0, <1>1, Zenon
    <3> QED BY <3>1, <3>2, <3>3
  <2> QED BY <2>2, <2>3 DEF WontVote
<1>3. CASE reported = {}
  BY <1>2, <1>3 DEF SafeAt
<1>4. ASSUME NEW m \in reported, m.val = v,
             \A n \in reported : n.vproposal <= m.vproposal
      PROVE  SafeAt(i, b, v)
  <2> DEFINE k == m.vproposal
  <2>1. k \in Proposals /\ k <= b /\ Voted(m.acpt, i, k, v)
    BY <1>1, <1>4 DEF IInv, PromiseInv
  <2>2. m.acpt \in Acceptors
    BY <1>0, <1>1
  <2>3. Proposed(i, k, v)
    BY <2>1, <2>2 DEF IInv, VotesInv
  <2>4. k # b
    BY <2>3 DEF Proposed, Propose
  <2>5. SafeAt(i, k, v) /\ \A w \in Values : Proposed(i, k, w) => w = v
    BY <2>1, <2>3 DEF IInv, ProposalsInv
  <2> SUFFICES ASSUME NEW c \in Proposals, c < b
               PROVE  \E R \in Quorums : \A a \in R :
                          Voted(a, i, c, v) \/ WontVote(a, i, c)
    BY DEF SafeAt
  <2>6. CASE c < k
    BY <2>5, <2>6 DEF SafeAt
  <2>7. CASE k < c
    <3>1. ASSUME NEW n \in reported PROVE n.vproposal < c
      <4>1. n.vproposal \in Nat /\ k \in Nat /\ c \in Nat
        BY <1>0, <1>1, <2>1, Zenon
      <4> QED BY <1>4, <2>7, <4>1
    <3> QED BY <1>2, <3>1
  <2>8. CASE c = k
    <3>1. ASSUME NEW a \in Q PROVE Voted(a, i, k, v) \/ WontVote(a, i, k)
      <4>1. CASE \E w \in Values : Voted(a, i, k, w)
        <5>1. PICK w \in Values : Voted(a, i, k, w)
          BY <4>1
        <5>2. Proposed(i, k, w)
          BY <1>0, <2>1, <5>1, Zenon DEF IInv, VotesInv
        <5> QED BY <2>5, <5>1, <5>2
      <4>2. CASE ~\E w \in Values : Voted(a, i, k, w)
        <5>1. PICK n \in Promises(i, b, Q) : n.acpt = a
          BY DEF Propose
        <5>2. b <= proposal_register[a][i] /\ proposal_register[a][i] \in Nat
          BY <1>0, <1>1, <5>1, ZenonT(60) DEF IInv, PromiseInv, TypeOK
        <5>3. b \in Nat /\ k \in Nat
          BY <1>0, <2>1, Zenon
        <5> QED BY <2>1, <2>4, <4>2, <5>2, <5>3 DEF WontVote
      <4> QED BY <4>1, <4>2
    <3> QED BY <2>8, <3>1
  <2>9. c \in Nat /\ k \in Nat
    BY <1>0, <2>1, Zenon
  <2> QED BY <2>6, <2>7, <2>8, <2>9
<1> QED BY <1>3, <1>4 DEF Propose

(* Until a reset every proposal keeps one value, and a safe one.           *)
LEMMA ProposalsStep == IInv /\ [Next]_vars => ProposalsInv'
<1> SUFFICES ASSUME IInv, [Next]_vars, resets' = 0,
                    NEW i \in Instances, NEW b \in Proposals, NEW v \in Values,
                    Proposed(i, b, v)'
             PROVE  /\ b = 0 => i < inst_register'
                    /\ \A w \in Values : Proposed(i, b, w)' => w = v
                    /\ SafeAt(i, b, v)'
  BY DEF ProposalsInv
<1> USE DEF IInv
<1>0. inst_register \in Nat /\ resets \in Nat /\ Instances \subseteq Nat
  BY BoundAssumption DEF TypeOK, Instances
<1>1. ASSUME resets = 0, inst_register' = inst_register,
             \A m \in msgs' : m.msgtype = "2A" => m \in msgs
      PROVE  /\ b = 0 => i < inst_register'
             /\ \A w \in Values : Proposed(i, b, w)' => w = v
             /\ SafeAt(i, b, v)'
  <2>1. \A w : Proposed(i, b, w)' => Proposed(i, b, w)
    BY <1>1 DEF Proposed
  <2> QED BY <1>1, <2>1, SafeStable DEF ProposalsInv
<1>2. ASSUME NEW m \in msgs, increase_sequence(m)
      PROVE  /\ b = 0 => i < inst_register'
             /\ \A w \in Values : Proposed(i, b, w)' => w = v
             /\ SafeAt(i, b, v)'
  <2>1. resets = 0 /\ inst_register' = inst_register + 1
    BY <1>2 DEF increase_sequence
  <2>2. \A w : Proposed(i, b, w)' =>
          Proposed(i, b, w) \/ (i = inst_register /\ b = 0 /\ w = m.val)
    BY <1>2 DEF increase_sequence, Send, Proposed
  <2>3. \A w \in Values : Proposed(i, b, w) /\ b = 0 => i < inst_register
    BY <2>1 DEF ProposalsInv
  <2>4. b = 0 => i < inst_register'
    BY <1>0, <2>1, <2>2, <2>3
  <2>5. \A w \in Values : Proposed(i, b, w)' => w = v
    BY <1>0, <2>1, <2>2, <2>3 DEF ProposalsInv
  <2>6. SafeAt(i, b, v)'
    <3>1. CASE Proposed(i, b, v)
      BY <2>1, <3>1, SafeStable DEF ProposalsInv
    <3>2. CASE b = 0
      BY <3>2 DEF SafeAt, Proposals
    <3> QED BY <2>2, <3>1, <3>2
  <2> QED BY <2>4, <2>5, <2>6
<1>3. ASSUME NEW j \in Instances, NEW c \in Proposals, NEW u \in Values,
             NEW Q \in Quorums, Propose(j, c, u, Q)
      PROVE  /\ b = 0 => i < inst_register'
             /\ \A w \in Values : Proposed(i, b, w)' => w = v
             /\ SafeAt(i, b, v)'
  <2>1. resets = 0 /\ inst_register' = inst_register
    BY <1>3 DEF Propose
  <2>2. \A w : Proposed(i, b, w)' =>
          Proposed(i, b, w) \/ (i = j /\ b = c /\ w = u)
    BY <1>3 DEF Propose, Send, Proposed
  <2>3. \A w : ~Proposed(j, c, w)
    BY <1>3 DEF Propose, Proposed
  <2>4. CASE Proposed(i, b, v)
    BY <2>1, <2>2, <2>3, <2>4, SafeStable DEF ProposalsInv
  <2>5. CASE i = j /\ b = c /\ v = u
    <3>1. SafeAt(i, b, v)'
      BY <1>3, <2>1, <2>5, ProposeIsSafe, SafeStable
    <3>2. b # 0
      BY <1>3, <2>5, SMTT(60) DEF Propose, Proposals
    <3> QED BY <2>2, <2>3, <2>5, <3>1, <3>2
  <2> QED BY <2>2, <2>4, <2>5
<1>4. ASSUME NEW u \in Values, Submit(u)
      PROVE  /\ b = 0 => i < inst_register'
             /\ \A w \in Values : Proposed(i, b, w)' => w = v
             /\ SafeAt(i, b, v)'
  BY <1>1, <1>4 DEF Submit, Send
<1>5. CASE reset_paxos
  BY <1>0, <1>5 DEF reset_paxos
<1>6. ASSUME NEW a \in Acceptors, NEW m \in msgs, handle_phase1a(a, m)
      PROVE  /\ b = 0 => i < inst_register'
             /\ \A w \in Values : Proposed(i, b, w)' => w = v
             /\ SafeAt(i, b, v)'
  BY <1>1, <1>6 DEF handle_phase1a, Send
<1>7. ASSUME NEW a \in Acceptors, NEW m \in msgs, handle_phase2a(a, m)
      PROVE  /\ b = 0 => i < inst_register'
             /\ \A w \in Values : Proposed(i, b, w)' => w = v
             /\ SafeAt(i, b, v)'
  BY <1>1, <1>7 DEF handle_phase2a, Send
<1>8. ASSUME NEW j \in Instances, NEW c \in Proposals, Prepare(j, c)
      PROVE  /\ b = 0 => i < inst_register'
             /\ \A w \in Values : Proposed(i, b, w)' => w = v
             /\ SafeAt(i, b, v)'
  BY <1>1, <1>8 DEF Prepare, Send
<1>9. CASE UNCHANGED vars
  BY <1>1, <1>9 DEF vars
<1> QED BY <1>2, <1>3, <1>4, <1>5, <1>6, <1>7, <1>8, <1>9 DEF Next

-----------------------------------------------------------------------------
\* Zeroed registers and an empty network satisfy the invariant.
LEMMA InitInv == Init => IInv
<1> SUFFICES ASSUME Init PROVE IInv
  OBVIOUS
<1>1. TypeOK
  BY BoundAssumption DEF Init, TypeOK, Instances, Proposals
<1>2. RegistersInv
  BY ValueAssumption DEF Init, RegistersInv, Voted
<1> QED BY <1>1, <1>2
    DEF Init, IInv, VotesInv, PromiseInv, ProposalsInv, Voted, Proposed

\* Every handler of coordinator, acceptors and proposers keeps the invariant.
LEMMA InvStep == IInv /\ [Next]_vars => IInv'
<1> SUFFICES ASSUME IInv, [Next]_vars
             PROVE  RegistersInv' /\ VotesInv' /\ PromiseInv'
  BY TypeStep, ProposalsStep DEF IInv
<1> USE DEF IInv
<1>1. ASSUME NEW v \in Values, Submit(v)
      PROVE  RegistersInv' /\ VotesInv' /\ PromiseInv'
  BY <1>1, OthersStep DEF Submit, Send, acceptorVars
<1>2. ASSUME NEW m \in msgs, increase_sequence(m)
      PROVE  RegistersInv' /\ VotesInv' /\ PromiseInv'
  BY <1>2, OthersStep DEF increase_sequence, Send, acceptorVars
<1>3. CASE reset_paxos
  BY <1>3, OthersStep DEF reset_paxos, acceptorVars
<1>4. ASSUME NEW a \in Acceptors, NEW m \in msgs, handle_phase1a(a, m)
      PROVE  RegistersInv' /\ VotesInv' /\ PromiseInv'
  BY <1>4, Phase1aStep
<1>5. ASSUME NEW a \in Acceptors, NEW m \in msgs, handle_phase2a(a, m)
      PROVE  RegistersInv' /\ VotesInv' /\ PromiseInv'
  BY <1>5, Phase2aStep
<1>6. ASSUME NEW i \in Instances, NEW b \in Proposals, Prepare(i, b)
      PROVE  RegistersInv' /\ VotesInv' /\ PromiseInv'
  BY <1>6, OthersStep DEF Prepare, Send, acceptorVars
<1>7. ASSUME NEW i \in Instances, NEW b \in Proposals, NEW v \in Values,
             NEW Q \in Quorums, Propose(i, b, v, Q)
      PROVE  RegistersInv' /\ VotesInv' /\ PromiseInv'
  BY <1>7, OthersStep, SMTT(60) DEF Propose, Send, acceptorVars
<1>8. CASE UNCHANGED vars
  BY <1>8, OthersStep DEF vars, acceptorVars
<1> QED BY <1>1, <1>2, <1>3, <1>4, <1>5, <1>6, <1>7, <1>8 DEF Next

\* The invariant holds in every reachable state.
LEMMA Invariance == Spec => []IInv
BY InitInv, InvStep, PTL DEF Spec

(* Two quorums that voted for an instance voted for the same value.        *)
LEMMA InvAgreement == IInv => Agreement
<1> SUFFICES ASSUME IInv, resets = 0, NEW i \in Instances,
                    NEW v \in Values, NEW w \in Values,
                    NEW b \in Proposals, NEW c \in Proposals,
                    NEW Q \in Quorums, NEW R \in Quorums,
                    \A a \in Q : Voted(a, i, b, v),
                    \A a \in R : Voted(a, i, c, w)
             PROVE  v = w
  BY DEF Agreement, Chosen
<1>1. Proposed(i, b, v) /\ Proposed(i, c, w)
  BY QuorumAssumption DEF IInv, VotesInv
<1>2. ASSUME NEW x \in Values, NEW y \in Values,
             NEW d \in Proposals, NEW e \in Proposals, NEW S \in Quorums,
             \A a \in S : Voted(a, i, d, x), Proposed(i, e, y), d < e
      PROVE  x = y
  <2>1. PICK T \in Quorums : \A a \in T : Voted(a, i, d, y) \/ WontVote(a, i, d)
    BY <1>2 DEF IInv, ProposalsInv, SafeAt
  <2>2. PICK a \in Acceptors : a \in S /\ a \in T
    BY QuorumAssumption
  <2>3. Voted(a, i, d, x) /\ Voted(a, i, d, y)
    BY <1>2, <2>1, <2>2 DEF WontVote
  <2>4. Proposed(i, d, x) /\ Proposed(i, d, y)
    BY <2>3 DEF IInv, VotesInv
  <2> QED BY <2>4 DEF IInv, ProposalsInv
<1>3. CASE b = c
  BY <1>1, <1>3 DEF IInv, ProposalsInv
<1>4. CASE b < c
  BY <1>1, <1>2, <1>4
<1>5. CASE c < b
  BY <1>1, <1>2, <1>5
<1> QED BY <1>3, <1>4, <1>5 DEF Proposals

(* Learners agree on every instance until the coordinator is reset,        *)
(* whatever is lost, repeated or reordered.                                *)
THEOREM AgreementHolds == Spec => []Agreement
BY Invariance, InvAgreement, PTL

(* Every promise an acceptor sends reports its votes and binds it.         *)
THEOREM PromisesHold == Spec => []PromisesKept
<1>1. IInv => PromisesKept
  <2> SUFFICES ASSUME IInv, NEW m \in msgs, m.msgtype = "1B",
                      NEW n \in msgs, n.msgtype = "2B", n.acpt = m.acpt,
                      n.inst = m.inst, n.proposal < m.proposal
               PROVE  m.val # 0 /\ n.proposal <= m.vproposal
    BY DEF PromisesKept
  <2>1. /\ n.proposal \in Proposals /\ n.val \in Values
        /\ Voted(m.acpt, m.inst, n.proposal, n.val)
    BY MessageTypes DEF IInv
  <2> QED BY <2>1 DEF IInv, PromiseInv
<1> QED BY <1>1, Invariance, PTL

(* No step, not even after a reset of the coordinator, takes a promise or  *)
(* a vote of an acceptor back.                                             *)
THEOREM AcceptorsAdvance == Spec => AcceptorsOnlyAdvance
<1> DEFINE Step == \A a \in Acceptors, i \in Instances :
                     /\ proposal_register'[a][i] >= proposal_register[a][i]
                     /\ vproposal_register'[a][i] >= vproposal_register[a][i]
                     /\ val_register'[a][i] # val_register[a][i] =>
                          vproposal_register'[a][i] = proposal_register'[a][i]
<1>1. IInv /\ [Next]_vars => [Step]_vars
  <2> SUFFICES ASSUME IInv, Next PROVE Step
    BY DEF vars
  <2> USE DEF IInv
  <2>0. \A a \in Acceptors, i \in Instances :
          /\ proposal_register[a][i] \in Nat /\ vproposal_register[a][i] \in Nat
          /\ vproposal_register[a][i] <= proposal_register[a][i]
    BY DEF TypeOK, Proposals, RegistersInv
  <2>1. CASE UNCHANGED acceptorVars
    BY <2>0, <2>1 DEF acceptorVars
  <2>2. ASSUME NEW a \in Acceptors, NEW m \in msgs, handle_phase1a(a, m)
        PROVE  Step
    <3>1. m.inst \in Instances /\ m.proposal \in Nat
      BY <2>2, MessageTypes, SMTT(60) DEF handle_phase1a, Proposals
    <3> QED BY <2>0, <2>2, <3>1, SMTT(60) DEF handle_phase1a, NotOlder, TypeOK
  <2>3. ASSUME NEW a \in Acceptors, NEW m \in msgs, handle_phase2a(a, m)
        PROVE  Step
    <3>1. m.inst \in Instances /\ m.proposal \in Nat
      BY <2>3, MessageTypes, SMTT(60) DEF handle_phase2a, Proposals
    <3> QED BY <2>0, <2>3, <3>1 DEF handle_phase2a, NotOlder, TypeOK
  <2> QED BY <2>1, <2>2, <2>3, ZenonT(60)
      DEF Next, Submit, increase_sequence, reset_paxos, Prepare, Propose
<1> QED BY <1>1, Invariance, PTL DEF Spec, AcceptorsOnlyAdvance

=============================================================================

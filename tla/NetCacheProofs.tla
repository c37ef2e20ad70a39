--------------------------- MODULE NetCacheProofs ---------------------------
(***************************************************************************)
(* What NetCache guarantees for every set of keys and values, every hash   *)
(* function, sketch size, threshold and number of messages: clients read   *)
(* the server's values, and no hot key is reported twice.                  *)
(***************************************************************************)
EXTENDS NetCache, TLAPS

\* The hash of a key selects a cell of a row.
LEMMA IndexInRange ==
    ASSUME NEW k \in Keys
    PROVE  /\ \A i \in 1..4 : LoadIndex(i, k) \in 0..(HH_LOAD_NUM - 1)
           /\ \A i \in 1..3 : BfIndex(i, k) \in 0..(HH_BF_NUM - 1)
<1>1. ASSUME NEW a \in Nat, NEW n \in Nat \ {0} PROVE a % n \in 0..(n - 1)
  OBVIOUS
<1>2. \A i \in 1..3 : Hash[i][k] \in Nat
  BY NetCacheAssumption
<1>3. \A i \in 1..4 : Hash[IF i = 4 THEN 1 ELSE i][k] \in Nat
  <2> SUFFICES ASSUME NEW i \in 1..4
               PROVE  Hash[IF i = 4 THEN 1 ELSE i][k] \in Nat
    OBVIOUS
  <2>1. (IF i = 4 THEN 1 ELSE i) \in 1..3
    OBVIOUS
  <2> QED BY <2>1, <1>2
<1>4. HH_LOAD_NUM \in Nat \ {0} /\ HH_BF_NUM \in Nat \ {0}
  BY NetCacheAssumption
<1> QED
  BY <1>1, <1>2, <1>3, <1>4, Zenon DEF LoadIndex, BfIndex

\* Writing a cell of a row keeps the row's type.
LEMMA RowWritten ==
    ASSUME NEW R, NEW S, NEW f \in [R -> S], NEW x \in R, NEW v \in S
    PROVE  [f EXCEPT ![x] = v] \in [R -> S]
OBVIOUS

\* The initial registers are typed.
LEMMA TypeInit == Init => TypeOK
BY NetCacheAssumption DEF Init, TypeOK, NoValue

\* Every step keeps the types.
LEMMA TypeNext == ASSUME TypeOK, [Next]_vars PROVE TypeOK'
<1>0. /\ MaxReads \in Nat /\ MaxLoss \in Nat /\ Cached \subseteq Keys
      /\ sentReads \in Nat /\ losses \in Nat
  BY NetCacheAssumption DEF TypeOK
<1>1. ASSUME NEW k \in Keys, ClientSend(k) PROVE TypeOK'
  <2>1. sentReads' \in 0..MaxReads
    BY <1>0, <1>1 DEF ClientSend
  <2>2. Msg("switch", "server", "READ_REQUEST", k, NoValue, sentReads') \in Message
    BY <2>1 DEF Msg, Message, Ops
  <2>3. net' \subseteq Message
    BY <1>1, <2>2 DEF TypeOK, ClientSend
  <2> QED
    BY <1>1, <2>1, <2>3, SMTT(60) DEF TypeOK, ClientSend, cacheRegs, ctrl, hhRegs, counted
<1>2. ASSUME NEW k \in Keys, ControllerUpdate(k) PROVE TypeOK'
  <2>1. Msg("switch", "server", "UPDATE_REQUEST", k, NoValue, 0) \in Message
    BY <1>0 DEF Msg, Message, Ops
  <2>2. net' \subseteq Message
    BY <1>2, <2>1 DEF TypeOK, ControllerUpdate
  <2> QED
    BY <1>2, <2>2, SMTT(60) DEF TypeOK, ControllerUpdate, cacheRegs, client, hhRegs, counted
<1>3. ASSUME NEW m \in net, ClientReceive(m) PROVE TypeOK'
  BY <1>3, SMTT(60) DEF TypeOK, ClientReceive, Replace, cacheRegs, ctrl, hhRegs, counted
<1>4. ASSUME NEW m \in net, ControllerReceive(m) PROVE TypeOK'
  BY <1>4, SMTT(60) DEF TypeOK, ControllerReceive, Replace, cacheRegs, client, hhRegs, counted
<1>5. ASSUME NEW m \in net, ServerReceive(m) PROVE TypeOK'
  <2>0. m \in Message /\ m.key \in Keys /\ m.read \in 0..MaxReads /\ kv[m.key] \in Values
    BY DEF TypeOK, Message
  <2>1. /\ Msg("switch", "client", "READ_REPLY", m.key, kv[m.key], m.read) \in Message
        /\ Msg("switch", "controller", "UPDATE_REPLY", m.key, kv[m.key], 0) \in Message
    BY <1>0, <2>0 DEF Msg, Message, Ops
  <2>2. net' \subseteq Message
    BY <1>5, <2>1 DEF TypeOK, ServerReceive, Replace
  <2> QED
    BY <1>5, <2>2, SMTT(60) DEF TypeOK, ServerReceive, cacheRegs, client, ctrl, hhRegs, counted
<1>6. ASSUME NEW m \in net, Lose(m) PROVE TypeOK'
  <2>1. losses' \in 0..MaxLoss
    BY <1>0, <1>6 DEF Lose
  <2>2. net' \subseteq Message
    BY <1>6 DEF TypeOK, Lose, Replace
  <2> QED
    BY <1>6, <2>1, <2>2, SMTT(60) DEF TypeOK, Lose, cacheRegs, client, ctrl, hhRegs, counted
<1>7. ASSUME NEW m \in net, SwitchReadHit(m) PROVE TypeOK'
  <2>1. net' \subseteq Message
    BY <1>0, <1>7 DEF TypeOK, SwitchReadHit, ReadHit, Replace, Msg, Message, Ops
  <2> QED
    BY <1>7, <2>1, SMTT(60) DEF TypeOK, SwitchReadHit, cacheRegs, client, ctrl, hhRegs, counted
<1>8. ASSUME NEW m \in net, SwitchUpdateReply(m) PROVE TypeOK'
  <2>1. net' \subseteq Message
    BY <1>8, ZenonT(60) DEF TypeOK, SwitchUpdateReply, Replace, Message, Ops
  <2>2. cache_valid' \in [Cached -> 0..1] /\ cache_value' \in [Cached -> Values \cup {NoValue}]
    BY <1>8 DEF TypeOK, SwitchUpdateReply, Message
  <2> QED
    BY <1>8, <2>1, <2>2, SMTT(60) DEF TypeOK, SwitchUpdateReply, client, ctrl, hhRegs, counted
<1>9. ASSUME NEW m \in net, SwitchReadMiss(m) PROVE TypeOK'
  <2>1. m \in Message /\ m.key \in Keys
    BY DEF TypeOK, Message
  <2>2. net' \subseteq Message
    <3>1. /\ [m EXCEPT !.to = m.dst] \in Message
          /\ Msg("controller", "controller", "HOT_READ_REQUEST", m.key, NoValue, m.read) \in Message
      BY <2>1 DEF Msg, Message, Ops
    <3> QED
      BY <1>9, <3>1, Zenon DEF TypeOK, SwitchReadMiss, Replace
  <2>3. load' \in [1..4 -> [0..(HH_LOAD_NUM - 1) -> Nat]]
    <3>1. \A i \in 1..4 : /\ load[i] \in [0..(HH_LOAD_NUM - 1) -> Nat]
                          /\ LoadIndex(i, m.key) \in 0..(HH_LOAD_NUM - 1)
      BY <2>1, IndexInRange, Zenon DEF TypeOK
    <3> HIDE DEF LoadIndex
    <3>2. load' = [i \in 1..4 |-> [load[i] EXCEPT ![LoadIndex(i, m.key)] = @ + 1]]
      BY <1>9 DEF SwitchReadMiss, count_min
    <3>3. ASSUME NEW i \in 1..4 PROVE load'[i] \in [0..(HH_LOAD_NUM - 1) -> Nat]
      <4>1. PICK x \in 0..(HH_LOAD_NUM - 1) : load'[i] = [load[i] EXCEPT ![x] = @ + 1]
        BY <3>1, <3>2, Zenon
      <4>2. load[i] \in [0..(HH_LOAD_NUM - 1) -> Nat] /\ load[i][x] + 1 \in Nat
        <5>1. load[i] \in [0..(HH_LOAD_NUM - 1) -> Nat]
          BY <3>1, Zenon
        <5>2. load[i][x] \in Nat
          BY <5>1, Zenon
        <5> QED
          BY <5>1, <5>2
      <4>3. load'[i] = [load[i] EXCEPT ![x] = load[i][x] + 1]
        BY <4>1
      <4> QED
        BY <4>2, <4>3, RowWritten
    <3> QED
      BY <3>2, <3>3, SMTT(60)
  <2>4. bf' \in [1..3 -> [0..(HH_BF_NUM - 1) -> 0..1]]
    <3>1. CASE UNCHANGED bf
      BY <3>1 DEF TypeOK
    <3>2. CASE bloom_filter(m.key)
      <4>1. \A i \in 1..3 : bf[i] \in [0..(HH_BF_NUM - 1) -> 0..1]
        BY DEF TypeOK
      <4>2. ASSUME NEW i \in 1..3 PROVE bf'[i] \in [0..(HH_BF_NUM - 1) -> 0..1]
        <5>1. bf'[i] = [bf[i] EXCEPT ![BfIndex(i, m.key)] = 1]
          BY <3>2 DEF bloom_filter
        <5>2. BfIndex(i, m.key) \in 0..(HH_BF_NUM - 1) /\ 1 \in 0..1
          BY <2>1, IndexInRange
        <5> QED
          BY <4>1, <5>1, <5>2, RowWritten
      <4> QED
        BY <3>2, <4>2 DEF bloom_filter
    <3> QED
      BY <1>9, <3>1, <3>2 DEF SwitchReadMiss
  <2>5. reads' \in [Keys -> Nat] /\ reports' \in [Keys -> Nat]
    <3>1. reads' = [reads EXCEPT ![m.key] = @ + 1]
      BY <1>9 DEF SwitchReadMiss
    <3>2. PICK x \in 0..1 : reports' = [reports EXCEPT ![m.key] = @ + x]
      <4>1. CASE Hot(m.key) /\ Unreported(m.key)
        BY <1>9, <4>1 DEF SwitchReadMiss
      <4>2. CASE ~(Hot(m.key) /\ Unreported(m.key))
        <5>1. reports' = [reports EXCEPT ![m.key] = @ + 0]
          BY <1>9, <4>2, Zenon DEF SwitchReadMiss
        <5> QED
          BY <5>1
      <4> QED
        BY <4>1, <4>2
    <3>3. reads[m.key] \in Nat /\ reports[m.key] \in Nat
      BY <2>1 DEF TypeOK
    <3>4. reads[m.key] + 1 \in Nat /\ reports[m.key] + x \in Nat
      BY <3>3
    <3> QED
      BY <2>1, <3>1, <3>2, <3>4, SMTT(60) DEF TypeOK
  <2> QED
    BY <1>9, <2>2, <2>3, <2>4, <2>5, Zenon DEF TypeOK, SwitchReadMiss, cacheRegs, client, ctrl
<1>10. ASSUME NEW m \in net, SwitchRoute(m) PROVE TypeOK'
  <2>1. net' \subseteq Message
    BY <1>10, ZenonT(60) DEF TypeOK, SwitchRoute, Replace, Message, Ops
  <2> QED
    BY <1>10, <2>1, SMTT(60) DEF TypeOK, SwitchRoute, cacheRegs, client, ctrl, hhRegs, counted
<1>11. CASE UNCHANGED vars
  BY <1>11, SMTT(60) DEF TypeOK, vars, cacheRegs, client, ctrl, hhRegs, counted
<1> QED
  BY <1>1, <1>2, <1>3, <1>4, <1>5, <1>6, <1>7, <1>8, <1>9, <1>10, <1>11 DEF Next

\* Registers, messages and bounds keep their types.
THEOREM TypeCorrect == Spec => []TypeOK
BY TypeInit, TypeNext, PTL DEF Spec

-----------------------------------------------------------------------------
(* Answers.  An answer is right because every message that carries a value *)
(* to the cache or to the client carries the server's, and a valid entry   *)
(* holds it.                                                               *)

Carries(m) ==
    /\ m.op = "READ_REPLY" => m.val = kv[m.key]
    /\ m.op = "UPDATE_REPLY" /\ m.to = "switch" => m.val = kv[m.key]
    /\ m.dst = "client" => m.op = "READ_REPLY"
    /\ m.to = "client" => m.dst = "client"

AnswersInv ==
    /\ \A k \in Cached : cache_valid[k] = 1 => cache_value[k] = kv[k]
    /\ \A m \in net : Carries(m)
    /\ AnswersRight

\* Every step keeps it: only the server's replies are new values.
LEMMA AnswersNext == ASSUME TypeOK, AnswersInv, [Next]_vars PROVE AnswersInv'
<1>0. Cached \subseteq Keys
  BY NetCacheAssumption
<1>1. ASSUME NEW k \in Keys, ClientSend(k) PROVE AnswersInv'
  BY <1>1, SMTT(60) DEF ClientSend, Msg, AnswersInv, Carries, AnswersRight, cacheRegs
<1>2. ASSUME NEW k \in Keys, ControllerUpdate(k) PROVE AnswersInv'
  BY <1>2 DEF ControllerUpdate, Msg, AnswersInv, Carries, AnswersRight, cacheRegs, client
<1>3. ASSUME NEW m \in net, ClientReceive(m) PROVE AnswersInv'
  BY <1>3 DEF ClientReceive, Replace, AnswersInv, Carries, AnswersRight, cacheRegs
<1>4. ASSUME NEW m \in net, ControllerReceive(m) PROVE AnswersInv'
  BY <1>4 DEF ControllerReceive, Replace, AnswersInv, Carries, AnswersRight, cacheRegs, client
<1>5. ASSUME NEW m \in net, ServerReceive(m) PROVE AnswersInv'
  <2>1. /\ Carries(Msg("switch", "client", "READ_REPLY", m.key, kv[m.key], m.read))
        /\ Carries(Msg("switch", "controller", "UPDATE_REPLY", m.key, kv[m.key], 0))
    BY DEF Carries, Msg
  <2>2. \A x \in net' : Carries(x)
    BY <1>5, <2>1 DEF ServerReceive, Replace, AnswersInv
  <2>3. kv' = kv
    BY <1>5 DEF ServerReceive
  <2> QED
    BY <1>5, <2>2, <2>3 DEF ServerReceive, AnswersInv, Carries, AnswersRight, cacheRegs, client
<1>6. ASSUME NEW m \in net, Lose(m) PROVE AnswersInv'
  BY <1>6 DEF Lose, Replace, AnswersInv, Carries, AnswersRight, cacheRegs, client
<1>7. ASSUME NEW m \in net, SwitchReadHit(m) PROVE AnswersInv'
  BY <1>7 DEF SwitchReadHit, ReadHit, Replace, Msg, AnswersInv, Carries, AnswersRight,
              cacheRegs, client
<1>8. ASSUME NEW m \in net, SwitchUpdateReply(m) PROVE AnswersInv'
  <2>1. m \in Message /\ Carries(m)
    BY DEF TypeOK, AnswersInv
  <2>2. m.key \in Cached /\ m.val = kv[m.key] /\ m.dst # "client" /\ kv' = kv
    BY <1>8, <2>1 DEF SwitchUpdateReply, Carries
  <2>3. \A k \in Cached : cache_valid'[k] = 1 => cache_value'[k] = kv[k]
    BY <1>8, <2>2 DEF SwitchUpdateReply, TypeOK, AnswersInv
  <2>4. Carries([m EXCEPT !.to = m.dst, !.val = NoValue])
    BY <1>8, <2>1, <2>2 DEF SwitchUpdateReply, Carries, Message
  <2>5. \A x \in net' : Carries(x)
    BY <1>8, <2>4 DEF SwitchUpdateReply, Replace, AnswersInv
  <2> QED
    BY <1>8, <2>2, <2>3, <2>5 DEF SwitchUpdateReply, AnswersInv, Carries, AnswersRight, client
<1>9. ASSUME NEW m \in net, SwitchReadMiss(m) PROVE AnswersInv'
  <2>1. m \in Message /\ Carries(m) /\ m.op = "READ_REQUEST"
    BY <1>9 DEF TypeOK, AnswersInv, SwitchReadMiss
  <2>2. /\ Carries([m EXCEPT !.to = m.dst])
        /\ Carries(Msg("controller", "controller", "HOT_READ_REQUEST", m.key, NoValue, m.read))
    BY <2>1 DEF Carries, Message, Msg
  <2>3. \A x \in net' : Carries(x)
    BY <1>9, <2>2 DEF SwitchReadMiss, Replace, AnswersInv
  <2> QED
    BY <1>9, <2>3 DEF SwitchReadMiss, AnswersInv, Carries, AnswersRight, cacheRegs, client
<1>10. ASSUME NEW m \in net, SwitchRoute(m) PROVE AnswersInv'
  <2>1. m \in Message /\ Carries(m) /\ m.to = "switch"
    BY <1>10 DEF TypeOK, AnswersInv, SwitchRoute
  <2>2. Carries([m EXCEPT !.to = m.dst])
    BY <2>1 DEF Carries, Message
  <2>3. \A x \in net' : Carries(x)
    BY <1>10, <2>2 DEF SwitchRoute, Replace, AnswersInv
  <2> QED
    BY <1>10, <2>3 DEF SwitchRoute, AnswersInv, Carries, AnswersRight, cacheRegs, client
<1>11. CASE UNCHANGED vars
  BY <1>11 DEF vars, AnswersInv, Carries, AnswersRight, cacheRegs, client
<1> QED
  BY <1>1, <1>2, <1>3, <1>4, <1>5, <1>6, <1>7, <1>8, <1>9, <1>10, <1>11 DEF Next

\* Every answer a client gets, from the cache or from the server, is the
\* server's value of the key, whatever is lost and in whatever order the
\* messages that fill the cache and the reads arrive.
THEOREM AnswersHold == Spec => []AnswersRight
<1>1. Init => AnswersInv
  BY DEF Init, AnswersInv, AnswersRight
<1>2. AnswersInv => AnswersRight
  BY DEF AnswersInv
<1> QED
  BY <1>1, <1>2, TypeCorrect, AnswersNext, PTL DEF Spec

-----------------------------------------------------------------------------
(* Reports.  A key that was reported has its three bits set, and no step   *)
(* clears a bit.                                                           *)

BitsSet(k) == \A i \in 1..3 : bf[i][BfIndex(i, k)] = 1

ReportsInv ==
    \A k \in Keys : reports[k] = 0 \/ (reports[k] = 1 /\ BitsSet(k))

\* Counting a read reports the key only if one of its bits was not set.
LEMMA ReportsNext == ASSUME TypeOK, ReportsInv, [Next]_vars PROVE ReportsInv'
<1>1. ASSUME NEW m \in net, SwitchReadMiss(m) PROVE ReportsInv'
  <2>1. m.key \in Keys
    BY DEF TypeOK, Message
  <2>2. ASSUME NEW k \in Keys, BitsSet(k) PROVE BitsSet(k)'
    <3>1. CASE UNCHANGED bf
      BY <2>2, <3>1 DEF BitsSet, BfIndex
    <3>2. CASE bloom_filter(m.key)
      <4> SUFFICES ASSUME NEW i \in 1..3 PROVE bf'[i][BfIndex(i, k)] = 1
        BY DEF BitsSet, BfIndex
      <4>1. bf'[i] = [bf[i] EXCEPT ![BfIndex(i, m.key)] = 1]
        BY <3>2 DEF bloom_filter
      <4>2. bf[i] \in [0..(HH_BF_NUM - 1) -> 0..1] /\ bf[i][BfIndex(i, k)] = 1
        BY <2>2 DEF TypeOK, BitsSet
      <4>3. BfIndex(i, k) \in 0..(HH_BF_NUM - 1)
        BY IndexInRange
      <4> QED
        BY <4>1, <4>2, <4>3
    <3> QED
      BY <1>1, <3>1, <3>2 DEF SwitchReadMiss
  <2>3. ASSUME Hot(m.key) /\ Unreported(m.key)
        PROVE  reports[m.key] = 0 /\ BitsSet(m.key)'
    <3>1. reports[m.key] = 0
      BY <2>1, <2>3 DEF ReportsInv, BitsSet, Unreported
    <3>2. bloom_filter(m.key)
      BY <1>1, <2>3 DEF SwitchReadMiss
    <3>3. ASSUME NEW i \in 1..3 PROVE bf'[i][BfIndex(i, m.key)] = 1
      <4>1. bf'[i] = [bf[i] EXCEPT ![BfIndex(i, m.key)] = 1]
        BY <3>2 DEF bloom_filter
      <4>2. bf[i] \in [0..(HH_BF_NUM - 1) -> 0..1] /\ BfIndex(i, m.key) \in 0..(HH_BF_NUM - 1)
        BY <2>1, IndexInRange, Zenon DEF TypeOK
      <4> QED
        BY <4>1, <4>2, Zenon
    <3> QED
      BY <3>1, <3>3 DEF BitsSet, BfIndex
  <2>4. CASE Hot(m.key) /\ Unreported(m.key)
    <3>1. reports' = [reports EXCEPT ![m.key] = @ + 1]
      BY <1>1, <2>4 DEF SwitchReadMiss
    <3>2. reports'[m.key] = 1
      BY <2>1, <2>3, <2>4, <3>1 DEF TypeOK
    <3>3. \A k \in Keys \ {m.key} : reports'[k] = reports[k]
      BY <3>1 DEF TypeOK
    <3> QED
      BY <2>2, <2>3, <2>4, <3>2, <3>3 DEF ReportsInv
  <2>5. CASE ~(Hot(m.key) /\ Unreported(m.key))
    <3>1. reports' = [reports EXCEPT ![m.key] = @ + 0]
      BY <1>1, <2>5, Zenon DEF SwitchReadMiss
    <3>2. \A k \in Keys : reports'[k] = reports[k]
      BY <3>1, SMTT(60) DEF TypeOK
    <3> QED
      BY <2>2, <3>2 DEF ReportsInv
  <2> QED
    BY <2>4, <2>5
<1>2. CASE UNCHANGED <<bf, reports>>
  BY <1>2 DEF ReportsInv, BitsSet, BfIndex
<1>3. (\E m \in net : SwitchReadMiss(m)) \/ UNCHANGED <<bf, reports>>
  BY ZenonT(60) DEF Next, vars, ClientSend, ControllerUpdate, ClientReceive, ControllerReceive,
         ServerReceive, Lose, SwitchReadHit, SwitchUpdateReply, SwitchRoute,
         hhRegs, counted
<1> QED
  BY <1>1, <1>2, <1>3

\* bloom_filter and report_hot: whatever the hash functions and however small
\* the filter, no key is reported twice.
THEOREM ReportsHold == Spec => []ReportedOnce
<1>1. Init => ReportsInv
  BY DEF Init, ReportsInv
<1>2. ReportsInv => ReportedOnce
  BY DEF ReportsInv, ReportedOnce
<1> QED
  BY <1>1, <1>2, TypeCorrect, ReportsNext, PTL DEF Spec
=============================================================================

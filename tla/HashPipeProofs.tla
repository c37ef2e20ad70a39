--------------------------- MODULE HashPipeProofs ---------------------------
(***************************************************************************)
(* No source is overcounted, whatever the hash functions, the number of    *)
(* cells and the number of sources, as long as no source is 0.             *)
(*                                                                         *)
(* The invariant needs two more facts than the property: a source is only  *)
(* ever in its own cell of a table, so the two terms of Counted are all    *)
(* there is of it, and an empty cell counts nothing, so that what moves in *)
(* inherits nothing.  The second fails for source 0.                       *)
(***************************************************************************)
EXTENDS HashPipe, TLAPS

Placed(stage, hash) ==
    \A i \in Slots :
        /\ stage[i].valid = 1 => stage[i].key \in Sources /\ hash[stage[i].key] = i
        /\ stage[i].valid = 0 => stage[i].count = 0

IInv ==
    /\ TypeOK
    /\ Placed(stage1, my_hash_1)
    /\ Placed(stage2, my_hash_2)
    /\ NoOvercount

\* Empty tables satisfy the invariant.
LEMMA InitIInv == Init => IInv
PROOF
  BY SourcesAssumption, SMT
  DEF Init, IInv, TypeOK, Cells, Placed, NoOvercount, Counted, In

\* One packet: each table changes in one cell, and for every source the sum of
\* what the two tables hold of it grows by at most the packet it sent.
LEMMA PacketIInv ==
    ASSUME 0 \notin Sources, IInv, NEW key \in Sources, Packet(key)
    PROVE  IInv'
PROOF
<1> DEFINE i == my_hash_1[key]
           carried == Evicted(stage1[i], key)
           j == my_hash_2[carried.key]
<1>1. i \in Slots /\ stage1[i] \in Cells
  BY SourcesAssumption DEF IInv, TypeOK
<1>2. /\ carried.key \in Sources \cup {0}
      /\ carried.count \in Nat
      /\ carried.key = 0 => carried.count = 0
  BY <1>1 DEF IInv, Cells, Evicted, Placed
<1>3. j \in Slots /\ stage2[j] \in Cells
  BY <1>2, SourcesAssumption, Zenon DEF IInv, TypeOK
<1>4. /\ stage1' = [stage1 EXCEPT ![i] = do_stage1(stage1[i], key)]
      /\ stage2' = [stage2 EXCEPT ![j] = do_stage2(stage2[j], carried)]
      /\ sent' = [sent EXCEPT ![key] = sent[key] + 1]
  BY DEF Packet
<1>5. do_stage1(stage1[i], key) \in Cells /\ do_stage2(stage2[j], carried) \in Cells
  <2>1. do_stage1(stage1[i], key) \in Cells
    BY <1>1 DEF do_stage1, Cells
  <2>2. do_stage2(stage2[j], carried) \in Cells
    <3> HIDE DEF j, carried
    <3> QED BY <1>2, <1>3 DEF do_stage2, Cells
  <2> QED BY <2>1, <2>2
<1>6. TypeOK'
  <2> HIDE DEF i, j, carried
  <2>1. stage1' \in [Slots -> Cells]
    BY <1>1, <1>4, <1>5 DEF IInv, TypeOK
  <2>2. stage2' \in [Slots -> Cells]
    BY <1>3, <1>4, <1>5 DEF IInv, TypeOK
  <2>3. sent' \in [Sources -> Nat]
    BY <1>4 DEF IInv, TypeOK
  <2> QED BY <2>1, <2>2, <2>3 DEF TypeOK, Cells
<1>7. Placed(stage1, my_hash_1)'
  BY <1>1, <1>4, SMTT(60) DEF IInv, TypeOK, Placed, do_stage1
<1>8. Placed(stage2, my_hash_2)'
  <2> SUFFICES ASSUME NEW x \in Slots
               PROVE  /\ stage2'[x].valid = 1
                           => stage2'[x].key \in Sources /\ my_hash_2[stage2'[x].key] = x
                      /\ stage2'[x].valid = 0 => stage2'[x].count = 0
    BY DEF Placed
  <2>1. CASE x # j
    <3>1. stage2'[x] = stage2[x]
      BY <1>4, <2>1 DEF IInv, TypeOK
    <3> QED BY <3>1 DEF IInv, Placed
  <2>2. CASE x = j
    <3>1. stage2'[x] = do_stage2(stage2[j], carried)
      BY <1>3, <1>4, <2>2 DEF IInv, TypeOK
    <3>2. /\ stage2[j].valid = 1 => stage2[j].key \in Sources /\ my_hash_2[stage2[j].key] = j
          /\ stage2[j].valid = 0 => stage2[j].count = 0
      BY <1>3 DEF IInv, Placed
    <3>3. my_hash_2[carried.key] = j
      OBVIOUS
    <3> HIDE DEF j, carried
    <3> QED BY <3>1, <3>2, <3>3, <1>2, <1>3, <2>2 DEF do_stage2, Same, Cells
  <2> QED BY <2>1, <2>2
<1>9. NoOvercount'
  <2> SUFFICES ASSUME NEW k \in Sources
               PROVE  Counted(k)' <= sent'[k]
    BY DEF NoOvercount
  <2>0. /\ my_hash_1[k] \in Slots /\ my_hash_2[k] \in Slots
        /\ sent[k] \in Nat
        /\ stage1[my_hash_1[k]] \in Cells /\ stage2[my_hash_2[k]] \in Cells
    BY SourcesAssumption DEF IInv, TypeOK
  <2>1. sent'[k] = IF k = key THEN sent[k] + 1 ELSE sent[k]
    BY <1>4 DEF IInv, TypeOK
  <2>2. PICK a \in Nat : a = In(stage1[my_hash_1[k]], k)
    BY <2>0 DEF In, Cells
  <2>3. PICK b \in Nat : b = In(stage2[my_hash_2[k]], k)
    BY <2>0 DEF In, Cells
  <2>4. a + b <= sent[k]
    BY <2>2, <2>3 DEF IInv, NoOvercount, Counted
  \* What leaves the first table is at most what the carried cell gains.
  <2>5. PICK moved \in Nat : moved = IF carried.key = k THEN carried.count ELSE 0
    BY <1>2
  <2>6. In(stage1'[my_hash_1[k]], k) + moved <= a + (IF k = key THEN 1 ELSE 0)
    <3>1. CASE my_hash_1[k] # i
      <4>1. stage1'[my_hash_1[k]] = stage1[my_hash_1[k]]
        BY <1>4, <2>0, <3>1 DEF IInv, TypeOK
      <4>2. carried.key # k
        BY <1>1, <3>1 DEF Evicted, IInv, Placed, Cells, Same
      <4> QED BY <4>1, <4>2, <2>2, <2>5, <3>1
    <3>2. CASE my_hash_1[k] = i
      <4>1. stage1'[my_hash_1[k]] = do_stage1(stage1[i], key)
        BY <1>1, <1>4, <3>2 DEF IInv, TypeOK
      <4> QED
        BY <4>1, <1>1, <2>2, <2>5, <3>2, SMTT(60)
        DEF do_stage1, In, Evicted, Same, Cells, IInv, Placed
    <3> QED BY <3>1, <3>2
  <2>7. In(stage2'[my_hash_2[k]], k) <= b + moved
    <3>1. CASE my_hash_2[k] # j
      <4>1. stage2'[my_hash_2[k]] = stage2[my_hash_2[k]]
        BY <1>4, <2>0, <3>1 DEF IInv, TypeOK
      <4> HIDE DEF j, carried
      <4> QED BY <4>1, <2>3, <2>5
    <3>2. CASE my_hash_2[k] = j
      <4>1. stage2'[my_hash_2[k]] = do_stage2(stage2[j], carried)
        BY <1>3, <1>4, <3>2 DEF IInv, TypeOK
      <4>2. stage2[j].valid = 0 => stage2[j].count = 0
        BY <1>3 DEF IInv, Placed
      <4> HIDE DEF j, carried
      <4> QED
        BY <4>1, <4>2, <1>2, <1>3, <2>3, <2>5, <3>2
        DEF do_stage2, In, Same, Cells
    <3> QED BY <3>1, <3>2
  <2>8. In(stage1'[my_hash_1[k]], k) \in Nat /\ In(stage2'[my_hash_2[k]], k) \in Nat
    BY <1>6, <2>0 DEF TypeOK, In, Cells
  <2> HIDE DEF i, j, carried
  <2> QED BY <2>0, <2>1, <2>4, <2>6, <2>7, <2>8, SMT DEF Counted
<1> QED BY <1>6, <1>7, <1>8, <1>9 DEF IInv

\* Every source but 0 is credited with at most the packets it sent: do_stage1
\* and do_stage2 move, merge and discard counts, and never invent any.
THEOREM NoOvercountHolds ==
    ASSUME 0 \notin Sources
    PROVE  Spec => []NoOvercount
PROOF
<1>1. IInv /\ [Next]_vars => IInv'
  <2> SUFFICES ASSUME IInv, [Next]_vars PROVE IInv'
    OBVIOUS
  <2>1. CASE Next
    BY <2>1, PacketIInv DEF Next
  <2>2. CASE UNCHANGED vars
    BY <2>2 DEF vars, IInv, TypeOK, Placed, NoOvercount, Counted, In
  <2> QED BY <2>1, <2>2
<1>2. IInv => NoOvercount
  BY DEF IInv
<1> QED BY InitIInv, <1>1, <1>2, PTL DEF Spec

=============================================================================

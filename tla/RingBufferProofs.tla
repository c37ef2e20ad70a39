-------------------------- MODULE RingBufferProofs --------------------------
(***************************************************************************)
(* The ring buffer is a bounded channel, and the two threads never touch   *)
(* the same tuple, for every size of the buffer and of the batches.        *)
(*                                                                         *)
(* Positions are compared by their distance from localReadIndex, the       *)
(* oldest position anybody relies on.  Seen from there the positions of    *)
(* both threads, published or not, are in a fixed order around the ring,   *)
(* the one of ringbuffer.h, and what lies between the two next positions   *)
(* is what has been sent and not delivered.  The order survives the flush, *)
(* which may set readIndex back, because it never sets it back beyond      *)
(* localReadIndex.                                                         *)
(***************************************************************************)
EXTENDS RingBuffer, Integers, TLAPS

D(x) == IF x >= localReadIndex THEN x - localReadIndex ELSE x + RB_SIZE - localReadIndex

Ordered ==
    /\ D(readIndex) <= D(nextReadIndex)
    /\ D(nextReadIndex) <= D(localWriteIndex)
    /\ D(localWriteIndex) <= D(writeIndex)
    /\ D(writeIndex) <= D(nextWriteIndex)

\* What each thread knows from the conditions it has passed.
Views ==
    /\ wpc \in {"copy", "publish"} => D(nextWriteIndex) + 1 < RB_SIZE
    /\ wpc = "refresh" => D(nextWriteIndex) + 1 = RB_SIZE /\ readIndex # localReadIndex
    /\ wpc = "flushStore" => D(flushed) <= D(nextReadIndex)
    /\ rpc = "refresh" => nextReadIndex = localWriteIndex /\ nextReadIndex # writeIndex
    /\ rpc \in {"copy", "advance"} => nextReadIndex # localWriteIndex
    /\ rpc # "publish" => rBatchCount < RB_BATCH

\* The tuples that have left the buffer but whose place is still held.
Taken == IF rpc = "advance" THEN 1 ELSE 0

Balance ==
    /\ Len(sent) + D(nextReadIndex) + Taken = Len(delivered) + D(nextWriteIndex)
    /\ Len(delivered) >= Taken

Stored ==
    \A x \in Slots :
        D(nextReadIndex) <= D(x) /\ D(x) < D(nextWriteIndex)
            => data[x] = sent[Len(delivered) - Taken + D(x) - D(nextReadIndex) + 1]

Copied == wpc = "publish" => data[nextWriteIndex] = out

Contents == Balance /\ Stored /\ Copied

IInv == TypeOK /\ Ordered /\ Views /\ Contents

\* The buffer create_ringbuffer_shm sets up satisfies the invariant.
LEMMA InitIInv == Init => IInv
PROOF
<1> SUFFICES ASSUME Init PROVE IInv
  OBVIOUS
<1>1. RB_SIZE \in Nat /\ RB_SIZE >= 2 /\ 0 \in Slots
  BY RingAssumption DEF Slots
<1>2. TypeOK
  BY <1>1, RingAssumption DEF Init, TypeOK, Tuples
<1>3. Len(sent) = 0 /\ Len(delivered) = 0
  BY DEF Init
<1>4. Ordered /\ Views
  BY <1>1, RingAssumption DEF Init, Ordered, Views, D
<1>5. Contents
  BY <1>1, <1>3 DEF Init, Contents, Balance, Stored, Copied, D, Taken, Slots
<1> QED BY <1>2, <1>4, <1>5 DEF IInv

\* The positions of the type invariant, and how nextVal moves one.
LEMMA Moves ==
    ASSUME IInv, NEW x \in Slots
    PROVE  /\ RB_SIZE \in Nat /\ RB_SIZE >= 2
           /\ D(x) \in 0 .. RB_SIZE - 1
           /\ nextVal(x) \in Slots
           /\ nextVal(x) # localReadIndex => D(nextVal(x)) = D(x) + 1
           /\ nextVal(x) = localReadIndex <=> D(x) = RB_SIZE - 1
           /\ \A y \in Slots : D(x) = D(y) => x = y
PROOF
<1>1. RB_SIZE \in Nat /\ RB_SIZE >= 2
  BY RingAssumption
<1>2. localReadIndex \in Slots
  BY DEF IInv, TypeOK
<1> QED BY <1>1, <1>2, SMT DEF D, nextVal, Slots

\* Every step of either thread keeps the types.
LEMMA TypesKept ==
    ASSUME IInv, [Next]_vars
    PROVE  TypeOK'
PROOF
<1>0. /\ nextVal(nextWriteIndex) \in Slots
      /\ nextVal(nextReadIndex) \in Slots
  BY Moves DEF IInv, TypeOK
<1>1. RB_BATCH \in Nat \ {0}
  BY RingAssumption
<1>2. CASE UNCHANGED vars
  BY <1>2 DEF vars, writer, reader, IInv, TypeOK
<1>3. CASE NextTuple
  BY <1>3 DEF NextTuple, reader, IInv, TypeOK
<1>4. CASE WriteCheck
  BY <1>4 DEF WriteCheck, reader, IInv, TypeOK
<1>5. CASE WriteRefresh
  BY <1>5 DEF WriteRefresh, reader, IInv, TypeOK
<1>6. CASE WriteCopy
  BY <1>6 DEF WriteCopy, reader, IInv, TypeOK
<1>7. CASE WritePublish
  BY <1>7, <1>0, <1>1 DEF WritePublish, reader, IInv, TypeOK
<1>8. CASE FlushWrite
  BY <1>8 DEF FlushWrite, reader, IInv, TypeOK
<1>9. CASE FlushRead
  BY <1>9 DEF FlushRead, reader, IInv, TypeOK
<1>10. CASE FlushStore
  BY <1>10 DEF FlushStore, reader, IInv, TypeOK
<1>11. CASE Wait
  BY <1>11 DEF Wait, reader, IInv, TypeOK
<1>12. CASE ReadCheck
  BY <1>12 DEF ReadCheck, writer, IInv, TypeOK
<1>13. CASE ReadRefresh
  BY <1>13 DEF ReadRefresh, writer, IInv, TypeOK
<1>14. CASE ReadCopy
  BY <1>14 DEF ReadCopy, writer, IInv, TypeOK
<1>15. CASE ReadAdvance
  BY <1>15, <1>0, <1>1 DEF ReadAdvance, writer, IInv, TypeOK, Views
<1>16. CASE ReadPublish
  BY <1>16, <1>1 DEF ReadPublish, writer, IInv, TypeOK
<1>17. CASE Handle
  BY <1>17 DEF Handle, writer, IInv, TypeOK
<1> QED
  BY <1>2, <1>3, <1>4, <1>5, <1>6, <1>7, <1>8, <1>9, <1>10, <1>11, <1>12, <1>13, <1>14,
     <1>15, <1>16, <1>17
  DEF Next, Writer, Reader

\* The steps of the writer keep the order of the positions.
LEMMA WriterOrder ==
    ASSUME IInv, Writer
    PROVE  Ordered' /\ Views'
PROOF
<1>0. RB_SIZE \in Nat /\ RB_SIZE >= 2
  BY RingAssumption
<1>1. /\ readIndex \in Slots /\ writeIndex \in Slots /\ localWriteIndex \in Slots
      /\ nextReadIndex \in Slots /\ localReadIndex \in Slots /\ nextWriteIndex \in Slots
      /\ flushed \in Slots
  BY DEF IInv, TypeOK
<1>2. Ordered /\ Views
  BY DEF IInv
<1>3. CASE NextTuple
  BY <1>2, <1>3 DEF NextTuple, reader, Ordered, Views, D
<1>4. CASE WriteCheck
  BY <1>0, <1>1, <1>2, <1>4 DEF WriteCheck, reader, Ordered, Views, D, nextVal, Slots
<1>5. CASE WriteRefresh
  BY <1>0, <1>1, <1>2, <1>5 DEF WriteRefresh, reader, Ordered, Views, D, Slots
<1>6. CASE WriteCopy
  BY <1>2, <1>6 DEF WriteCopy, reader, Ordered, Views, D
<1>7. CASE WritePublish
  BY <1>0, <1>1, <1>2, <1>7, SMTT(60) DEF WritePublish, reader, Ordered, Views, D, nextVal, Slots
<1>8. CASE FlushWrite
  BY <1>0, <1>1, <1>2, <1>8 DEF FlushWrite, reader, Ordered, Views, D, Slots
<1>9. CASE FlushRead
  BY <1>0, <1>1, <1>2, <1>9 DEF FlushRead, reader, Ordered, Views, D, Slots
<1>10. CASE FlushStore
  BY <1>0, <1>1, <1>2, <1>10 DEF FlushStore, reader, Ordered, Views, D, Slots
<1>11. CASE Wait
  BY <1>2, <1>11 DEF Wait, reader, Ordered, Views, D
<1> QED BY <1>3, <1>4, <1>5, <1>6, <1>7, <1>8, <1>9, <1>10, <1>11 DEF Writer

\* So do the steps of the reader.
LEMMA ReaderOrder ==
    ASSUME IInv, Reader
    PROVE  Ordered' /\ Views'
PROOF
<1>0. RB_SIZE \in Nat /\ RB_SIZE >= 2 /\ RB_BATCH \in Nat \ {0} /\ rBatchCount \in Nat
  BY RingAssumption DEF IInv, TypeOK
<1>1. /\ readIndex \in Slots /\ writeIndex \in Slots /\ localWriteIndex \in Slots
      /\ nextReadIndex \in Slots /\ localReadIndex \in Slots /\ nextWriteIndex \in Slots
      /\ flushed \in Slots
  BY DEF IInv, TypeOK
<1>2. Ordered /\ Views
  BY DEF IInv
<1>3. CASE ReadCheck
  BY <1>0, <1>1, <1>2, <1>3 DEF ReadCheck, writer, Ordered, Views, D
<1>4. CASE ReadRefresh
  BY <1>0, <1>1, <1>2, <1>4 DEF ReadRefresh, writer, Ordered, Views, D, Slots
<1>5. CASE ReadCopy
  BY <1>0, <1>1, <1>2, <1>5 DEF ReadCopy, writer, Ordered, Views, D
<1>6. CASE ReadAdvance
  BY <1>0, <1>1, <1>2, <1>6 DEF ReadAdvance, writer, Ordered, Views, D, nextVal, Slots
<1>7. CASE ReadPublish
  BY <1>0, <1>1, <1>2, <1>7 DEF ReadPublish, writer, Ordered, Views, D, Slots
<1>8. CASE Handle
  BY <1>0, <1>1, <1>2, <1>8 DEF Handle, writer, Ordered, Views, D
<1> QED BY <1>3, <1>4, <1>5, <1>6, <1>7, <1>8 DEF Reader

\* The tuples between the two next positions are those sent and not delivered.
LEMMA ContentsKept ==
    ASSUME IInv, [Next]_vars
    PROVE  Contents'
PROOF
<1>0. RB_SIZE \in Nat /\ RB_SIZE >= 2
  BY RingAssumption
<1>1. /\ readIndex \in Slots /\ nextReadIndex \in Slots /\ localReadIndex \in Slots
      /\ nextWriteIndex \in Slots /\ writeIndex \in Slots /\ localWriteIndex \in Slots
      /\ data \in [Slots -> Tuples] /\ out \in Tuples
  BY DEF IInv, TypeOK
<1>2. /\ sent \in Seq(Tuples) /\ delivered \in Seq(Tuples)
      /\ Len(sent) \in Nat /\ Len(delivered) \in Nat
  BY DEF IInv, TypeOK
<1>3. Ordered /\ Views /\ Contents
  BY DEF IInv
<1>balance. /\ Taken \in Int
            /\ Len(sent) + D(nextReadIndex) + Taken = Len(delivered) + D(nextWriteIndex)
            /\ Len(delivered) >= Taken
  BY <1>3 DEF Contents, Balance, Taken
<1>names. PICK a \in Int, d \in Int, t \in Int, r \in Int, w \in Int :
             /\ a = Len(sent) /\ d = Len(delivered) /\ t = Taken
             /\ r = D(nextReadIndex) /\ w = D(nextWriteIndex)
  <2>1. Len(sent) \in Int /\ Len(delivered) \in Int /\ Taken \in Int
    BY <1>2, <1>balance
  <2>2. D(nextReadIndex) \in Int /\ D(nextWriteIndex) \in Int
    BY <1>0, <1>1 DEF D, Slots
  <2> QED BY <2>1, <2>2, Zenon
<1>sum. a + r + t = d + w /\ d >= t
  BY <1>balance, <1>names, Zenon
<1>4. ASSUME UNCHANGED <<sent, delivered, data, nextReadIndex, nextWriteIndex, localReadIndex, out>>,
             Taken' = Taken, wpc' # "publish" \/ wpc' = wpc
      PROVE  Contents'
  BY <1>3, <1>4 DEF Contents, Balance, Stored, Copied, D
<1>5. CASE \/ UNCHANGED vars \/ WriteCheck \/ FlushWrite \/ FlushRead \/ FlushStore \/ Wait
           \/ ReadCheck \/ ReadRefresh \/ ReadPublish \/ Handle
  <2>1. UNCHANGED <<sent, delivered, data, nextReadIndex, nextWriteIndex, localReadIndex, out>>
    BY <1>5 DEF vars, WriteCheck, FlushWrite, FlushRead, FlushStore, Wait, ReadCheck, ReadRefresh,
                ReadPublish, Handle, reader, writer
  <2>2. Taken' = Taken
    BY <1>5 DEF vars, WriteCheck, FlushWrite, FlushRead, FlushStore, Wait, ReadCheck, ReadRefresh,
                ReadPublish, Handle, reader, writer, Taken
  <2>3. wpc' # "publish" \/ wpc' = wpc
    BY <1>5 DEF vars, WriteCheck, FlushWrite, FlushRead, FlushStore, Wait, ReadCheck, ReadRefresh,
                ReadPublish, Handle, reader, writer
  <2> QED BY <2>1, <2>2, <2>3, <1>4
<1>6. CASE NextTuple
  BY <1>3, <1>6 DEF NextTuple, reader, Contents, Balance, Stored, Copied, D, Taken
<1>7. CASE WriteRefresh
  <2>1. UNCHANGED <<sent, delivered, data, nextReadIndex, nextWriteIndex, out>> /\ Taken' = Taken
    BY <1>7 DEF WriteRefresh, reader, Taken
  <2>2. localReadIndex' = readIndex /\ wpc' # "publish"
    BY <1>7 DEF WriteRefresh
  <2>3. /\ D(nextReadIndex)' = D(nextReadIndex) - D(readIndex)
        /\ D(nextWriteIndex)' = D(nextWriteIndex) - D(readIndex)
    BY <1>0, <1>1, <1>3, <2>1, <2>2 DEF Ordered, D, Slots
  <2>4. \A x \in Slots :
           D(nextReadIndex)' <= D(x)' /\ D(x)' < D(nextWriteIndex)'
               => D(x)' = D(x) - D(readIndex)
    BY <1>0, <1>1, <1>3, <2>1, <2>2 DEF Ordered, D, Slots
  <2>5. D(readIndex) \in Int /\ D(nextReadIndex) \in Int /\ D(nextWriteIndex) \in Int
        /\ \A x \in Slots : D(x) \in Int
    BY <1>0, <1>1 DEF D, Slots
  <2>6. \A x \in Slots :
           D(nextReadIndex)' <= D(x)' /\ D(x)' < D(nextWriteIndex)'
               => data'[x] = sent'[Len(delivered') - Taken' + D(x)' - D(nextReadIndex)' + 1]
    <3> SUFFICES ASSUME NEW x \in Slots, D(nextReadIndex)' <= D(x)', D(x)' < D(nextWriteIndex)'
                 PROVE  data[x] = sent[Len(delivered) - Taken + D(x)' - D(nextReadIndex)' + 1]
      BY <2>1
    <3>1. D(x)' = D(x) - D(readIndex)
      BY <2>4
    <3>2. D(nextReadIndex) <= D(x) /\ D(x) < D(nextWriteIndex)
      BY <3>1, <2>3, <2>5
    <3>3. Len(delivered) - Taken + D(x)' - D(nextReadIndex)'
             = Len(delivered) - Taken + D(x) - D(nextReadIndex)
      BY <3>1, <2>3, <2>5, <1>2 DEF Taken
    <3> QED BY <3>2, <3>3, <1>3 DEF Contents, Stored
  <2>7. Balance'
    <3>1. PICK k \in Int : k = D(readIndex)
      BY <2>5
    <3>2. a + (r - k) + t = d + (w - k)
      BY <1>sum, SMT
    <3> QED BY <1>names, <1>sum, <2>1, <2>3, <3>1, <3>2, Zenon DEF Balance
  <2>8. Stored' /\ Copied'
    BY <2>2, <2>6 DEF Stored, Copied
  <2> QED BY <2>7, <2>8 DEF Contents
<1>8. CASE WriteCopy
  <2>1. /\ UNCHANGED <<sent, delivered, nextReadIndex, nextWriteIndex, localReadIndex, out>>
        /\ Taken' = Taken
        /\ data' = [data EXCEPT ![nextWriteIndex] = out]
    BY <1>8 DEF WriteCopy, reader, Taken
  <2>2. data'[nextWriteIndex] = out
    BY <1>1, <2>1
  <2>3. \A x \in Slots : D(x) < D(nextWriteIndex) => data'[x] = data[x]
    BY <1>0, <1>1, <2>1 DEF D, Slots
  <2> QED BY <1>3, <2>1, <2>2, <2>3 DEF Contents, Balance, Stored, Copied, D
<1>9. CASE WritePublish
  <2>1. /\ UNCHANGED <<delivered, data, nextReadIndex, localReadIndex>> /\ Taken' = Taken
        /\ sent' = Append(sent, out) /\ nextWriteIndex' = nextVal(nextWriteIndex)
        /\ wpc = "publish" /\ wpc' # "publish"
    BY <1>9 DEF WritePublish, reader, Taken
  <2>2. /\ Len(sent') = Len(sent) + 1
        /\ sent'[Len(sent) + 1] = out
        /\ \A i \in 1 .. Len(sent) : sent'[i] = sent[i]
    BY <1>1, <1>2, <2>1
  <2>3. /\ D(nextWriteIndex)' = D(nextWriteIndex) + 1
        /\ D(nextReadIndex)' = D(nextReadIndex)
        /\ \A x \in Slots : D(x)' = D(x)
    BY <1>0, <1>1, <1>3, <2>1 DEF Views, D, nextVal, Slots
  <2>4. /\ D(nextReadIndex) \in Int /\ D(nextWriteIndex) \in Int
        /\ \A x \in Slots : D(x) \in Int /\ (D(x) = D(nextWriteIndex) => x = nextWriteIndex)
    BY <1>0, <1>1 DEF D, Slots
  <2>5. \A x \in Slots :
           D(nextReadIndex) <= D(x) /\ D(x) < D(nextWriteIndex) + 1
               => data[x] = sent'[Len(delivered) - Taken + D(x) - D(nextReadIndex) + 1]
    <3> SUFFICES ASSUME NEW x \in Slots, D(nextReadIndex) <= D(x), D(x) < D(nextWriteIndex) + 1
                 PROVE  data[x] = sent'[Len(delivered) - Taken + D(x) - D(nextReadIndex) + 1]
      OBVIOUS
    <3>0. PICK p \in Int : p = Len(delivered) - Taken + D(x) - D(nextReadIndex) + 1
      BY <1>2, <2>4, SMTT(60) DEF Taken
    <3>1. CASE D(x) < D(nextWriteIndex)
      <4>1. data[x] = sent[p]
        BY <1>3, <3>0, <3>1 DEF Contents, Stored
      <4>2. p \in 1 .. Len(sent)
        <5>1. PICK y \in Int : y = D(x)
          BY <2>4
        <5>2. r <= y /\ y < w /\ p = d - t + y - r + 1
          BY <1>names, <3>0, <3>1, <5>1, Zenon
        <5>3. p \in 1 .. a
          BY <1>sum, <5>2, SMT
        <5> QED BY <1>names, <5>3, Zenon
      <4> QED BY <4>1, <4>2, <2>2, <3>0
    <3>2. CASE D(x) = D(nextWriteIndex)
      <4>1. p = Len(sent) + 1
        <5>1. p = d - t + w - r + 1
          BY <1>names, <3>0, <3>2, Zenon
        <5>2. p = a + 1
          BY <1>sum, <5>1, SMT
        <5> QED BY <1>names, <5>2, Zenon
      <4>2. data[x] = out
        BY <1>3, <2>1, <2>4, <3>2 DEF Contents, Copied
      <4> QED BY <4>1, <4>2, <2>2, <3>0
    <3> QED BY <3>1, <3>2, <2>4
  <2>6. Balance'
    <3>1. (a + 1) + r + t = d + (w + 1)
      BY <1>sum, SMT
    <3> QED BY <1>names, <1>sum, <2>1, <2>2, <2>3, <3>1, Zenon DEF Balance
  <2>7. Stored'
    BY <2>1, <2>3, <2>5, Zenon DEF Stored
  <2> QED BY <2>1, <2>6, <2>7 DEF Contents, Copied
<1>10. CASE ReadCopy
  <2>1. /\ UNCHANGED <<sent, data, nextReadIndex, nextWriteIndex, localReadIndex, out, wpc>>
        /\ Taken = 0 /\ Taken' = 1
        /\ delivered' = Append(delivered, data[nextReadIndex])
    BY <1>10 DEF ReadCopy, writer, Taken
  <2>2. Len(delivered') = Len(delivered) + 1
    BY <1>1, <1>2, <2>1
  <2>3. \A x \in Slots : D(x)' = D(x) /\ D(x) \in Int
    BY <1>0, <1>1, <2>1 DEF D, Slots
  <2>4. Len(delivered') - Taken' = Len(delivered) - Taken
    BY <1>2, <2>1, <2>2
  <2>5. Balance'
    BY <1>1, <1>2, <1>balance, <2>1, <2>2, <2>3, SMTT(60) DEF Balance
  <2>6. Stored' /\ Copied'
    BY <1>1, <1>3, <2>1, <2>3, <2>4, SMTT(60) DEF Contents, Stored, Copied
  <2> QED BY <2>5, <2>6 DEF Contents
<1>11. CASE ReadAdvance
  <2>1. /\ UNCHANGED <<sent, data, delivered, nextWriteIndex, localReadIndex, out, wpc>>
        /\ Taken = 1 /\ Taken' = 0
        /\ nextReadIndex' = nextVal(nextReadIndex)
        /\ rpc = "advance"
    BY <1>11 DEF ReadAdvance, writer, Taken
  <2>2. D(nextReadIndex)' = D(nextReadIndex) + 1
    BY <1>0, <1>1, <1>3, <2>1, SMTT(60) DEF Ordered, Views, D, nextVal, Slots
  <2>3. D(nextReadIndex) \in Int /\ \A x \in Slots : D(x)' = D(x) /\ D(x) \in Int
    BY <1>0, <1>1, <2>1 DEF D, Slots
  <2>4. D(nextWriteIndex)' = D(nextWriteIndex) /\ D(nextWriteIndex) \in Int
    BY <1>1, <2>1, <2>3
  <2>5. Balance'
    BY <1>2, <1>balance, <2>1, <2>2, <2>3, <2>4 DEF Balance
  <2>6. ASSUME NEW x \in Slots, D(nextReadIndex) + 1 <= D(x), D(x) < D(nextWriteIndex)
        PROVE  data[x] = sent[Len(delivered) - 0 + D(x) - (D(nextReadIndex) + 1) + 1]
    <3>1. data[x] = sent[Len(delivered) - 1 + D(x) - D(nextReadIndex) + 1]
      BY <1>3, <2>1, <2>3, <2>6 DEF Contents, Stored
    <3>2. Len(delivered) - 0 + D(x) - (D(nextReadIndex) + 1) + 1
             = Len(delivered) - 1 + D(x) - D(nextReadIndex) + 1
      BY <1>2, <2>3, SMTT(60)
    <3> QED BY <3>1, <3>2
  <2>7. Stored'
    BY <2>1, <2>2, <2>3, <2>4, <2>6 DEF Stored
  <2> QED BY <1>3, <2>1, <2>5, <2>7 DEF Contents, Copied
<1> QED
  BY <1>5, <1>6, <1>7, <1>8, <1>9, <1>10, <1>11 DEF Next, Writer, Reader

\* Every step of either thread keeps the invariant.
LEMMA NextIInv == IInv /\ [Next]_vars => IInv'
PROOF
<1> SUFFICES ASSUME IInv, [Next]_vars PROVE IInv'
  OBVIOUS
<1>1. TypeOK' /\ Contents'
  BY TypesKept, ContentsKept
<1>2. Ordered' /\ Views'
  <2>1. CASE UNCHANGED vars
    BY <2>1 DEF vars, writer, reader, IInv, Ordered, Views, D
  <2>2. CASE Writer \/ Reader
    BY <2>2, WriterOrder, ReaderOrder
  <2> QED BY <2>1, <2>2 DEF Next
<1> QED BY <1>1, <1>2 DEF IInv

\* The two threads never copy into and out of the same place at the same time
\* (the two memcpy calls of write_ringbuffer and read_ringbuffer).
THEOREM NoOverlapHolds == Spec => []NoOverlap
PROOF
<1>1. IInv => NoOverlap
  <2> SUFFICES ASSUME IInv, wpc = "copy", rpc = "copy", nextWriteIndex = nextReadIndex
               PROVE  FALSE
    BY DEF NoOverlap
  <2>1. /\ nextReadIndex \in Slots /\ localWriteIndex \in Slots /\ localReadIndex \in Slots
        /\ writeIndex \in Slots
    BY DEF IInv, TypeOK
  <2>2. RB_SIZE \in Nat
    BY RingAssumption
  <2> QED BY <2>1, <2>2 DEF IInv, Ordered, Views, D, Slots
<1> QED BY InitIInv, NextIInv, <1>1, PTL DEF Spec

\* Every step of the ring buffer is a step of a channel of RB_SIZE - 1 tuples or
\* leaves the channel alone.
THEOREM RingImplementsChannel == Spec => Implements
PROOF
<1>1. Init => Queue!Init
  BY DEF Init, Queue!Init
<1>2. IInv /\ [Next]_vars => [Queue!Next]_<<sent, delivered>>
  <2> SUFFICES ASSUME IInv, [Next]_vars PROVE [Queue!Next]_<<sent, delivered>>
    OBVIOUS
  <2>0. RB_SIZE \in Nat /\ RB_SIZE >= 2
    BY RingAssumption
  <2>1. /\ nextReadIndex \in Slots /\ nextWriteIndex \in Slots /\ localReadIndex \in Slots
        /\ localWriteIndex \in Slots /\ writeIndex \in Slots
        /\ out \in Tuples /\ Len(sent) \in Nat /\ Len(delivered) \in Nat
    BY DEF IInv, TypeOK
  <2>2. /\ D(nextReadIndex) \in 0 .. RB_SIZE - 1 /\ D(nextWriteIndex) \in 0 .. RB_SIZE - 1
        /\ Len(sent) + D(nextReadIndex) + Taken = Len(delivered) + D(nextWriteIndex)
    BY <2>0, <2>1 DEF IInv, Contents, Balance, D, Slots
  <2>3. CASE WritePublish
    <3>1. sent' = Append(sent, out) /\ UNCHANGED delivered
      BY <2>3 DEF WritePublish, reader
    <3>2. D(nextWriteIndex) + 1 < RB_SIZE
      BY <2>3 DEF WritePublish, IInv, Views
    <3>3. Len(sent) - Len(delivered) < RB_SIZE - 1
      BY <2>0, <2>1, <2>2, <3>2, SMTT(60) DEF Taken
    <3> QED BY <2>1, <3>1, <3>3 DEF Queue!Next, Queue!Put
  <2>4. CASE ReadCopy
    <3>1. /\ delivered' = Append(delivered, data[nextReadIndex]) /\ UNCHANGED sent
          /\ rpc = "copy"
      BY <2>4 DEF ReadCopy, writer
    <3>2. D(nextReadIndex) < D(nextWriteIndex)
      BY <2>0, <2>1, <3>1 DEF IInv, Ordered, Views, D, Slots
    <3>3. Taken = 0
      BY <3>1 DEF Taken
    <3>4. data[nextReadIndex]
             = sent[Len(delivered) - 0 + D(nextReadIndex) - D(nextReadIndex) + 1]
      BY <2>1, <2>2, <3>2, <3>3, SMTT(60) DEF IInv, Contents, Stored
    <3>5. Len(delivered) - 0 + D(nextReadIndex) - D(nextReadIndex) + 1 = Len(delivered) + 1
      BY <2>1, <2>2
    <3>6. Len(delivered) < Len(sent)
      BY <2>1, <2>2, <3>2, <3>3
    <3> QED BY <3>1, <3>4, <3>5, <3>6 DEF Queue!Next, Queue!Get
  <2>5. CASE ~WritePublish /\ ~ReadCopy
    <3>1. UNCHANGED <<sent, delivered>>
      BY <2>5 DEF Next, Writer, Reader, vars, reader, writer, NextTuple, WriteCheck,
                  WriteRefresh, WriteCopy, FlushWrite, FlushRead, FlushStore, Wait, ReadCheck,
                  ReadRefresh, ReadAdvance, ReadPublish, Handle
    <3> QED BY <3>1
  <2> QED BY <2>3, <2>4, <2>5
<1> QED BY InitIInv, NextIInv, <1>1, <1>2, PTL DEF Spec, Implements, Queue!Spec

=============================================================================

----------------------- MODULE SharedRingBuffer_proofs -----------------------
(***************************************************************************)
(* Proofs about SharedRingBuffer for every capacity, block and window      *)
(* size, and any number of retries.                                        *)
(***************************************************************************)
EXTENDS SharedRingBuffer, TLAPS

(* An index lands in one of the ring's slots (SharedRingBuffer.h:28, 130). *)
LEMMA SlotInRange ==
  ASSUME NEW a \in Int
  PROVE  Slot(a) \in 0 .. Capacity - 1
BY RingAssumption DEF Slot

(* Two indices less than a ring apart land in different slots, which is why *)
(* the last Capacity samples are all in the ring (SharedRingBuffer.h:22).   *)
LEMMA SlotDistinct ==
  ASSUME NEW a \in Int, NEW b \in Int, a < b, b < a + Capacity
  PROVE  Slot(a) # Slot(b)
<1>1. /\ a = Capacity * (a \div Capacity) + (a % Capacity)
      /\ b = Capacity * (b \div Capacity) + (b % Capacity)
      /\ a \div Capacity \in Int /\ b \div Capacity \in Int
  BY RingAssumption
<1> DEFINE p == a \div Capacity
           q == b \div Capacity
<1>2. SUFFICES ASSUME a % Capacity = b % Capacity PROVE FALSE
  BY DEF Slot
<1> HIDE DEF p, q
<1>3. /\ b - a = Capacity * (q - p)
      /\ p \in Int /\ q \in Int
  <2>1. /\ a = Capacity * p + (a % Capacity)
        /\ b = Capacity * q + (b % Capacity)
        /\ p \in Int /\ q \in Int
    BY <1>1 DEF p, q
  <2>2. a % Capacity \in Int
    BY RingAssumption
  <2> QED BY <2>1, <2>2, <1>2, RingAssumption
<1>4. CASE q - p <= 0
  BY <1>3, <1>4, RingAssumption
<1>5. CASE q - p >= 1
  BY <1>3, <1>5, RingAssumption
<1> QED BY <1>3, <1>4, <1>5

(* The clamp of n, and of the samples to read, is one of its two operands.  *)
LEMMA LesserType ==
  ASSUME NEW a \in Int, NEW b \in Int
  PROVE  /\ Lesser(a, b) \in {a, b}
         /\ Lesser(a, b) <= a
         /\ Lesser(a, b) <= b
BY DEF Lesser

(* The window readLastN copies lies inside what was published, and inside   *)
(* dest.                                                                    *)
LEMMA WindowType ==
  ASSUME TypeOK
  PROVE  /\ ToRead \in Nat /\ Start \in Nat /\ Pad \in Nat
         /\ ToRead <= sN /\ ToRead <= sBefore
         /\ Start + ToRead = sBefore /\ Pad + ToRead = sN
         /\ Frontier \in Nat /\ writeCount <= Frontier
BY RingAssumption DEF TypeOK, ToRead, Start, Pad, Lesser, Frontier

-----------------------------------------------------------------------------
(* The writer moves the frontier on; what the readers hold stays as good as *)
(* SnapshotInv, RetryInv and ReadInv say.                                   *)
LEMMA WriterKeepsSnapshot ==
  ASSUME IInv, UNCHANGED snapVars, NEW w \in Nat, NEW p \in Nat,
         writeCount' = w, wPos' = p, w >= writeCount, w + p >= Frontier
  PROVE  SnapshotInv' /\ RetryInv'
<1> USE DEF snapVars
<1>1. ToRead' = ToRead /\ Start' = Start /\ Pad' = Pad
  BY DEF ToRead, Start, Pad, Lesser
<1>2. /\ ToRead \in Nat /\ Start \in Nat /\ Pad \in Nat /\ Frontier \in Nat
      /\ ToRead + Pad = sN
  BY WindowType DEF IInv
<1>3. Frontier' = w + p
  BY DEF Frontier
<1>4. sI \in Nat /\ sN \in Nat /\ sOverlap \in Nat
  BY <1>2, RingAssumption DEF IInv, TypeOK
<1>5. SnapshotInv'
  <2>1. SnapshotTornOnlyByOverlap'
    BY <1>1 DEF IInv, SnapshotInv, SnapshotTornOnlyByOverlap
  <2>2. ASSUME sPc = "copy", NEW k \in 0 .. sI - 1
        PROVE  /\ sDest[Pad + k] >= Start + k
               /\ w + p <= Start + k + Capacity => sDest[Pad + k] = Start + k
    BY <2>2, <1>2, <1>4, RingAssumption DEF IInv, SnapshotInv
  <2> QED
    BY <1>1, <1>3, <2>1, <2>2 DEF IInv, SnapshotInv
<1>6. RetryInv'
  <2> DEFINE m == sAttempt * (Capacity - sN + 1)
             g == MaxRetries * (Capacity - sN + 1)
  <2>1. m \in Int /\ g \in Int /\ sFirst \in Nat /\ writeCount \in Nat
    BY RingAssumption DEF IInv, TypeOK
  <2>2. /\ sPc = "load" => m <= writeCount - sFirst
        /\ sPc = "gaveUp" => g <= writeCount - sFirst
    BY <2>1 DEF IInv, RetryInv, GaveUpOnlyWhenLapped
  <2>3. /\ sPc = "load" => m <= w - sFirst
        /\ sPc = "gaveUp" => w - sFirst >= g
    <3> HIDE DEF m, g
    <3> QED BY <2>1, <2>2
  <2> QED
    BY <2>3 DEF RetryInv, GaveUpOnlyWhenLapped, IInv
<1> QED BY <1>5, <1>6

(* The same for a reader with a cursor.                                     *)
LEMMA WriterKeepsRead ==
  ASSUME IInv, UNCHANGED cursorVars, NEW w \in Nat, NEW p \in Nat,
         writeCount' = w, wPos' = p, w + p >= Frontier
  PROVE  ReadInv'
<1>1. Frontier \in Nat /\ writeCount <= Frontier
  BY WindowType DEF IInv
<1>2. Frontier' = w + p
  BY DEF Frontier
<1>3. cBefore \in Nat /\ cursor \in Nat /\ cToRead \in Nat /\ cI \in Nat
      /\ cBefore <= Frontier
  BY <1>1 DEF IInv, TypeOK
<1>4. /\ cursor' = cursor /\ cBefore' = cBefore /\ cToRead' = cToRead
      /\ cPc' = cPc /\ cI' = cI /\ cDest' = cDest
  BY DEF cursorVars
<1>5. ASSUME cPc = "returned", NEW k \in 1 .. cToRead
      PROVE  LET a == (cursor - cToRead) + (k - 1)
             IN  /\ cDest[k] >= a
                 /\ w + p <= a + Capacity \/ w + p = cBefore => cDest[k] = a
  <2> DEFINE a == (cursor - cToRead) + (k - 1)
  <2>1. cDest[k] >= a
    BY <1>5 DEF IInv, ReadInv, CursorRunIntact
  <2>2. Frontier <= a + Capacity \/ Frontier = cBefore => cDest[k] = a
    BY <1>5 DEF IInv, ReadInv, CursorRunIntact
  <2>3. a \in Int
    BY <1>3
  <2> HIDE DEF a
  <2>4. w + p <= a + Capacity \/ w + p = cBefore => cDest[k] = a
    BY <1>1, <1>3, <2>2, <2>3, RingAssumption
  <2> QED BY <2>1, <2>4 DEF a
<1>6. ASSUME cPc = "copy", NEW k \in 1 .. cI
      PROVE  LET a == cursor + (k - 1)
             IN  /\ cDest[k] >= a
                 /\ w + p <= a + Capacity => cDest[k] = a
  <2>1. /\ cDest[k] >= cursor + (k - 1)
        /\ Frontier <= cursor + (k - 1) + Capacity
             => cDest[k] = cursor + (k - 1)
    BY <1>6 DEF IInv, ReadInv
  <2> QED BY <1>1, <1>3, <2>1, RingAssumption
<1>7. CursorRunIntact'
  BY <1>2, <1>4, <1>5 DEF CursorRunIntact
<1> QED
  BY <1>2, <1>4, <1>6, <1>7 DEF IInv, ReadInv

(* readLastN touches neither the ring nor the cursor.                       *)
LEMMA SnapshotKeepsRest ==
  ASSUME IInv, UNCHANGED writerVars, UNCHANGED cursorVars
  PROVE  StoredInv' /\ ReadInv'
BY DEF writerVars, cursorVars, IInv, StoredInv, ReadInv, CursorRunIntact,
       Frontier

(* read() touches neither the ring nor the snapshot.                        *)
LEMMA ReadKeepsRest ==
  ASSUME IInv, UNCHANGED writerVars, UNCHANGED snapVars
  PROVE  StoredInv' /\ SnapshotInv' /\ RetryInv'
<1>1. StoredInv' /\ SnapshotInv'
  BY DEF writerVars, snapVars, IInv, StoredInv, SnapshotInv,
         SnapshotTornOnlyByOverlap, Frontier, ToRead, Start, Pad, Lesser
<1>2. RetryInv'
  BY DEF writerVars, snapVars, IInv, RetryInv, GaveUpOnlyWhenLapped
<1> QED BY <1>1, <1>2


-----------------------------------------------------------------------------
(* The inductive invariant holds initially.                                 *)
LEMMA InitIInv == Init => IInv
<1> SUFFICES ASSUME Init PROVE IInv
  OBVIOUS
<1> USE RingAssumption DEF Init
<1>1. ToRead = 0 /\ Start = 0 /\ Pad = 0 /\ Frontier = 0
  BY DEF ToRead, Start, Pad, Lesser, Frontier
<1>2. TypeOK
  BY <1>1 DEF TypeOK, Samples
<1>3. StoredInv
  BY <1>1 DEF StoredInv
<1>4. SnapshotInv /\ RetryInv
  BY DEF SnapshotInv, SnapshotTornOnlyByOverlap, RetryInv,
         GaveUpOnlyWhenLapped
<1>5. ReadInv
  BY DEF ReadInv, CursorRunIntact
<1> QED BY <1>2, <1>3, <1>4, <1>5 DEF IInv

(* The writer's steps: only StoreSample touches a slot, and it gives the    *)
(* slot to the newest sample.                                               *)
LEMMA WriterStep == IInv /\ Writer => IInv'
<1> SUFFICES ASSUME IInv, Writer PROVE IInv'
  OBVIOUS
<1> USE RingAssumption
<1>0. /\ TypeOK
      /\ writeCount \in Nat /\ wLen \in Nat /\ wPos \in Nat /\ wPos <= wLen
      /\ Frontier \in Nat /\ Frontier = writeCount + wPos
  BY WindowType DEF IInv, TypeOK, Frontier
<1>1. CASE BeginWrite
  <2>1. PICK n \in 1 .. MaxBlock : wLen' = n
    BY <1>1 DEF BeginWrite
  <2>2. /\ wLen = 0 /\ wPos = 0 /\ writeCount' = writeCount /\ wPos' = 0
        /\ buffer' = buffer /\ UNCHANGED snapVars /\ UNCHANGED cursorVars
    BY <1>0, <1>1 DEF BeginWrite
  <2>3. TypeOK'
    BY <2>1, <2>2, <1>0 DEF TypeOK, snapVars, cursorVars, ToRead, Lesser
  <2>4. StoredInv'
    BY <2>2, <1>0 DEF IInv, StoredInv, Frontier
  <2>5. SnapshotInv' /\ RetryInv' /\ ReadInv'
    BY <2>2, <1>0, WriterKeepsSnapshot, WriterKeepsRead
  <2> QED BY <2>3, <2>4, <2>5 DEF IInv
<1>2. CASE StoreSample
  <2>1. /\ wPos < wLen /\ wPos' = wPos + 1 /\ writeCount' = writeCount
        /\ wLen' = wLen /\ UNCHANGED snapVars /\ UNCHANGED cursorVars
        /\ buffer' = [buffer EXCEPT ![Slot(Frontier)] = Frontier]
    BY <1>2 DEF StoreSample, MoreToStore
  <2>2. Slot(Frontier) \in 0 .. Capacity - 1
    BY SlotInRange, <1>0
  <2>3. TypeOK'
    BY <2>1, <2>2, <1>0 DEF TypeOK, snapVars, cursorVars, ToRead, Lesser, Samples
  <2>4. StoredInv'
    <3> SUFFICES ASSUME NEW a \in 0 .. Frontier
                 PROVE  /\ buffer'[Slot(a)] >= a
                        /\ Frontier + 1 <= a + Capacity => buffer'[Slot(a)] = a
      BY <2>1, <1>0 DEF StoredInv, Frontier
    <3>1. Slot(a) \in 0 .. Capacity - 1
      BY SlotInRange
    <3>2. /\ Slot(a) = Slot(Frontier) => buffer'[Slot(a)] = Frontier
          /\ Slot(a) # Slot(Frontier) => buffer'[Slot(a)] = buffer[Slot(a)]
      BY <2>1, <2>2, <3>1, <1>0 DEF TypeOK
    <3>3. CASE a = Frontier
      BY <3>2, <3>3, <1>0
    <3>4. CASE a < Frontier
      <4>1. /\ buffer[Slot(a)] >= a
            /\ Frontier <= a + Capacity => buffer[Slot(a)] = a
        BY <3>4, <1>0 DEF IInv, StoredInv
      <4>2. Frontier + 1 <= a + Capacity => Slot(a) # Slot(Frontier)
        BY SlotDistinct, <3>4, <1>0
      <4> QED BY <4>1, <4>2, <3>2, <3>4, <1>0
    <3> QED BY <3>3, <3>4, <1>0
  <2>5. SnapshotInv' /\ RetryInv' /\ ReadInv'
    BY <2>1, <1>0, WriterKeepsSnapshot, WriterKeepsRead
  <2> QED BY <2>3, <2>4, <2>5 DEF IInv
<1>3. CASE Publish
  <2>1. /\ wPos = wLen /\ wPos' = 0 /\ writeCount' = writeCount + wPos
        /\ wLen' = 0 /\ buffer' = buffer
        /\ UNCHANGED snapVars /\ UNCHANGED cursorVars
    BY <1>3 DEF Publish
  <2>2. TypeOK'
    BY <2>1, <1>0 DEF TypeOK, snapVars, cursorVars, ToRead, Lesser
  <2>3. StoredInv'
    BY <2>1, <1>0 DEF IInv, StoredInv, Frontier
  <2>4. SnapshotInv' /\ RetryInv' /\ ReadInv'
    BY <2>1, <1>0, WriterKeepsSnapshot, WriterKeepsRead
  <2> QED BY <2>2, <2>3, <2>4 DEF IInv
<1> QED BY <1>1, <1>2, <1>3 DEF Writer


(* readLastN's steps.                                                       *)
LEMMA SnapshotStep == IInv /\ (CallReadLastN \/ Snapshot) => IInv'
<1> SUFFICES ASSUME IInv, CallReadLastN \/ Snapshot PROVE IInv'
  OBVIOUS
<1> USE RingAssumption
<1>0. /\ TypeOK
      /\ writeCount \in Nat /\ wPos \in Nat /\ wPos <= wLen /\ wLen <= MaxBlock
      /\ Frontier \in Nat /\ Frontier = writeCount + wPos
      /\ ToRead \in Nat /\ Start \in Nat /\ Pad \in Nat /\ sN \in Nat
      /\ Start + ToRead = sBefore /\ Pad + ToRead = sN /\ sBefore \in Nat
      /\ sBefore <= writeCount /\ sN <= Capacity /\ sFirst \in Nat
      /\ sI \in Nat /\ sAttempt \in Nat
  BY WindowType, SMTT(20) DEF IInv, TypeOK, Frontier
<1>1. UNCHANGED writerVars /\ UNCHANGED cursorVars
  BY DEF CallReadLastN, Snapshot, LoadBefore, CopySnapshotSample, VerifyCount,
         FinishReadLastN
<1>2. StoredInv' /\ ReadInv'
  BY <1>1, SnapshotKeepsRest
<1>3. CASE CallReadLastN
  <2>1. PICK n \in Requests :
          /\ sN' = Lesser(n, Capacity)
          /\ sDest' = [k \in 0 .. Lesser(n, Capacity) - 1 |-> Garbage]
    BY <1>3 DEF CallReadLastN
  <2>2. /\ sPc' = "load" /\ sAttempt' = 0 /\ sFirst' = writeCount
        /\ sBefore' = 0 /\ sI' = 0 /\ sOverlap' = sOverlap
    BY <1>3 DEF CallReadLastN
  <2>3. Lesser(n, Capacity) \in 1 .. Capacity
    BY LesserType
  <2>4. TypeOK'
    <3>1. ToRead' = 0
      BY <2>1, <2>2, <2>3 DEF ToRead, Lesser
    <3> QED
      BY <1>0, <1>1, <2>1, <2>2, <2>3, <3>1 DEF TypeOK, writerVars, cursorVars, Samples
  <2>5. SnapshotInv'
    BY <2>2 DEF SnapshotInv, SnapshotTornOnlyByOverlap
  <2>6. RetryInv'
    BY <2>2, <2>3, <2>1, <1>0, <1>1
    DEF RetryInv, GaveUpOnlyWhenLapped, writerVars
  <2> QED BY <1>2, <2>4, <2>5, <2>6 DEF IInv
<1>4. CASE LoadBefore
  <2>1. /\ sPc = "load" /\ sBefore' = writeCount /\ sI' = 0 /\ sOverlap' = 0
        /\ sN' = sN /\ sAttempt' = sAttempt /\ sFirst' = sFirst
        /\ sDest' = [k \in 0 .. sN - 1 |->
                       IF k < sN - Lesser(writeCount, sN) THEN Silence ELSE sDest[k]]
        /\ sPc' = IF writeCount = 0 THEN "accepted" ELSE "copy"
    BY <1>4 DEF LoadBefore
  <2>2. /\ ToRead' = Lesser(writeCount, sN)
        /\ Lesser(writeCount, sN) \in Nat /\ Lesser(writeCount, sN) <= sN
        /\ writeCount = 0 => Lesser(writeCount, sN) = 0
        /\ Pad' = sN - Lesser(writeCount, sN)
    BY <2>1, <1>0 DEF ToRead, Pad, Lesser
  <2>3. TypeOK'
    BY <1>0, <1>1, <2>1, <2>2 DEF TypeOK, writerVars, cursorVars, Samples
  <2>4. SnapshotInv'
    BY <1>0, <2>1, <2>2 DEF SnapshotInv, SnapshotTornOnlyByOverlap
  <2>5. RetryInv'
    BY <1>0, <2>1 DEF RetryInv, GaveUpOnlyWhenLapped, IInv
  <2> QED BY <1>2, <2>3, <2>4, <2>5 DEF IInv
<1>5. CASE CopySnapshotSample
  <2>1. /\ sPc = "copy" /\ sPc' = "copy" /\ sI < ToRead /\ sI' = sI + 1
        /\ sDest' = [sDest EXCEPT ![Pad + sI] = buffer[Slot(Start + sI)]]
        /\ sN' = sN /\ sAttempt' = sAttempt /\ sBefore' = sBefore
        /\ sFirst' = sFirst /\ sOverlap' = sOverlap
    BY <1>5 DEF CopySnapshotSample
  <2>2. ToRead' = ToRead /\ Start' = Start /\ Pad' = Pad /\ Frontier' = Frontier
    BY <1>1, <2>1 DEF ToRead, Start, Pad, Lesser, Frontier, writerVars
  <2>3. /\ buffer[Slot(Start + sI)] >= Start + sI
        /\ Frontier <= Start + sI + Capacity => buffer[Slot(Start + sI)] = Start + sI
    BY <1>0, <2>1 DEF IInv, StoredInv
  <2>4. buffer[Slot(Start + sI)] \in Samples
    <3>1. Slot(Start + sI) \in 0 .. Capacity - 1
      BY <1>0, SlotInRange
    <3> QED BY <1>0, <3>1 DEF TypeOK
  <2>5. TypeOK'
    BY <1>0, <1>1, <2>1, <2>2, <2>4 DEF TypeOK, writerVars, cursorVars
  <2>6. Pad + sI \in DOMAIN sDest /\ DOMAIN sDest = 0 .. sN - 1
    BY <1>0, <2>1 DEF TypeOK
  <2>7. \A k \in 0 .. Pad - 1 : sDest'[k] = Silence
    BY <1>0, <2>1, <2>6 DEF IInv, SnapshotInv
  <2>8. ASSUME NEW k \in 0 .. sI
        PROVE  /\ sDest'[Pad + k] >= Start + k
               /\ Frontier <= Start + k + Capacity => sDest'[Pad + k] = Start + k
    <3>1. CASE k = sI
      BY <1>0, <2>1, <2>3, <2>6, <3>1
    <3>2. CASE k < sI
      <4>1. sDest'[Pad + k] = sDest[Pad + k]
        BY <1>0, <2>1, <2>6, <3>2
      <4> QED BY <1>0, <2>1, <3>2, <4>1 DEF IInv, SnapshotInv
    <3> QED BY <1>0, <3>1, <3>2
  <2>9. SnapshotInv'
    BY <1>0, <2>1, <2>2, <2>7, <2>8 DEF SnapshotInv, SnapshotTornOnlyByOverlap
  <2>10. RetryInv'
    BY <2>1 DEF RetryInv, GaveUpOnlyWhenLapped, IInv
  <2> QED BY <1>2, <2>5, <2>9, <2>10 DEF IInv
<1>6. CASE VerifyCount
  <2>1. /\ sPc = "copy" /\ sI = ToRead /\ sOverlap' = wPos
        /\ sN' = sN /\ sBefore' = sBefore /\ sI' = sI /\ sDest' = sDest
        /\ sFirst' = sFirst
    BY <1>6 DEF VerifyCount
  <2>2. /\ ToRead' = ToRead /\ Start' = Start /\ Pad' = Pad
        /\ writeCount' = writeCount
    BY <1>1, <2>1 DEF ToRead, Start, Pad, Lesser, writerVars
  <2>3. sAttempt < MaxRetries /\ MaxRetries \in Nat
    BY <2>1 DEF IInv, RetryInv
  <2>4. CASE NotLapped /\ sPc' = "accepted" /\ sAttempt' = sAttempt
    <3>1. TypeOK'
      BY <1>0, <1>1, <2>1, <2>2, <2>4 DEF TypeOK, writerVars, cursorVars
    <3>2. ASSUME NEW k \in 0 .. ToRead - 1
          PROVE  /\ sDest[Pad + k] >= Start + k
                 /\ k >= wPos => sDest[Pad + k] = Start + k
      BY <1>0, <2>1, <2>4 DEF IInv, SnapshotInv, NotLapped
    <3>3. SnapshotInv'
      BY <1>0, <2>1, <2>2, <2>4, <3>2
      DEF IInv, SnapshotInv, SnapshotTornOnlyByOverlap
    <3>4. RetryInv'
      BY <2>4 DEF RetryInv, GaveUpOnlyWhenLapped
    <3> QED BY <1>2, <3>1, <3>3, <3>4 DEF IInv
  <2>5. CASE /\ ~NotLapped /\ sAttempt' = sAttempt + 1
             /\ sPc' = IF AttemptsLeft THEN "load" ELSE "gaveUp"
    <3>1. TypeOK'
      BY <1>0, <1>1, <2>1, <2>2, <2>3, <2>5 DEF TypeOK, writerVars, cursorVars
    <3>2. SnapshotInv'
      BY <2>5 DEF SnapshotInv, SnapshotTornOnlyByOverlap
    <3>3. (sAttempt + 1) * (Capacity - sN + 1) <= writeCount - sFirst
      <4> DEFINE c == Capacity - sN + 1
      <4>1. c \in Nat /\ sAttempt * c \in Int
        BY <1>0
      <4>2. sAttempt * c <= sBefore - sFirst
        BY <2>1 DEF IInv, RetryInv
      <4>3. writeCount - sBefore >= c
        BY <1>0, <2>5 DEF NotLapped
      <4>4. (sAttempt + 1) * c = sAttempt * c + c
        <5> HIDE DEF c
        <5> QED BY <1>0, <4>1
      <4>5. sAttempt * c + c <= writeCount - sFirst
        <5> DEFINE m == sAttempt * c
        <5>1. m \in Int /\ m <= sBefore - sFirst
          BY <4>1, <4>2
        <5> HIDE DEF m, c
        <5>2. m + c <= writeCount - sFirst
          BY <1>0, <4>1, <4>3, <5>1
        <5> QED BY <5>2 DEF m
      <4> QED BY <4>4, <4>5
    <3>4. AttemptsLeft => sAttempt + 1 < MaxRetries
      BY DEF AttemptsLeft
    <3>5. ~AttemptsLeft => sAttempt + 1 = MaxRetries
      BY <1>0, <2>3 DEF AttemptsLeft
    <3>6. ASSUME AttemptsLeft PROVE RetryInv'
      BY <2>1, <2>2, <2>5, <3>3, <3>4, <3>6 DEF RetryInv, GaveUpOnlyWhenLapped
    <3>7. ASSUME ~AttemptsLeft PROVE RetryInv'
      <4>1. MaxRetries * (Capacity - sN + 1) <= writeCount - sFirst
        BY <3>3, <3>5, <3>7
      <4>2. writeCount - sFirst >= MaxRetries * (Capacity - sN + 1)
        <5> DEFINE g == MaxRetries * (Capacity - sN + 1)
        <5>1. g \in Int /\ g <= writeCount - sFirst
          BY <1>0, <4>1
        <5> HIDE DEF g
        <5>2. writeCount - sFirst >= g
          BY <1>0, <5>1
        <5> QED BY <5>2 DEF g
      <4> QED
        BY <2>1, <2>2, <2>5, <3>7, <4>2 DEF RetryInv, GaveUpOnlyWhenLapped
    <3> QED BY <1>2, <3>1, <3>2, <3>6, <3>7 DEF IInv
  <2> QED BY <1>6, <2>4, <2>5 DEF VerifyCount
<1>7. CASE FinishReadLastN
  <2>1. /\ sPc' = "idle" /\ sN' = 0 /\ sAttempt' = 0 /\ sBefore' = 0 /\ sI' = 0
        /\ sDest' = <<>> /\ sFirst' = 0 /\ sOverlap' = 0
    BY <1>7 DEF FinishReadLastN
  <2>2. ToRead' = 0
    BY <2>1 DEF ToRead, Lesser
  <2>3. TypeOK'
    BY <1>0, <1>1, <2>1, <2>2 DEF TypeOK, writerVars, cursorVars
  <2>4. SnapshotInv' /\ RetryInv'
    BY <2>1 DEF SnapshotInv, SnapshotTornOnlyByOverlap, RetryInv,
                GaveUpOnlyWhenLapped
  <2> QED BY <1>2, <2>3, <2>4 DEF IInv
<1> QED
  BY <1>3, <1>4, <1>5, <1>6, <1>7 DEF Snapshot


(* read()'s steps, and a session that starts reading at "now".              *)
LEMMA ReadStep == IInv /\ (AttachCursor \/ Drain) => IInv'
<1> SUFFICES ASSUME IInv, AttachCursor \/ Drain PROVE IInv'
  OBVIOUS
<1> USE RingAssumption
<1>0. /\ TypeOK
      /\ writeCount \in Nat /\ cursor \in Nat /\ cBefore \in Nat
      /\ cToRead \in Nat /\ cI \in Nat /\ cI <= cToRead
      /\ cursor <= writeCount /\ cBefore <= writeCount
      /\ Frontier \in Nat /\ writeCount <= Frontier
      /\ cDest \in Seq(Samples) /\ Len(cDest) = cI
  BY WindowType, SMTT(20) DEF IInv, TypeOK, ReadInv
<1>1. UNCHANGED writerVars /\ UNCHANGED snapVars
  BY DEF AttachCursor, Drain, CallRead, CopyReadSample, ReturnRead, FinishRead
<1>2. StoredInv' /\ SnapshotInv' /\ RetryInv'
  BY <1>1, ReadKeepsRest
<1>3. /\ ToRead' = ToRead /\ Frontier' = Frontier /\ writeCount' = writeCount
  BY <1>1 DEF writerVars, snapVars, ToRead, Lesser, Frontier
<1>4. CASE AttachCursor
  <2>1. /\ cPc = "idle" /\ cPc' = "idle" /\ cursor' = writeCount
        /\ cBefore' = cBefore /\ cToRead' = cToRead /\ cI' = cI
        /\ cDest' = cDest /\ cOverrun' = cOverrun
    BY <1>4 DEF AttachCursor
  <2>2. TypeOK'
    BY <1>0, <1>1, <1>3, <2>1 DEF TypeOK, writerVars, snapVars
  <2>3. ReadInv'
    BY <1>0, <2>1 DEF ReadInv, CursorRunIntact
  <2> QED BY <1>2, <2>2, <2>3 DEF IInv
<1>5. CASE CallRead
  <2>1. /\ cPc' = "copy" /\ cBefore' = writeCount /\ cOverrun' = Overrun
        /\ cursor' = IF Overrun THEN OldestLive ELSE cursor
        /\ cI' = 0 /\ cDest' = <<>>
    BY <1>5 DEF CallRead
  <2>2. PICK m \in Chunks : cToRead' = Lesser(writeCount - cursor', m)
    BY <1>5 DEF CallRead
  <2> DEFINE from == IF Overrun THEN OldestLive ELSE cursor
             n    == Lesser(writeCount - from, m)
  <2>3. /\ from \in Nat /\ from <= writeCount /\ writeCount <= from + Capacity
    BY <1>0 DEF Overrun, OldestLive
  <2>4. n \in Nat /\ from + n <= writeCount
    <3> HIDE DEF from
    <3> QED BY <1>0, <2>3 DEF Lesser
  <2>5. cursor' = from /\ cToRead' = n
    BY <2>1, <2>2
  <2> HIDE DEF from, n
  <2>6. TypeOK'
    BY <1>0, <1>1, <1>3, <2>1, <2>3, <2>4, <2>5
    DEF TypeOK, writerVars, snapVars, Overrun
  <2>7. ReadInv'
    BY <2>1, <2>3, <2>4, <2>5 DEF ReadInv, CursorRunIntact
  <2> QED BY <1>2, <2>6, <2>7 DEF IInv
<1>6. CASE CopyReadSample
  <2> DEFINE x == buffer[Slot(cursor + cI)]
  <2>1. /\ cPc = "copy" /\ cPc' = "copy" /\ cI < cToRead /\ cI' = cI + 1
        /\ cDest' = Append(cDest, x)
        /\ cursor' = cursor /\ cBefore' = cBefore /\ cToRead' = cToRead
        /\ cOverrun' = cOverrun
    BY <1>6 DEF CopyReadSample
  <2>2. cursor + cToRead <= cBefore /\ cBefore <= cursor + Capacity
    BY <2>1 DEF IInv, ReadInv
  <2>3. /\ x >= cursor + cI
        /\ Frontier <= cursor + cI + Capacity => x = cursor + cI
    BY <1>0, <2>1, <2>2 DEF IInv, StoredInv
  <2>4. x \in Samples
    <3>1. cursor + cI \in Int
      BY <1>0
    <3>2. Slot(cursor + cI) \in 0 .. Capacity - 1
      BY <3>1, SlotInRange
    <3>3. buffer \in [0 .. Capacity - 1 -> Samples]
      BY <1>0 DEF TypeOK
    <3> QED BY <3>2, <3>3
  <2> HIDE DEF x
  <2>5. /\ cDest' \in Seq(Samples) /\ Len(cDest') = cI + 1
        /\ cDest'[cI + 1] = x
        /\ \A k \in 1 .. cI : cDest'[k] = cDest[k]
    BY <1>0, <2>1, <2>4
  <2>6. TypeOK'
    BY <1>0, <1>1, <1>3, <2>1, <2>5 DEF TypeOK, writerVars, snapVars
  <2>7. ASSUME NEW k \in 1 .. cI + 1
        PROVE  LET a == cursor + (k - 1)
               IN  /\ cDest'[k] >= a
                   /\ Frontier <= a + Capacity => cDest'[k] = a
    <3>1. CASE k = cI + 1
      BY <1>0, <2>3, <2>5, <3>1
    <3>2. CASE k \in 1 .. cI
      <4>1. cDest'[k] = cDest[k]
        BY <2>5, <3>2
      <4> QED BY <2>1, <3>2, <4>1 DEF IInv, ReadInv
    <3> QED BY <1>0, <3>1, <3>2
  <2>8. ReadInv'
    BY <1>0, <1>3, <2>1, <2>2, <2>5, <2>7 DEF ReadInv, CursorRunIntact
  <2> QED BY <1>2, <2>6, <2>8 DEF IInv
<1>7. CASE ReturnRead
  <2>1. /\ cPc = "copy" /\ cPc' = "returned" /\ cI = cToRead /\ cI' = cI
        /\ cursor' = cursor + cToRead /\ cToRead' = cToRead
        /\ cBefore' = cBefore /\ cDest' = cDest /\ cOverrun' = cOverrun
    BY <1>7 DEF ReturnRead
  <2>2. cursor + cToRead <= cBefore /\ cBefore <= cursor + Capacity
    BY <2>1 DEF IInv, ReadInv
  <2>3. TypeOK'
    BY <1>0, <1>1, <1>3, <2>1, <2>2 DEF TypeOK, writerVars, snapVars
  <2>4. (cursor + cToRead) - cToRead = cursor
    BY <1>0
  <2>5. ASSUME NEW k \in 1 .. cToRead
        PROVE  LET a == cursor + (k - 1)
               IN  /\ cDest[k] >= a
                   /\ Frontier <= a + Capacity \/ Frontier = cBefore
                        => cDest[k] = a
    BY <1>0, <2>1, <2>2 DEF IInv, ReadInv
  <2>6. CursorRunIntact'
    BY <1>3, <2>1, <2>4, <2>5 DEF CursorRunIntact
  <2>7. ReadInv'
    BY <1>0, <2>1, <2>2, <2>4, <2>6 DEF ReadInv
  <2> QED BY <1>2, <2>3, <2>7 DEF IInv
<1>8. CASE FinishRead
  <2>1. /\ cPc' = "idle" /\ cBefore' = 0 /\ cToRead' = 0 /\ cI' = 0
        /\ cDest' = <<>> /\ cOverrun' = FALSE /\ cursor' = cursor
    BY <1>8 DEF FinishRead
  <2>2. cDest' \in Seq(Samples) /\ cOverrun' \in BOOLEAN
    <3>1. cDest' \in Seq(Samples)
      BY <2>1
    <3>2. cOverrun' \in BOOLEAN
      BY <2>1, Zenon
    <3> QED BY <3>1, <3>2
  <2>3. TypeOK'
    BY <1>0, <1>1, <1>3, <2>1, <2>2 DEF TypeOK, writerVars, snapVars
  <2>4. ReadInv'
    BY <2>1 DEF ReadInv, CursorRunIntact
  <2> QED BY <1>2, <2>3, <2>4 DEF IInv
<1> QED BY <1>4, <1>5, <1>6, <1>7, <1>8 DEF Drain

(* Nothing changes, nothing is disturbed.                                   *)
LEMMA StutterStep == IInv /\ UNCHANGED vars => IInv'
<1> SUFFICES ASSUME IInv, UNCHANGED vars PROVE IInv'
  OBVIOUS
<1>1. UNCHANGED writerVars /\ UNCHANGED snapVars /\ UNCHANGED cursorVars
  BY DEF vars
<1>2. TypeOK'
  BY <1>1, RingAssumption
  DEF IInv, TypeOK, writerVars, snapVars, cursorVars, ToRead, Lesser
<1> QED BY <1>1, <1>2, ReadKeepsRest, SnapshotKeepsRest DEF IInv

(* The inductive invariant holds in every reachable state.                  *)
THEOREM InductiveInvariant == Spec => []IInv
<1>1. Init => IInv
  BY InitIInv
<1>2. IInv /\ [Next]_vars => IInv'
  BY WriterStep, SnapshotStep, ReadStep, StutterStep DEF Next
<1> QED BY <1>1, <1>2, PTL DEF Spec

(* TypeOK for every capacity, block size and window: in particular no index *)
(* leaves the ring or dest, and cursor and before never pass writeCount.    *)
THEOREM TypeCorrect == Spec => []TypeOK
<1>1. IInv => TypeOK
  BY DEF IInv
<1> QED BY <1>1, InductiveInvariant, PTL

(* readLastN (SharedRingBuffer.h:41-85): an accepted window is damaged by   *)
(* nothing but a write still in progress at the verifying re-read.          *)
THEOREM AcceptedWindow == Spec => []SnapshotTornOnlyByOverlap
<1>1. IInv => SnapshotTornOnlyByOverlap
  BY DEF IInv, SnapshotInv
<1> QED BY <1>1, InductiveInvariant, PTL

(* readLastN returns false only when the writer published more than         *)
(* MaxRetries times the slack Capacity - n during the call.                 *)
THEOREM FalseMeansLapped == Spec => []GaveUpOnlyWhenLapped
<1>1. IInv => GaveUpOnlyWhenLapped
  BY DEF IInv, RetryInv
<1> QED BY <1>1, InductiveInvariant, PTL

(* read (SharedRingBuffer.h:96-114): every sample is the one the cursor     *)
(* stands for unless the writer, moving during the call, came more than a   *)
(* ring past it.                                                            *)
THEOREM CursorRun == Spec => []CursorRunIntact
<1>1. IInv => CursorRunIntact
  BY DEF IInv, ReadInv
<1> QED BY <1>1, InductiveInvariant, PTL

(* What the ring holds a ring's length further on lies in the same slot.    *)
LEMMA SlotAgain ==
  ASSUME NEW a \in Int
  PROVE  Slot(a + Capacity) = Slot(a)
<1> DEFINE b == a + Capacity
           p == a \div Capacity
           q == b \div Capacity
           r == a % Capacity
           s == b % Capacity
<1>1. /\ a = Capacity * p + r /\ p \in Int /\ r \in 0 .. Capacity - 1
      /\ b = Capacity * q + s /\ q \in Int /\ s \in 0 .. Capacity - 1
  BY RingAssumption
<1>2. b = a + Capacity
  OBVIOUS
<1> HIDE DEF b, p, q, r, s
<1>3. Capacity * (q - p - 1) = r - s
  BY <1>1, <1>2, RingAssumption
<1>4. CASE q - p - 1 <= -1
  BY <1>1, <1>3, <1>4, RingAssumption
<1>5. CASE q - p - 1 >= 1
  BY <1>1, <1>3, <1>5, RingAssumption
<1>6. CASE q - p - 1 = 0
  BY <1>1, <1>3, <1>6, RingAssumption DEF b, r, s, Slot
<1> QED
  BY <1>1, <1>4, <1>5, <1>6

(* read() leaves out no sample that is still there, and gives none twice.   *)
THEOREM NothingLiveSkipped == Spec => OnlyLostSkipped
<1> DEFINE Skip ==
      cPc' # cPc =>
        /\ cursor <= cursor'
        /\ cPc' = "returned" => cursor' = cursor + Len(cDest)
        /\ cPc' # "returned" =>
             \A a \in cursor .. cursor' - 1 : cOverrun' /\ buffer[Slot(a)] > a
<1>1. ASSUME IInv, [Next]_vars PROVE [Skip]_vars
  <2>0. /\ writeCount \in Nat /\ cursor \in Nat /\ Frontier \in Nat
        /\ writeCount <= Frontier /\ cToRead \in Nat /\ Len(cDest) = cI
        /\ Capacity \in Nat /\ Capacity > 0
    BY <1>1, WindowType, RingAssumption DEF IInv, TypeOK, ReadInv
  <2>1. CASE CallRead
    <3>1. CASE Overrun
      <4>1. /\ cursor' = writeCount - Capacity /\ cOverrun' = TRUE
            /\ cPc' = "copy" /\ cursor + Capacity < writeCount
        BY <2>0, <2>1, <3>1 DEF CallRead, OldestLive, Overrun
      <4>2. ASSUME NEW a \in cursor .. cursor' - 1
            PROVE  buffer[Slot(a)] > a
        <5>1. a \in Int /\ a + Capacity \in 0 .. Frontier - 1
          BY <2>0, <4>1
        <5>2. buffer[Slot(a + Capacity)] >= a + Capacity
          BY <5>1, <1>1 DEF IInv, StoredInv
        <5>3. Slot(a) \in 0 .. Capacity - 1 /\ Slot(a + Capacity) = Slot(a)
          BY <5>1, SlotInRange, SlotAgain
        <5>4. buffer[Slot(a)] \in Int
          <6>1. buffer \in [0 .. Capacity - 1 -> Samples]
            BY <1>1 DEF IInv, TypeOK
          <6> QED
            BY <5>3, <6>1 DEF Samples, Silence, Garbage
        <5>5. buffer[Slot(a)] >= a + Capacity
          BY <5>2, <5>3
        <5> QED
          BY <5>1, <5>4, <5>5, <2>0
      <4> QED
        BY <2>0, <4>1, <4>2
    <3>2. CASE ~Overrun
      BY <2>0, <2>1, <3>2 DEF CallRead
    <3> QED
      BY <3>1, <3>2
  <2>2. CASE ReturnRead
    BY <2>0, <2>2 DEF ReturnRead
  <2>3. CASE FinishRead
    BY <2>0, <2>3 DEF FinishRead
  <2>4. CASE AttachCursor \/ CopyReadSample
    BY <2>4 DEF AttachCursor, CopyReadSample
  <2>5. CASE Writer \/ CallReadLastN \/ Snapshot
    BY <2>5 DEF Writer, BeginWrite, StoreSample, Publish, CallReadLastN,
         Snapshot, LoadBefore, CopySnapshotSample, VerifyCount,
         FinishReadLastN, cursorVars
  <2> QED
    BY <1>1, <2>1, <2>2, <2>3, <2>4, <2>5 DEF Next, Drain
<1>2. [][Skip]_vars <=> OnlyLostSkipped
  BY DEF OnlyLostSkipped
<1> QED
  BY <1>1, <1>2, InductiveInvariant, PTL DEF Spec
=============================================================================

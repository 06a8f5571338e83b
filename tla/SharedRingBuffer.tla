-------------------------- MODULE SharedRingBuffer --------------------------
(***************************************************************************)
(* The lock-free single-writer ring of SharedRingBuffer.h: the audio       *)
(* thread's write(), readLastN() on a thread that takes snapshots, and     *)
(* read() on a thread that drains the ring with its own cursor.            *)
(*                                                                         *)
(* A sample is abstracted to its absolute index in the stream, so what a   *)
(* reader finds in a slot says which sample it got.  Each load or store of *)
(* one float, and each load or store of writeCount, is a step: threads     *)
(* interleave between any two of them (the x86-64 build keeps the order of *)
(* stores and of loads; the plain floats are read old or new).             *)
(***************************************************************************)
EXTENDS Integers, Sequences

CONSTANTS Capacity,    \* slots of the ring
          MaxBlock,    \* bound: longest block one write() is given
          MaxCount,    \* bound: samples ever written
          Requests,    \* values of n that readLastN is called with
          MaxRetries,  \* readLastN's maxRetries
          Chunks       \* values of maxSamples that read is called with

ASSUME RingAssumption ==
  /\ Capacity \in Nat \ {0}
  /\ MaxBlock \in Nat \ {0}
  /\ MaxCount \in Nat
  /\ Requests \subseteq Nat \ {0}
  /\ MaxRetries \in Nat \ {0}
  /\ Chunks \subseteq Nat \ {0}

VARIABLES buffer,      \* slot -> index of the sample it holds
          writeCount,  \* samples published
          wLen, wPos,  \* block being written (0: none), samples of it stored
          sPc, sN, sAttempt, sBefore, sI, sDest,   \* locals of readLastN
          sFirst,      \* history: writeCount when readLastN was called
          sOverlap,    \* history: samples already stored, at the verifying
                       \* re-read, by a write still in progress
          cPc, cursor, cBefore, cToRead, cI, cDest, cOverrun \* locals
                       \* of read and its caller; cBefore is currentWrite

writerVars == <<buffer, writeCount, wLen, wPos>>
snapVars   == <<sPc, sN, sAttempt, sBefore, sI, sDest, sFirst, sOverlap>>
cursorVars == <<cPc, cursor, cBefore, cToRead, cI, cDest, cOverrun>>
vars       == <<writerVars, snapVars, cursorVars>>

Silence == -1   \* the 0.0f of a slot never written, and of the front padding
Garbage == -2   \* what the caller's dest held before the call

Lesser(a, b) == IF a <= b THEN a ELSE b
Slot(a)      == a % Capacity      \* a & Mask: Capacity is a power of two
Frontier     == writeCount + wPos \* first sample not stored yet

(* readLastN's toRead, start and the length of the front padding. *)
ToRead == Lesser(sBefore, sN)
Start  == sBefore - ToRead
Pad    == sN - ToRead

Init ==
  /\ buffer = [s \in 0 .. Capacity - 1 |-> Silence]
  /\ writeCount = 0 /\ wLen = 0 /\ wPos = 0
  /\ sPc = "idle" /\ sN = 0 /\ sAttempt = 0 /\ sBefore = 0 /\ sI = 0
  /\ sDest = <<>> /\ sFirst = 0 /\ sOverlap = 0
  /\ cPc = "idle" /\ cursor = 0 /\ cBefore = 0 /\ cToRead = 0 /\ cI = 0
  /\ cDest = <<>> /\ cOverrun = FALSE

-----------------------------------------------------------------------------
(* write(): wait-free, one writer. *)

BeginWrite ==
  /\ wLen = 0
  /\ \E n \in 1 .. MaxBlock :
       /\ writeCount + n <= MaxCount
       /\ wLen' = n
  /\ wPos' = 0
  /\ UNCHANGED <<buffer, writeCount, snapVars, cursorVars>>

MoreToStore == wPos < wLen

StoreSample ==
  /\ MoreToStore
  /\ buffer' = [buffer EXCEPT ![Slot(Frontier)] = Frontier]
  /\ wPos' = wPos + 1
  /\ UNCHANGED <<writeCount, wLen, snapVars, cursorVars>>

Publish ==
  /\ wLen > 0
  /\ wPos = wLen
  /\ writeCount' = writeCount + wLen
  /\ wLen' = 0
  /\ wPos' = 0
  /\ UNCHANGED <<buffer, snapVars, cursorVars>>

-----------------------------------------------------------------------------
(* readLastN(dest, n): n is clamped, then up to MaxRetries attempts, each a *)
(* load of writeCount, a copy and a verifying re-read.                      *)

CallReadLastN ==
  /\ sPc = "idle"
  /\ \E n \in Requests :
       /\ sN' = Lesser(n, Capacity)
       /\ sDest' = [k \in 0 .. Lesser(n, Capacity) - 1 |-> Garbage]
  /\ sPc' = "load"
  /\ sAttempt' = 0 /\ sBefore' = 0 /\ sI' = 0
  /\ sFirst' = writeCount
  /\ UNCHANGED <<sOverlap, writerVars, cursorVars>>

LoadBefore ==
  /\ sPc = "load"
  /\ sBefore' = writeCount
  /\ sDest' = [k \in 0 .. sN - 1 |->
                 IF k < sN - Lesser(writeCount, sN) THEN Silence ELSE sDest[k]]
  /\ sI' = 0
  /\ sOverlap' = 0
  /\ sPc' = IF writeCount = 0 THEN "accepted" ELSE "copy"
  /\ UNCHANGED <<sN, sAttempt, sFirst, writerVars, cursorVars>>

CopySnapshotSample ==
  /\ sPc = "copy"
  /\ sI < ToRead
  /\ sDest' = [sDest EXCEPT ![Pad + sI] = buffer[Slot(Start + sI)]]
  /\ sI' = sI + 1
  /\ UNCHANGED <<sPc, sN, sAttempt, sBefore, sFirst, sOverlap,
                 writerVars, cursorVars>>

(* Mutants: the verifying comparison off by one either way.                 *)
NotLappedOneLate  == writeCount - Start <= Capacity + 1
NotLappedOneEarly == writeCount - Start < Capacity
NotLapped         == writeCount - Start <= Capacity

AttemptsLeft == sAttempt + 1 < MaxRetries

VerifyCount ==
  /\ sPc = "copy"
  /\ sI = ToRead
  /\ sOverlap' = wPos
  /\ \/ /\ NotLapped
        /\ sPc' = "accepted"
        /\ UNCHANGED sAttempt
     \/ /\ ~NotLapped
        /\ sAttempt' = sAttempt + 1
        /\ sPc' = IF AttemptsLeft THEN "load" ELSE "gaveUp"
  /\ UNCHANGED <<sN, sBefore, sI, sDest, sFirst, writerVars, cursorVars>>

(* The caller has used or discarded dest. *)
FinishReadLastN ==
  /\ sPc \in {"accepted", "gaveUp"}
  /\ sPc' = "idle"
  /\ sN' = 0 /\ sAttempt' = 0 /\ sBefore' = 0 /\ sI' = 0
  /\ sDest' = <<>> /\ sFirst' = 0 /\ sOverlap' = 0
  /\ UNCHANGED <<writerVars, cursorVars>>

-----------------------------------------------------------------------------
(* read(dest, maxSamples, cursor).  While cPc is "copy" cursor is the index *)
(* of the first sample being copied.                                        *)

(* A new session starts reading at "now" (AnalysisThread's hostCursor). *)
AttachCursor ==
  /\ cPc = "idle"
  /\ Chunks # {}
  /\ cursor' = writeCount
  /\ UNCHANGED <<cPc, cBefore, cToRead, cI, cDest, cOverrun, writerVars, snapVars>>

(* Mutants: the clamp one sample late; a clamp that forgets the capacity. *)
OverrunOneLate  == writeCount > cursor + Capacity + 1
OverrunIfBehind == writeCount > cursor
Overrun         == writeCount > cursor + Capacity

(* Mutant: the cursor of a lapped reader is moved to "now". *)
OldestLiveNow == writeCount
OldestLive    == writeCount - Capacity

CallRead ==
  /\ cPc = "idle"
  /\ cBefore' = writeCount
  /\ cOverrun' = Overrun
  /\ cursor' = IF Overrun THEN OldestLive ELSE cursor
  /\ \E maxSamples \in Chunks :
       cToRead' = Lesser(writeCount - cursor', maxSamples)
  /\ cI' = 0
  /\ cDest' = <<>>
  /\ cPc' = "copy"
  /\ UNCHANGED <<writerVars, snapVars>>

CopyReadSample ==
  /\ cPc = "copy"
  /\ cI < cToRead
  /\ cDest' = Append(cDest, buffer[Slot(cursor + cI)])
  /\ cI' = cI + 1
  /\ UNCHANGED <<cPc, cursor, cBefore, cToRead, cOverrun, writerVars, snapVars>>

ReturnRead ==
  /\ cPc = "copy"
  /\ cI = cToRead
  /\ cursor' = cursor + cToRead
  /\ cPc' = "returned"
  /\ UNCHANGED <<cBefore, cToRead, cI, cDest, cOverrun, writerVars, snapVars>>

(* The caller has consumed the samples read. *)
FinishRead ==
  /\ cPc = "returned"
  /\ cPc' = "idle"
  /\ cBefore' = 0 /\ cToRead' = 0 /\ cI' = 0
  /\ cDest' = <<>> /\ cOverrun' = FALSE
  /\ UNCHANGED <<cursor, writerVars, snapVars>>

-----------------------------------------------------------------------------
Writer   == BeginWrite \/ StoreSample \/ Publish
Snapshot == LoadBefore \/ CopySnapshotSample \/ VerifyCount \/ FinishReadLastN
Drain    == CallRead \/ CopyReadSample \/ ReturnRead \/ FinishRead

Next == Writer \/ CallReadLastN \/ Snapshot \/ AttachCursor \/ Drain

Spec == Init /\ [][Next]_vars

-----------------------------------------------------------------------------
Samples == Nat \cup {Silence, Garbage}

(* Type invariant. *)
TypeOK ==
  /\ buffer \in [0 .. Capacity - 1 -> Samples]
  /\ writeCount \in Nat
  /\ wLen \in 0 .. MaxBlock
  /\ wPos \in 0 .. wLen
  /\ sPc \in {"idle", "load", "copy", "accepted", "gaveUp"}
  /\ sN \in 0 .. Capacity
  /\ sAttempt \in 0 .. MaxRetries
  /\ sBefore \in 0 .. writeCount
  /\ sI \in 0 .. ToRead
  /\ sDest \in [0 .. sN - 1 -> Samples]
  /\ sFirst \in 0 .. writeCount
  /\ sOverlap \in 0 .. MaxBlock
  /\ cPc \in {"idle", "copy", "returned"}
  /\ cursor \in 0 .. writeCount
  /\ cBefore \in 0 .. writeCount
  /\ cToRead \in Nat
  /\ cI \in 0 .. cToRead
  /\ cDest \in Seq(Samples)
  /\ cOverrun \in BOOLEAN

(* What readLastN promises (SharedRingBuffer.h:59-78): the padding is       *)
(* silence, no sample is older than its place in the window, and a sample   *)
(* can only be wrong when a write that was still in progress at the         *)
(* verifying re-read had stored more samples than it lies from the front.   *)
(* With no write in progress at that moment the whole window is coherent.   *)
SnapshotTornOnlyByOverlap ==
  sPc = "accepted" =>
    /\ \A k \in 0 .. Pad - 1 : sDest[k] = Silence
    /\ \A k \in 0 .. ToRead - 1 :
         /\ sDest[Pad + k] >= Start + k
         /\ k >= sOverlap => sDest[Pad + k] = Start + k

(* readLastN returns false only when every attempt was lapped               *)
(* (SharedRingBuffer.h:38-40): the writer published more than the slack     *)
(* Capacity - n during each of the MaxRetries attempts.                     *)
GaveUpOnlyWhenLapped ==
  sPc = "gaveUp" =>
    writeCount - sFirst >= MaxRetries * (Capacity - sN + 1)

(* read() (SharedRingBuffer.h:96-114) hands out the samples from the cursor *)
(* on, in order.  A sample it hands out is never older than its place, and  *)
(* it is the right one unless the writer moved during the call and is now,  *)
(* counting the block it is storing, more than a whole ring past it.        *)
CursorRunIntact ==
  cPc = "returned" =>
    \A k \in 1 .. cToRead :
      LET a == (cursor - cToRead) + (k - 1)
      IN  /\ cDest[k] >= a
          /\ Frontier <= a + Capacity \/ Frontier = cBefore => cDest[k] = a

(* From one read() to the next (SharedRingBuffer.h:93-104) no sample is     *)
(* handed out twice, and none is passed over that the ring still holds: the *)
(* cursor never goes back, goes forward by what the caller got, and jumps   *)
(* only over samples that newer ones have replaced, which overrun reports.  *)
OnlyLostSkipped ==
  [][cPc' # cPc =>
       /\ cursor <= cursor'
       /\ cPc' = "returned" => cursor' = cursor + Len(cDest)
       /\ cPc' # "returned" =>
            \A a \in cursor .. cursor' - 1 : cOverrun' /\ buffer[Slot(a)] > a]_vars

-----------------------------------------------------------------------------
(* The inductive invariant behind SnapshotTornOnlyByOverlap,                *)
(* GaveUpOnlyWhenLapped and CursorRunIntact.                                *)

(* Every sample stored so far has its slot, taken over only by a newer one, *)
(* and the last Capacity samples stored are all there.                      *)
StoredInv ==
  \A a \in 0 .. Frontier - 1 :
    /\ buffer[Slot(a)] >= a
    /\ Frontier <= a + Capacity => buffer[Slot(a)] = a

SnapshotInv ==
  /\ sPc = "copy" =>
       /\ \A k \in 0 .. Pad - 1 : sDest[k] = Silence
       /\ \A k \in 0 .. sI - 1 :
            /\ sDest[Pad + k] >= Start + k
            /\ Frontier <= Start + k + Capacity => sDest[Pad + k] = Start + k
  /\ SnapshotTornOnlyByOverlap

(* Each attempt that failed saw more than Capacity - sN samples published. *)
RetryInv ==
  LET Lapped == sAttempt * (Capacity - sN + 1)
  IN  /\ sPc = "load" => sAttempt < MaxRetries /\ Lapped <= writeCount - sFirst
      /\ sPc = "copy" => sAttempt < MaxRetries /\ Lapped <= sBefore - sFirst
      /\ GaveUpOnlyWhenLapped

ReadInv ==
  /\ Len(cDest) = cI
  /\ cPc = "copy" =>
       /\ cursor + cToRead <= cBefore
       /\ cBefore <= cursor + Capacity
       /\ \A k \in 1 .. cI :
            LET a == cursor + (k - 1)
            IN  cDest[k] >= a /\ (Frontier <= a + Capacity => cDest[k] = a)
  /\ cPc = "returned" =>
       /\ cI = cToRead
       /\ cToRead <= cursor
       /\ cBefore <= (cursor - cToRead) + Capacity
  /\ CursorRunIntact

IInv == TypeOK /\ StoredInv /\ SnapshotInv /\ RetryInv /\ ReadInv
=============================================================================

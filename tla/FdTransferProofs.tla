-------------------------- MODULE FdTransferProofs --------------------------
(***************************************************************************)
(* Proofs about FdTransfer for every value of its constants: any set of    *)
(* objects, any sizes, any capacity of the descriptor, with and without    *)
(* faults, and for callers that go on after Error.                         *)
(***************************************************************************)
EXTENDS FdTransfer, SequenceTheorems, TLAPS

USE TransferAssumption

(* The smaller of two naturals bounds both from below.                     *)
LEMMA LeastBounds ==
  ASSUME NEW a \in Int, NEW b \in Int
  PROVE  Least(a, b) \in Int /\ Least(a, b) <= a /\ Least(a, b) <= b
BY DEF Least

(* The type of an entry of the log, and of the sizes it gives.             *)
LEMMA LogTypes ==
  ASSUME TypeOK, NEW k \in 1 .. Len(log)
  PROVE  /\ Sent(k) \in Message /\ At(k) \in Nat
         /\ DataSize[Sent(k)] \in Nat
         /\ EndOf(k) \in Nat
<1>1. log \in Seq(LogEntry)
  BY DEF TypeOK
<1>2. log[k] \in LogEntry
  BY <1>1
<1>3. Sent(k) \in Message /\ At(k) \in Nat
  BY <1>2 DEF LogEntry, Sent, At
<1> QED
  BY <1>3 DEF EndOf

(* Where the sound part of the stream ends, and the log with it.           *)
LEMMA Bounds ==
  ASSUME TransferInv
  PROVE  /\ Len(log) \in Nat /\ Len(stream) \in Nat /\ Len(received) \in Nat
         /\ taken \in Nat /\ torn \in 0 .. Len(log) /\ lost \in BOOLEAN
         /\ Top \in 0 .. Len(log)
         /\ Sound \in 0 .. Len(stream)
<1>1. /\ Len(log) \in Nat /\ Len(stream) \in Nat /\ Len(received) \in Nat
      /\ taken \in Nat /\ torn \in Nat /\ lost \in BOOLEAN
  BY DEF TransferInv, TypeOK
<1>2. torn # 0 => torn <= Len(log) /\ At(torn) <= Sound /\ Sound <= Len(stream)
  BY DEF TransferInv, LogOrdered
<1>3. torn \in 0 .. Len(log) /\ Top \in 0 .. Len(log)
  BY <1>1, <1>2 DEF Top
<1>4. CASE torn = 0
  BY <1>1, <1>3, <1>4 DEF Sound
<1>5. CASE torn # 0
  <2>1. torn + 1 \in 1 .. Len(log) => At(torn + 1) \in Nat
    BY LogTypes DEF TransferInv
  <2>2. Sound \in Nat
    BY <2>1, <1>1, <1>3, <1>5 DEF Sound, StartOf
  <2> QED
    BY <2>2, <1>1, <1>2, <1>3, <1>5
<1> QED
  BY <1>1, <1>3, <1>4, <1>5

(* The next n bytes for the reader are those of object m from its position *)
(* from on.                                                                *)
Incoming(m, from, n) ==
  \A i \in 0 .. n - 1 : stream[taken + i + 1] = Byte(m, from + i)

(* The first n cells of a block hold the bytes of m from base on.          *)
Loaded(block, m, base, n) ==
  \A p \in 0 .. n - 1 : block[p] = Byte(m, base + p)

(* The bytes after taken are those of the object taken has got into.       *)
LEMMA BytesComing ==
  ASSUME TransferInv,
         NEW k \in 1 .. Top, NEW from \in Nat, NEW n \in Nat,
         taken = At(k) + from, taken + n <= Sound,
         from + n <= HeaderSize + DataSize[Sent(k)]
  PROVE  Incoming(Sent(k), from, n)
<1> SUFFICES ASSUME NEW i \in 0 .. n - 1
             PROVE  stream[taken + i + 1] = Byte(Sent(k), from + i)
  BY DEF Incoming
<1>0. k \in 1 .. Len(log)
  BY Bounds
<1>1. At(k) \in Nat /\ Sent(k) \in Message /\ DataSize[Sent(k)] \in Nat
  BY <1>0, LogTypes DEF TransferInv
<1>2. Sound \in Nat
  BY Bounds
<1>3. from + i \in 0 .. HeaderSize + DataSize[Sent(k)] - 1
  BY <1>1
<1>4. At(k) + (from + i) < Sound
  BY <1>1, <1>2
<1>5. stream[At(k) + (from + i) + 1] = Byte(Sent(k), from + i)
  BY <1>3, <1>4 DEF TransferInv, StreamContent
<1>6. At(k) + (from + i) + 1 = taken + i + 1
  BY <1>1
<1> QED
  BY <1>5, <1>6

(* A header names its object.                                              *)
LEMMA HeaderNamesObject ==
  ASSUME NEW m \in Message
  PROVE  SizesIn(HeaderOf(m)) = {DataSize[m]}
<1>1. ASSUME NEW x \in Message, HeaderOf(m) = HeaderOf(x)
      PROVE  x = m
  <2>1. 0 \in HeaderCells
    BY DEF HeaderCells
  <2>2. HeaderOf(m)[0] = Byte(m, 0) /\ HeaderOf(x)[0] = Byte(x, 0)
    BY <2>1 DEF HeaderOf
  <2> QED
    BY <1>1, <2>2 DEF Byte
<1>2. {x \in Message : HeaderOf(m) = HeaderOf(x)} = {m}
  BY <1>1
<1> QED
  BY <1>2 DEF SizesIn

-----------------------------------------------------------------------------
(* The state both sides start from satisfies the invariant.                *)
LEMMA InitInv == Init => TransferInv
<1> SUFFICES ASSUME Init PROVE TransferInv
  OBVIOUS
<1>1. TypeOK
  <2>1. rHeader \in [HeaderCells -> Cell]
    BY DEF Init, Cell
  <2>2. rBuf \in [DataCells(rBufSize) -> Cell] /\ rBufSize \in Nat
    BY DEF Init, NoData, Cell
  <2>3. /\ wState = "Ready" /\ wOffset = 0 /\ torn = 0 /\ lost = FALSE
        /\ log = << >> /\ stream = << >> /\ taken = 0
        /\ rState = "Ready" /\ rOffset = 0 /\ received = << >>
    BY DEF Init
  <2>4. /\ log \in Seq(LogEntry) /\ stream \in Seq(WireByte)
        /\ received \in Seq(Objects)
    BY <2>3
  <2>5. wState \in WriterState /\ rState \in ReaderState
    BY <2>3 DEF WriterState, ReaderState
  <2> QED
    BY <2>1, <2>2, <2>3, <2>4, <2>5 DEF TypeOK
<1>2. LogOrdered /\ WriterPosition /\ StreamContent
  BY DEF Init, LogOrdered, WriterPosition, StreamContent, Top
<1>3. DeliveredInOrder /\ ReaderPosition /\ ReaderContent
  BY DEF Init, DeliveredInOrder, ReaderPosition, ReaderContent, Coming, StartOf, Top, Sound
<1> QED
  BY <1>1, <1>2, <1>3 DEF TransferInv

(* While an upload is under way it is the last one of the log, the stream  *)
(* ends inside it, and the reader has not delivered it.                    *)
LEMMA WriterBusy ==
  ASSUME TransferInv, wState # "Ready"
  PROVE  /\ log # << >> /\ Len(log) \in 1 .. Len(log)
         /\ Len(stream) < EndOf(Len(log))
         /\ Coming \in 1 .. Len(log)
         /\ torn # 0 => torn + 1 \in 1 .. Len(log) /\ Sound = At(torn + 1)
<1>1. log # << >> /\ Len(log) \in 1 .. Len(log)
  BY DEF TransferInv, TypeOK, WriterPosition
<1>2. /\ At(Len(log)) \in Nat
      /\ DataSize[Sent(Len(log))] \in Nat
  BY <1>1, LogTypes DEF TransferInv
<1>3. Len(stream) < EndOf(Len(log))
  <2>1. wOffset \in Nat /\ wState \in {"CopyingHeader", "CopyingData"}
    BY DEF TransferInv, TypeOK, WriterState
  <2>2. CASE wState = "CopyingHeader"
    <3>1. wOffset < HeaderSize /\ Len(stream) = At(Len(log)) + wOffset
      BY <2>2 DEF TransferInv, WriterPosition
    <3> QED
      BY <3>1, <2>1, <1>2 DEF EndOf
  <2>3. CASE wState = "CopyingData"
    <3>1. /\ wOffset < DataSize[Sent(Len(log))]
          /\ Len(stream) = At(Len(log)) + HeaderSize + wOffset
      BY <2>3 DEF TransferInv, WriterPosition, Current
    <3> QED
      BY <3>1, <2>1, <1>2 DEF EndOf
  <2> QED
    BY <2>1, <2>2, <2>3
<1>4. Len(received) # Len(log)
  <2> SUFFICES ASSUME Len(received) = Len(log) PROVE FALSE
    OBVIOUS
  <2>1. EndOf(Len(log)) <= taken /\ taken <= Len(stream)
    BY <1>1 DEF TransferInv, ReaderPosition
  <2>2. EndOf(Len(log)) \in Nat /\ taken \in Nat /\ Len(stream) \in Nat
    BY <1>1, LogTypes DEF TransferInv, TypeOK
  <2> QED
    BY <2>1, <2>2, <1>3
<1>5. Coming \in 1 .. Len(log)
  BY <1>1, <1>4 DEF TransferInv, TypeOK, DeliveredInOrder, Coming
<1>6. ASSUME torn # 0
      PROVE  torn + 1 \in 1 .. Len(log) /\ Sound = At(torn + 1)
  <2>1. torn # Len(log)
    BY <1>6 DEF TransferInv, WriterPosition
  <2>2. torn + 1 \in 1 .. Len(log)
    BY <2>1, <1>6, Bounds
  <2> QED
    BY <2>2, <1>6, Bounds DEF Sound, StartOf
<1> QED
  BY <1>1, <1>3, <1>5, <1>6

-----------------------------------------------------------------------------
(* The stream has n bytes more: those of the object being uploaded from    *)
(* its position from on.                                                   *)
Grown(from, n) ==
  /\ stream' \in Seq(WireByte)
  /\ Len(stream') = Len(stream) + n
  /\ \A i \in 1 .. Len(stream) : stream'[i] = stream[i]
  /\ \A i \in 0 .. n - 1 : stream'[Len(stream) + i + 1] = Byte(Current, from + i)

(* A write() that takes n bytes grows the stream so.                       *)
LEMMA WriteGrows ==
  ASSUME TypeOK, log # << >>, NEW from \in Nat, NEW n \in Nat,
         stream' = stream \o Piece(Current, from, n)
  PROVE  Grown(from, n)
<1>1. stream \in Seq(WireByte)
  BY DEF TypeOK
<1>2. Current \in Message
  <2>1. Len(log) \in 1 .. Len(log)
    BY DEF TypeOK
  <2> QED
    BY <2>1, LogTypes DEF Current
<1> DEFINE u == Piece(Current, from, n)
<1>3. u \in Seq(WireByte) /\ Len(u) = n
  BY <1>2 DEF Piece, WireByte, Byte
<1>4. \A i \in 1 .. n : u[i] = Byte(Current, from + i - 1)
  BY DEF Piece
<1>5. stream' = stream \o u
  OBVIOUS
<1> HIDE DEF u
<1>6. stream' \in Seq(WireByte) /\ Len(stream') = Len(stream) + n
  BY <1>1, <1>3, <1>5, ConcatProperties
<1>7. \A i \in 1 .. Len(stream) : stream'[i] = stream[i]
  BY <1>1, <1>3, <1>5
<1>8. ASSUME NEW i \in 0 .. n - 1
      PROVE  stream'[Len(stream) + i + 1] = Byte(Current, from + i)
  <2>1. stream'[Len(stream) + i + 1] = u[i + 1]
    BY <1>1, <1>3, <1>5
  <2>2. u[i + 1] = Byte(Current, from + (i + 1) - 1)
    BY <1>4
  <2>3. from + (i + 1) - 1 = from + i
    OBVIOUS
  <2> QED
    BY <2>1, <2>2, <2>3
<1> QED
  BY <1>6, <1>7, <1>8 DEF Grown

(* The effect of a write() on everything but the writer's own state_ and   *)
(* offset_.                                                                *)
LEMMA StreamGrows ==
  ASSUME TransferInv, wState # "Ready", NEW from \in Nat, NEW n \in Nat,
         Len(stream) = At(Len(log)) + from,
         from + n <= HeaderSize + DataSize[Current],
         Grown(from, n), UNCHANGED <<log, torn>>, UNCHANGED readerVars
  PROVE  /\ LogOrdered' /\ StreamContent'
         /\ DeliveredInOrder' /\ ReaderPosition' /\ ReaderContent'
<1>1. /\ Len(log) \in 1 .. Len(log) /\ Coming \in 1 .. Len(log)
      /\ Len(log) \in Nat
  BY WriterBusy DEF TransferInv, TypeOK
<1>2. /\ Len(stream') = Len(stream) + n
      /\ \A i \in 1 .. Len(stream) : stream'[i] = stream[i]
      /\ \A i \in 0 .. n - 1 : stream'[Len(stream) + i + 1] = Byte(Current, from + i)
  BY DEF Grown
<1>3. Len(stream) \in Nat
  BY DEF TransferInv, TypeOK
<1>0. /\ \A k : At(k)' = At(k) /\ Sent(k)' = Sent(k) /\ EndOf(k)' = EndOf(k)
      /\ UNCHANGED <<Current, taken, rState, rOffset, rHeader, rBuf, rBufSize, received, lost>>
      /\ Coming' = Coming /\ Top' = Top
  BY DEF At, Sent, EndOf, Current, Coming, readerVars, Top
<1>3a. /\ torn = 0 => Sound = Len(stream) /\ Sound' = Len(stream') /\ Top = Len(log)
       /\ torn # 0 => Sound' = Sound
       /\ Sound \in Nat /\ Sound <= Len(stream) /\ Top \in 0 .. Len(log)
       /\ At(torn)' = At(torn) /\ EndOf(torn)' = EndOf(torn)
  <2>1. torn = 0 => Sound = Len(stream) /\ Sound' = Len(stream') /\ Top = Len(log)
    BY DEF Sound, Top
  <2>2. torn # 0 => Sound' = Sound
    BY WriterBusy, Bounds DEF Sound, StartOf, At
  <2>3. At(torn)' = At(torn) /\ EndOf(torn)' = EndOf(torn)
    BY DEF At, EndOf, Sent
  <2> QED
    BY <2>1, <2>2, <2>3, Bounds
<1>4. LogOrdered'
  BY <1>0, <1>1, <1>2, <1>3, <1>3a DEF TransferInv, LogOrdered
<1>5. StreamContent'
  <2> SUFFICES ASSUME NEW k \in 1 .. Top,
                      NEW p \in 0 .. HeaderSize + DataSize[Sent(k)] - 1,
                      At(k) + p < Sound'
               PROVE  stream'[At(k) + p + 1] = Byte(Sent(k), p)
    BY <1>0 DEF StreamContent
  <2>00. k \in 1 .. Len(log)
    BY <1>1, <1>3a
  <2>0. TypeOK
    BY DEF TransferInv
  <2>1. /\ At(k) \in Nat /\ DataSize[Sent(k)] \in Nat
        /\ At(Len(log)) \in Nat
    BY <1>1, <2>0, <2>00, LogTypes
  <2>2. CASE At(k) + p < Sound
    <3>1. stream[At(k) + p + 1] = Byte(Sent(k), p)
      BY <2>2 DEF TransferInv, StreamContent
    <3>2. At(k) + p + 1 \in 1 .. Len(stream)
      <4>1. p \in Nat
        BY <2>1
      <4>2. At(k) + p \in Nat
        BY <4>1, <2>1
      <4> QED
        BY <4>2, <1>3, <1>3a, <2>2
    <3> QED
      BY <3>1, <3>2, <1>2
  <2>3. CASE At(k) + p >= Sound
    <3>0. torn = 0
      BY <2>1, <2>3, <1>3a
    <3>0a. /\ At(k) + p >= Len(stream) /\ At(k) + p < Len(stream')
           /\ Top = Len(log)
      BY <2>3, <3>0, <1>3a
    <3>1. k = Len(log)
      <4> SUFFICES ASSUME k < Len(log) PROVE FALSE
        BY <1>1, <2>00
      <4>1. EndOf(k) <= At(Len(log))
        BY <1>1, <3>0a DEF TransferInv, LogOrdered
      <4> QED
        BY <4>1, <1>3, <2>1, <3>0a DEF EndOf
    <3> DEFINE i == p - from
    <3>2. i \in 0 .. n - 1 /\ from + i = p
      BY <3>1, <2>1, <3>0a, <1>2, <1>3
    <3>3. stream'[Len(stream) + i + 1] = Byte(Current, from + i)
      BY <3>2, <1>2
    <3>4. Len(stream) + i + 1 = At(k) + p + 1
      BY <3>1, <3>2, <2>1
    <3> QED
      BY <3>1, <3>2, <3>3, <3>4 DEF Current
  <2> QED
    BY <1>3a, <2>1, <2>2, <2>3
<1>6. DeliveredInOrder'
  BY <1>0 DEF TransferInv, DeliveredInOrder
<1>7. ReaderPosition'
  <2>1. taken \in Nat
    BY DEF TransferInv, TypeOK
  <2>2. StartOf(Coming) = At(Coming) /\ StartOf(Coming)' = At(Coming)
    BY <1>0, <1>1 DEF StartOf
  <2>3. taken <= Sound => taken <= Sound'
    BY <2>1, <1>2, <1>3, <1>3a
  <2> QED
    BY <1>0, <1>2, <1>3, <2>1, <2>2, <2>3 DEF TransferInv, ReaderPosition
<1>8. ReaderContent'
  BY <1>0 DEF TransferInv, ReaderContent
<1> QED
  BY <1>4, <1>5, <1>6, <1>7, <1>8

-----------------------------------------------------------------------------
(* Each action of the writer preserves the invariant.                      *)
LEMMA BeginCopyInv ==
  ASSUME TransferInv, NEW m \in Message, BeginCopy(m)
  PROVE  TransferInv'
<1>0. Len(log) + 1 \in Nat
  BY DEF TransferInv, TypeOK
<1> SUFFICES ASSUME NEW last \in Nat, last = Len(log) + 1
             PROVE  TransferInv'
  BY <1>0
<1> DEFINE entry == [msg |-> m, at |-> Len(stream)]
<1>1. /\ log \in Seq(LogEntry) /\ Len(log) \in Nat /\ Len(stream) \in Nat
      /\ Len(received) \in Nat /\ taken \in Nat /\ rOffset \in Nat
  BY DEF TransferInv, TypeOK
<1>2. /\ UNCHANGED <<stream, torn, taken, rState, rOffset, rHeader, rBuf,
                     rBufSize, received, lost>>
      /\ wState = "Ready" /\ wOffset' = 0 /\ wState' = "CopyingHeader"
      /\ log' = Append(log, entry)
  BY DEF BeginCopy, readerVars
<1>3. entry \in LogEntry
  BY <1>1 DEF LogEntry
<1> HIDE DEF entry
<1>4. /\ log' \in Seq(LogEntry) /\ Len(log') = last
      /\ \A k \in 1 .. Len(log) : log'[k] = log[k]
      /\ log'[last] = entry
  BY <1>1, <1>2, <1>3, AppendProperties
<1>5. /\ \A k \in 1 .. Len(log) : At(k)' = At(k) /\ Sent(k)' = Sent(k) /\ EndOf(k)' = EndOf(k)
      /\ At(last)' = Len(stream) /\ Sent(last)' = m
  <2>1. entry.at = Len(stream) /\ entry.msg = m
    BY DEF entry
  <2>2. At(last)' = log'[last].at /\ Sent(last)' = log'[last].msg
    BY <1>2 DEF At, Sent
  <2>3. \A k \in 1 .. Len(log) : At(k)' = At(k) /\ Sent(k)' = Sent(k)
    BY <1>4 DEF At, Sent
  <2>4. \A k \in 1 .. Len(log) : EndOf(k)' = EndOf(k)
    BY <2>3 DEF EndOf
  <2> QED
    BY <2>1, <2>2, <2>3, <2>4, <1>4
<1>6. Current' = m /\ At(Len(log))' = Len(stream)
  <2>1. log'[last].msg = m /\ log'[last].at = Len(stream)
    BY <1>4 DEF entry
  <2> QED
    BY <2>1, <1>4 DEF Current, Sent, At
<1>7. \A k \in 1 .. Len(log) : At(k) \in Nat /\ EndOf(k) \in Nat
  BY LogTypes DEF TransferInv
<1>8. log # << >> /\ torn = 0 => EndOf(Len(log)) = Len(stream)
  BY <1>2 DEF TransferInv, WriterPosition
<1>9. log = << >> => Len(stream) = 0 /\ Len(log) = 0
  BY DEF TransferInv, WriterPosition
<1>10. Len(log) # 0 => log # << >> /\ Len(log) \in 1 .. Len(log)
  BY <1>1
<1>11. log' # << >>
  BY <1>1, <1>4
<1>11a. /\ torn \in 0 .. Len(log) /\ Sound \in Nat /\ Sound <= Len(stream)
        /\ torn = 0 => /\ Top = Len(log) /\ Top' = last
                       /\ Sound = Len(stream) /\ Sound' = Len(stream)
        /\ torn # 0 => /\ Top = torn /\ Top' = torn /\ torn \in 1 .. Len(log)
                       /\ Sound' = Sound
        /\ Top \in 0 .. Len(log)
  <2>1. torn \in 0 .. Len(log) /\ Sound \in 0 .. Len(stream) /\ Top \in 0 .. Len(log)
    BY Bounds
  <2>2. torn = 0 => /\ Top = Len(log) /\ Top' = last
                    /\ Sound = Len(stream) /\ Sound' = Len(stream)
    BY <1>2, <1>4 DEF Top, Sound
  <2>3. torn # 0 => Top = torn /\ Top' = torn
    BY <1>2 DEF Top
  <2>4. ASSUME torn # 0 PROVE Sound' = Sound
    <3>1. Sound = StartOf(torn + 1) /\ Sound' = StartOf(torn + 1)'
      BY <2>4, <1>2 DEF Sound, StartOf, At
    <3>2. CASE torn = Len(log)
      BY <3>1, <3>2, <1>1, <1>2, <1>4, <1>5 DEF StartOf
    <3>3. CASE torn < Len(log)
      <4>1. torn + 1 \in 1 .. Len(log)
        BY <2>1, <3>3, <1>1
      <4> QED
        BY <4>1, <3>1, <1>1, <1>2, <1>4 DEF StartOf, At
    <3> QED
      BY <2>1, <3>2, <3>3, <1>1
  <2> QED
    BY <2>1, <2>2, <2>3, <2>4, <1>1
<1>12. ASSUME torn = 0, NEW j \in 1 .. Len(log)
       PROVE  EndOf(j) <= Len(stream)
  <2>1. CASE j = Len(log)
    BY <2>1, <1>1, <1>8, <1>10, <1>12
  <2>2. CASE j < Len(log)
    <3>1. EndOf(j) <= At(Len(log))
      BY <2>2, <1>1, <1>11a, <1>12 DEF TransferInv, LogOrdered
    <3>2. At(Len(log)) <= Len(stream)
      <4>1. EndOf(Len(log)) = Len(stream) /\ Len(log) \in 1 .. Len(log)
        BY <1>1, <1>8, <1>10, <1>12
      <4>2. /\ At(Len(log)) \in Nat /\ DataSize[Sent(Len(log))] \in Nat
            /\ HeaderSize \in Nat
        BY <4>1, LogTypes DEF TransferInv
      <4> QED
        BY <4>1, <4>2 DEF EndOf
    <3> QED
      BY <3>1, <3>2, <1>1, <1>7, <1>10
  <2> QED
    BY <2>1, <2>2, <1>1
<1>13. TypeOK'
  BY <1>2, <1>4 DEF TransferInv, TypeOK, WriterState
<1>14. LogOrdered'
  <2>0. torn' # 0 => /\ torn' <= Len(log')
                     /\ At(torn)' <= Sound' /\ Sound' < EndOf(torn)'
                     /\ Sound' <= Len(stream')
    <3> SUFFICES ASSUME torn # 0
                 PROVE  /\ torn <= last
                        /\ At(torn)' <= Sound' /\ Sound' < EndOf(torn)'
                        /\ Sound' <= Len(stream)
      BY <1>2, <1>4
    <3>1. At(torn) <= Sound /\ Sound < EndOf(torn) /\ torn \in 1 .. Len(log)
      BY <1>11a DEF TransferInv, LogOrdered
    <3>2. At(torn)' = At(torn) /\ EndOf(torn)' = EndOf(torn)
      BY <3>1, <1>2, <1>4 DEF At, EndOf, Sent
    <3> QED
      BY <3>1, <3>2, <1>1, <1>11a
  <2>1. At(1)' = 0
    <3>1. CASE log = << >>
      BY <3>1, <1>5, <1>9
    <3>2. CASE log # << >>
      <4>1. Len(log) > 0 /\ 1 \in 1 .. Len(log)
        BY <3>2, <1>1
      <4>2. At(1) = 0
        BY <4>1 DEF TransferInv, LogOrdered
      <4> QED
        BY <4>1, <4>2, <1>5
    <3> QED
      BY <3>1, <3>2
  <2>2. ASSUME NEW j \in 1 .. Top', NEW k \in 1 .. Top'
        PROVE  /\ j < k => EndOf(j)' <= At(k)'
               /\ k = j + 1 => EndOf(j)' = At(k)'
    <3>1. CASE k \in 1 .. Top /\ j \in 1 .. Top
      <4>1. k \in 1 .. Len(log) /\ j \in 1 .. Len(log)
        BY <3>1, <1>11a
      <4> QED
        BY <3>1, <4>1, <1>5 DEF TransferInv, LogOrdered
    <3>2. CASE torn = 0 /\ k = last /\ j \in 1 .. Len(log)
      <4>1. EndOf(j)' = EndOf(j) /\ At(k)' = Len(stream)
        BY <3>2, <1>5
      <4>2. EndOf(j) <= Len(stream)
        BY <3>2, <1>12
      <4>3. k = j + 1 => EndOf(j) = Len(stream)
        <5> SUFFICES ASSUME k = j + 1 PROVE EndOf(j) = Len(stream)
          OBVIOUS
        <5>1. j = Len(log)
          BY <3>2, <1>1
        <5> QED
          BY <5>1, <3>2, <1>1, <1>8, <1>10
      <4> QED
        BY <4>1, <4>2, <4>3
    <3>3. CASE torn = 0 /\ j = last
      BY <3>3, <1>1, <1>11a
    <3> QED
      BY <3>1, <3>2, <3>3, <1>1, <1>11a
  <2> QED
    BY <2>0, <2>1, <2>2, <1>4 DEF LogOrdered
<1>15. WriterPosition'
  <2>1. wOffset' < HeaderSize /\ Len(stream') = At(Len(log))' + wOffset'
    BY <1>1, <1>2, <1>6
  <2>2. torn' # 0 => torn' # Len(log')
    BY <1>1, <1>2, <1>4, <1>11a
  <2> QED
    BY <2>1, <2>2, <1>2, <1>11 DEF WriterPosition
<1>16. StreamContent'
  <2> SUFFICES ASSUME NEW k \in 1 .. Top',
                      NEW p \in 0 .. HeaderSize + DataSize[Sent(k)'] - 1,
                      At(k)' + p < Sound'
               PROVE  stream[At(k)' + p + 1] = Byte(Sent(k)', p)
    BY <1>2, <1>4 DEF StreamContent
  <2>0. Sound' = Sound
    BY <1>11a
  <2>1. k # last
    <3> SUFFICES ASSUME k = last PROVE FALSE
      OBVIOUS
    <3>0. torn = 0 /\ Sound' = Len(stream)
      BY <1>1, <1>11a
    <3>1. At(k)' = Len(stream)
      BY <1>5
    <3>2. p \in Nat
      OBVIOUS
    <3> QED
      BY <3>0, <3>1, <3>2, <1>1
  <2>2. k \in 1 .. Len(log) /\ k \in 1 .. Top
    BY <2>1, <1>1, <1>11a
  <2> QED
    BY <2>0, <2>2, <1>5 DEF TransferInv, StreamContent
<1>17. DeliveredInOrder'
  BY <1>1, <1>2, <1>4, <1>5 DEF TransferInv, DeliveredInOrder
<1>18. Coming' = Coming /\ Coming \in 1 .. last /\ StartOf(Coming)' = StartOf(Coming)
  <2>1. Coming' = Coming /\ Coming \in 1 .. last
    <3>1. Len(received) <= Len(log)
      BY DEF TransferInv, DeliveredInOrder
    <3> QED
      BY <3>1, <1>1, <1>2 DEF Coming
  <2>2. CASE Coming \in 1 .. Len(log)
    BY <2>1, <2>2, <1>1, <1>4, <1>5 DEF StartOf
  <2>3. CASE Coming = last
    BY <2>1, <2>3, <1>1, <1>4, <1>5 DEF StartOf
  <2> QED
    BY <2>1, <2>2, <2>3, <1>1
<1>19. ReaderPosition'
  <2>1. \A k \in 1 .. Len(received) : k \in 1 .. Len(log)
    BY <1>1 DEF TransferInv, DeliveredInOrder
  <2>2. Top <= Top' /\ Top' \in Nat /\ Sound' = Sound
    BY <1>1, <1>11a
  <2>3. /\ taken' <= Len(stream')
        /\ \A k \in 1 .. Len(received) : EndOf(k)' <= taken'
        /\ rState' = "LoadingHeader" => rOffset' < HeaderSize
        /\ rState' = "LoadingData" => rOffset' < rBufSize'
        /\ Len(received') <= Top'
    BY <2>1, <2>2, <1>1, <1>2, <1>5, <1>11a DEF TransferInv, ReaderPosition
  <2>4. ASSUME ~lost, rState = "LoadingData"
        PROVE  Coming' <= Top' /\ taken' = At(Coming)' + HeaderSize + rOffset'
    <3>1. Coming <= Top /\ taken = At(Coming) + HeaderSize + rOffset
      BY <2>4 DEF TransferInv, ReaderPosition
    <3>2. Coming \in 1 .. Len(log)
      BY <3>1, <1>1, <1>11a, <1>18
    <3>3. At(Coming)' = At(Coming)
      BY <3>2, <1>5, <1>18 DEF At
    <3> QED
      BY <3>1, <3>2, <3>3, <2>2, <1>1, <1>2, <1>11a, <1>18
  <2>5. ASSUME ~lost
        PROVE  /\ taken' <= Sound'
               /\ rState' \in {"Ready", "Error"} => taken' = StartOf(Coming)'
               /\ rState' = "LoadingHeader" => taken' = StartOf(Coming)' + rOffset'
    BY <2>2, <2>5, <1>2, <1>18 DEF TransferInv, ReaderPosition
  <2> QED
    BY <2>3, <2>4, <2>5, <1>2 DEF ReaderPosition
<1>20. ReaderContent'
  <2>1. CASE Coming \in 1 .. Len(log)
    BY <2>1, <1>2, <1>5, <1>18 DEF TransferInv, ReaderContent
  <2>2. CASE Coming = last
    <3>1. ~lost => rState # "LoadingData"
      BY <2>2, <1>1, <1>11a DEF TransferInv, ReaderPosition
    <3>2. rState = "LoadingHeader" /\ ~lost => rOffset = 0
      <4>1. StartOf(Coming) = Len(stream)
        BY <2>2, <1>1 DEF StartOf
      <4> QED
        BY <4>1, <1>1 DEF TransferInv, ReaderPosition
    <3> QED
      BY <3>1, <3>2, <1>2 DEF ReaderContent
  <2> QED
    BY <2>1, <2>2, <1>1, <1>18
<1> QED
  BY <1>13, <1>14, <1>15, <1>16, <1>17, <1>19, <1>20 DEF TransferInv

(* A write() of header bytes preserves it: the writer's next byte moves on *)
(* in the header, to the data, or to the next object.                      *)
LEMMA WriteHeaderInv ==
  ASSUME TransferInv, NEW n \in 0 .. HeaderSize, WriteHeader(n)
  PROVE  TransferInv'
<1>1. /\ wState = "CopyingHeader"  /\ n \in Nat /\ wOffset \in Nat
      /\ n <= HeaderSize - wOffset
  <2>1. Len(stream) \in Nat /\ taken \in Nat /\ wOffset \in Nat
    BY DEF TransferInv, TypeOK
  <2>2. Room \in Int
    BY <2>1 DEF Room, Unread
  <2> QED
    BY <2>1, <2>2, LeastBounds DEF WriteHeader
<1>2. /\ UNCHANGED <<log, torn>> /\ UNCHANGED readerVars
      /\ stream' = stream \o Piece(Current, wOffset, n)
  BY DEF WriteHeader
<1>3. /\ log # << >> /\ Len(log) \in 1 .. Len(log)
  BY <1>1, WriterBusy
<1>4. Grown(wOffset, n)
  BY <1>1, <1>2, <1>3, WriteGrows DEF TransferInv
<1>5. /\ wOffset < HeaderSize /\ Len(stream) = At(Len(log)) + wOffset
  BY <1>1 DEF TransferInv, WriterPosition
<1>6. DataSize[Current] \in Nat /\ At(Len(log)) \in Nat
  BY <1>3, LogTypes DEF TransferInv, Current
<1>7. /\ LogOrdered' /\ StreamContent'
      /\ DeliveredInOrder' /\ ReaderPosition' /\ ReaderContent'
  BY <1>1, <1>2, <1>4, <1>5, <1>6, StreamGrows
<1>8. /\ Len(stream') = Len(stream) + n /\ stream' \in Seq(WireByte)
  BY <1>4 DEF Grown
<1>9. /\ At(Len(log))' = At(Len(log)) /\ Current' = Current
      /\ EndOf(Len(log))' = At(Len(log)) + HeaderSize + DataSize[Current]
  BY <1>2 DEF At, Current, Sent, EndOf
<1>10. \/ /\ wOffset + n < HeaderSize /\ wOffset' = wOffset + n
          /\ wState' = "CopyingHeader"
       \/ /\ wOffset + n = HeaderSize /\ DataSize[Current] = 0
          /\ wState' = "Ready" /\ wOffset' = wOffset + n
       \/ /\ wOffset + n = HeaderSize /\ DataSize[Current] > 0
          /\ wState' = "CopyingData" /\ wOffset' = 0
  BY <1>1 DEF WriteHeader
<1>11. TypeOK'
  <2>1. wState' \in WriterState /\ wOffset' \in Nat
    BY <1>1, <1>10 DEF WriterState
  <2> QED
    BY <2>1, <1>2, <1>8 DEF TransferInv, TypeOK, readerVars
<1>12. WriterPosition'
  <2>0. /\ log' # << >> /\ Len(log)' = Len(log)
        /\ torn' # 0 => torn' # Len(log')
    BY <1>1, <1>2, <1>3, WriterBusy DEF TransferInv, TypeOK
  <2>1. CASE wState' = "CopyingHeader"
    BY <2>0, <2>1, <1>1, <1>5, <1>6, <1>8, <1>9, <1>10 DEF WriterPosition
  <2>2. CASE wState' = "Ready"
    <3>1. wOffset + n = HeaderSize /\ DataSize[Current] = 0
      BY <2>2, <1>10
    <3>0. Len(stream') = At(Len(log)) + HeaderSize
      BY <3>1, <1>1, <1>5, <1>6, <1>8
    <3>2. Len(stream') = EndOf(Len(log))'
      BY <3>0, <3>1, <1>6, <1>9
    <3>3. Len(stream') \in Nat
      BY <1>8
    <3> QED
      BY <2>0, <2>2, <3>2, <3>3 DEF WriterPosition
  <2>3. CASE wState' = "CopyingData"
    <3>1. wOffset + n = HeaderSize /\ DataSize[Current] > 0 /\ wOffset' = 0
      BY <2>3, <1>10
    <3>0. Len(stream') = At(Len(log)) + HeaderSize
      BY <3>1, <1>1, <1>5, <1>6, <1>8
    <3>2. Len(stream') = At(Len(log))' + HeaderSize + wOffset'
      BY <3>0, <3>1, <1>6, <1>9
    <3>3. wOffset' < DataSize[Current]'
      BY <3>1, <1>6, <1>9
    <3> QED
      BY <2>0, <2>3, <3>2, <3>3 DEF WriterPosition
  <2> QED
    BY <2>1, <2>2, <2>3, <1>10
<1> QED
  BY <1>7, <1>11, <1>12 DEF TransferInv

(* So does a write() of data bytes.                                        *)
LEMMA WriteDataInv ==
  ASSUME TransferInv, NEW n \in 0 .. Capacity, WriteData(n)
  PROVE  TransferInv'
<1>1. log # << >> /\ Len(log) \in 1 .. Len(log)
  BY WriterBusy DEF WriteData
<1>2. DataSize[Current] \in Nat /\ At(Len(log)) \in Nat
  BY <1>1, LogTypes DEF TransferInv, Current
<1>3. /\ wState = "CopyingData"  /\ n \in Nat /\ wOffset \in Nat
      /\ n <= DataSize[Current] - wOffset
  <2>1. Len(stream) \in Nat /\ taken \in Nat /\ wOffset \in Nat
    BY DEF TransferInv, TypeOK
  <2>2. Room \in Int
    BY <2>1 DEF Room, Unread
  <2>3. DataSize[Current] - wOffset \in Int
    BY <2>1, <1>2
  <2>4. Least(Room, DataSize[Current] - wOffset) \in Int
        /\ Least(Room, DataSize[Current] - wOffset) <= DataSize[Current] - wOffset
    BY <2>2, <2>3, LeastBounds
  <2> QED
    BY <2>1, <2>3, <2>4 DEF WriteData
<1>4. /\ UNCHANGED <<log, torn>> /\ UNCHANGED readerVars
      /\ stream' = stream \o Piece(Current, HeaderSize + wOffset, n)
      /\ wOffset' = wOffset + n
  BY DEF WriteData
<1>5. Grown(HeaderSize + wOffset, n)
  <2>1. HeaderSize + wOffset \in Nat
    BY <1>3
  <2> QED
    BY <2>1, <1>1, <1>3, <1>4, WriteGrows DEF TransferInv
<1>6. Len(stream) = At(Len(log)) + HeaderSize + wOffset
  BY <1>3 DEF TransferInv, WriterPosition
<1>7. /\ LogOrdered' /\ StreamContent'
      /\ DeliveredInOrder' /\ ReaderPosition' /\ ReaderContent'
  <2> DEFINE from == HeaderSize + wOffset
  <2>1. /\ from \in Nat /\ Len(stream) = At(Len(log)) + from
        /\ from + n <= HeaderSize + DataSize[Current]
    BY <1>2, <1>3, <1>6
  <2> HIDE DEF from
  <2>2. Grown(from, n)
    BY <1>5 DEF from
  <2> QED
    BY <2>1, <2>2, <1>3, <1>4, StreamGrows
<1>8. Len(stream') = Len(stream) + n /\ stream' \in Seq(WireByte)
  BY <1>5 DEF Grown
<1>9. /\ At(Len(log))' = At(Len(log)) /\ Current' = Current
      /\ EndOf(Len(log))' = At(Len(log)) + HeaderSize + DataSize[Current]
  BY <1>4 DEF At, Current, Sent, EndOf
<1>10. \/ wOffset + n = DataSize[Current] /\ wState' = "Ready"
       \/ wOffset + n # DataSize[Current] /\ wState' = "CopyingData"
  BY <1>3 DEF WriteData
<1>11. TypeOK'
  <2>1. wState' \in WriterState /\ wOffset' \in Nat
    BY <1>3, <1>4, <1>10 DEF WriterState
  <2> QED
    BY <2>1, <1>4, <1>8 DEF TransferInv, TypeOK, readerVars
<1>12. WriterPosition'
  <2>0. /\ log' # << >> /\ Len(log)' = Len(log)
        /\ torn' # 0 => torn' # Len(log')
    BY <1>1, <1>3, <1>4, WriterBusy DEF TransferInv, TypeOK
  <2>1. CASE wState' = "Ready"
    BY <2>0, <2>1, <1>2, <1>3, <1>4, <1>6, <1>8, <1>9, <1>10 DEF WriterPosition
  <2>2. CASE wState' = "CopyingData"
    <3>1. wOffset + n < DataSize[Current]
      BY <2>2, <1>2, <1>3, <1>10
    <3>2. Len(stream') = At(Len(log)) + HeaderSize + wOffset'
      BY <1>2, <1>3, <1>4, <1>6, <1>8
    <3> QED
      BY <2>0, <2>2, <3>1, <3>2, <1>4, <1>9 DEF WriterPosition
  <2> QED
    BY <2>1, <2>2, <1>10
<1> QED
  BY <1>7, <1>11, <1>12 DEF TransferInv

(* An object of which nothing was written is taken out of the log: the     *)
(* stream still ends where the next one will begin.                        *)
LEMMA WithdrawInv ==
  ASSUME TransferInv, WriteFails, wState = "CopyingHeader", wOffset = 0
  PROVE  TransferInv'
<1> SUFFICES ASSUME NEW n \in Nat, n = Len(log)
             PROVE  TransferInv'
  BY Bounds
<1>1. /\ wState' = "Ready" /\ UNCHANGED <<wOffset, stream, torn>>
      /\ UNCHANGED <<taken, rState, rOffset, rHeader, rBuf, rBufSize, received, lost>>
      /\ log' = SubSeq(log, 1, n - 1)
  BY DEF WriteFails, readerVars
<1>2. /\ n \in Nat /\ n \in 1 .. n /\ log \in Seq(LogEntry) /\ Len(stream) < EndOf(n)
      /\ Coming \in 1 .. n /\ Len(stream) = At(n) /\ Len(stream) \in Nat
      /\ torn # 0 => torn + 1 \in 1 .. n /\ Sound = At(torn + 1)
  <2>1. Len(stream) = At(n) + wOffset
    BY DEF TransferInv, WriterPosition
  <2>2. At(n) \in Nat
    BY WriterBusy, LogTypes DEF TransferInv
  <2> QED
    BY <2>1, <2>2, WriterBusy DEF TransferInv, TypeOK
<1>3. /\ log' \in Seq(LogEntry) /\ Len(log') = n - 1
      /\ \A k \in 1 .. n - 1 : log'[k] = log[k]
  <2>1. n - 1 \in 0 .. Len(log) /\ 1 \in 1 .. Len(log) + 1
    BY <1>2
  <2> QED
    BY <2>1, <1>1, <1>2, SubSeqProperties
<1>4. \A k \in 1 .. n - 1 :
        At(k)' = At(k) /\ Sent(k)' = Sent(k) /\ EndOf(k)' = EndOf(k)
  BY <1>3 DEF At, Sent, EndOf
<1>5. /\ torn \in 0 .. n /\ Sound \in Nat /\ Sound <= Len(stream)
      /\ Len(received) \in Nat /\ taken \in Nat /\ lost \in BOOLEAN
      /\ Coming' = Coming
  BY <1>1, Bounds DEF Coming
<1>6. \A k \in 1 .. n : StartOf(k)' = StartOf(k)
  <2> SUFFICES ASSUME NEW k \in 1 .. n PROVE StartOf(k)' = StartOf(k)
    OBVIOUS
  <2>1. CASE k = n
    BY <2>1, <1>1, <1>2, <1>3 DEF StartOf
  <2>2. CASE k \in 1 .. n - 1
    BY <2>2, <1>2, <1>3, <1>4 DEF StartOf
  <2> QED
    BY <2>1, <2>2, <1>2
<1>7. /\ torn = 0 => Top = n /\ Top' = n - 1
      /\ torn # 0 => Top = torn /\ Top' = torn /\ torn \in 1 .. n - 1
      /\ Top' \in 0 .. n - 1 /\ Top' <= Top
  BY <1>1, <1>2, <1>3, <1>5 DEF Top
<1>8. Sound' = Sound
  <2>1. CASE torn = 0
    BY <2>1, <1>1 DEF Sound
  <2>2. CASE torn # 0
    <3>1. Sound = StartOf(torn + 1) /\ Sound' = StartOf(torn + 1)'
      BY <2>2, <1>1 DEF Sound, StartOf, At
    <3> QED
      <4> PICK t \in 1 .. n : t = torn + 1
        BY <2>2, <1>2
      <4>1. StartOf(torn + 1)' = StartOf(t)' /\ StartOf(torn + 1) = StartOf(t)
        BY <1>1 DEF StartOf, At
      <4> QED
        BY <3>1, <4>1, <1>6
  <2> QED
    BY <2>1, <2>2
<1>9. TypeOK'
  BY <1>1, <1>3 DEF TransferInv, TypeOK, WriterState
<1>10. LogOrdered'
  <2>1. Len(log') > 0 => At(1)' = 0
    <3> SUFFICES ASSUME n - 1 > 0 PROVE At(1)' = 0
      BY <1>3
    <3>1. At(1)' = At(1)
      BY <1>2, <1>4
    <3> QED
      BY <3>1, <1>2 DEF TransferInv, LogOrdered
  <2>2. ASSUME NEW j \in 1 .. Top', NEW k \in 1 .. Top'
        PROVE  /\ j < k => EndOf(j)' <= At(k)'
               /\ k = j + 1 => EndOf(j)' = At(k)'
    <3>1. j \in 1 .. Top /\ k \in 1 .. Top /\ j \in 1 .. n - 1 /\ k \in 1 .. n - 1
      BY <1>2, <1>5, <1>7
    <3> QED
      BY <3>1, <1>4 DEF TransferInv, LogOrdered
  <2>3. torn # 0 => /\ torn <= Len(log')
                    /\ At(torn)' <= Sound' /\ Sound' < EndOf(torn)'
                    /\ Sound' <= Len(stream)
    <3> SUFFICES ASSUME torn # 0
                 PROVE  /\ torn <= n - 1
                        /\ At(torn)' <= Sound /\ Sound < EndOf(torn)'
                        /\ Sound <= Len(stream)
      BY <1>3, <1>8
    <3>1. /\ At(torn) <= Sound /\ Sound < EndOf(torn) /\ Sound <= Len(stream)
          /\ torn \in 1 .. n - 1
      BY <1>7 DEF TransferInv, LogOrdered
    <3>2. At(torn)' = At(torn) /\ EndOf(torn)' = EndOf(torn)
      BY <3>1, <1>1, <1>3 DEF At, EndOf, Sent
    <3> QED
      BY <3>1, <3>2
  <2> QED
    BY <2>1, <2>2, <2>3, <1>1 DEF LogOrdered
<1>11. WriterPosition'
  <2>1. log' = << >> => Len(stream) = 0
    <3> SUFFICES ASSUME log' = << >> PROVE Len(stream) = 0
      OBVIOUS
    <3>1. n = 1
      <4>1. Len(log') = 0
        BY <1>3, EmptySeq
      <4>2. n - 1 = 0
        BY <4>1, <1>3
      <4> QED
        BY <4>2
    <3>2. At(1) = 0
      BY <3>1 DEF TransferInv, LogOrdered
    <3> QED
      BY <3>1, <3>2, <1>2
  <2>2. ASSUME log' # << >>, torn = 0 PROVE Len(stream) = EndOf(Len(log))'
    <3>1. n - 1 \in 1 .. n /\ n - 1 \in 1 .. n - 1
      BY <2>2, <1>2, <1>3
    <3>2. EndOf(n - 1) = At(n)
      <4>1. n - 1 \in 1 .. Top /\ n \in 1 .. Top /\ n = (n - 1) + 1
        BY <2>2, <3>1, <1>2, <1>7
      <4> QED
        BY <4>1 DEF TransferInv, LogOrdered
    <3>3. EndOf(n - 1)' = EndOf(n - 1)
      BY <3>1, <1>4
    <3>4. EndOf(Len(log))' = EndOf(n - 1)'
      BY <1>3 DEF EndOf, At, Sent
    <3> QED
      BY <3>2, <3>3, <3>4, <1>2
  <2> QED
    BY <2>1, <2>2, <1>1 DEF WriterPosition
<1>12. StreamContent'
  <2> SUFFICES ASSUME NEW k \in 1 .. Top',
                      NEW p \in 0 .. HeaderSize + DataSize[Sent(k)'] - 1,
                      At(k)' + p < Sound'
               PROVE  stream[At(k)' + p + 1] = Byte(Sent(k)', p)
    BY <1>1 DEF StreamContent
  <2>1. k \in 1 .. Top /\ k \in 1 .. n - 1
    BY <1>2, <1>5, <1>7
  <2> QED
    BY <2>1, <1>4, <1>8 DEF TransferInv, StreamContent
<1>13. \A k \in 1 .. Len(received) : k \in 1 .. n - 1
  BY <1>2, <1>5 DEF Coming
<1>14. DeliveredInOrder'
  BY <1>1, <1>2, <1>3, <1>4, <1>5, <1>13 DEF TransferInv, DeliveredInOrder, Coming
<1>15. ~lost /\ rState = "LoadingData" => Coming \in 1 .. n - 1 /\ Coming <= Top'
  <2> SUFFICES ASSUME ~lost, rState = "LoadingData"
               PROVE  Coming \in 1 .. n - 1 /\ Coming <= Top'
    OBVIOUS
  <2>1. /\ Coming <= Top /\ taken = At(Coming) + HeaderSize + rOffset
        /\ taken <= Len(stream) /\ rOffset \in Nat
    BY DEF TransferInv, ReaderPosition, TypeOK
  <2>2. Coming # n
    BY <2>1, <1>2, <1>5
  <2> QED
    BY <2>1, <2>2, <1>2, <1>5, <1>7
<1>16. ReaderPosition'
  <2>1. /\ taken' <= Len(stream')
        /\ \A k \in 1 .. Len(received) : EndOf(k)' <= taken'
        /\ rState' = "LoadingHeader" => rOffset' < HeaderSize
        /\ rState' = "LoadingData" => rOffset' < rBufSize'
    BY <1>1, <1>4, <1>13 DEF TransferInv, ReaderPosition
  <2>2. Len(received) <= Top'
    BY <1>2, <1>5, <1>7 DEF TransferInv, ReaderPosition, Coming
  <2>3. StartOf(Coming)' = StartOf(Coming)
    BY <1>2, <1>5, <1>6 DEF StartOf, At
  <2>4. ~lost /\ rState = "LoadingData" => At(Coming)' = At(Coming)
    BY <1>4, <1>5, <1>15 DEF At
  <2> QED
    BY <2>1, <2>2, <2>3, <2>4, <1>1, <1>5, <1>8, <1>15 DEF TransferInv, ReaderPosition
<1>17. ReaderContent'
  <2>1. CASE Coming \in 1 .. n - 1
    <3>1. Sent(Coming)' = Sent(Coming)
      BY <2>1, <1>4, <1>5 DEF Sent
    <3> QED
      BY <3>1, <1>1 DEF TransferInv, ReaderContent
  <2>2. CASE Coming = n
    <3>1. ~lost /\ rState = "LoadingHeader" => rOffset = 0
      <4>1. StartOf(Coming) = Len(stream)
        BY <2>2, <1>2 DEF StartOf
      <4> QED
        BY <4>1, <1>2 DEF TransferInv, ReaderPosition, TypeOK
    <3> QED
      BY <2>2, <3>1, <1>1, <1>2, <1>15 DEF ReaderContent
  <2> QED
    BY <2>1, <2>2, <1>2
<1> QED
  BY <1>9, <1>10, <1>11, <1>12, <1>14, <1>16, <1>17 DEF TransferInv

(* An object of which a part was written ends the sound part of the stream *)
(* there, unless an earlier one does.                                      *)
LEMMA TornInv ==
  ASSUME TransferInv, WriteFails, ~(wState = "CopyingHeader" /\ wOffset = 0)
  PROVE  TransferInv'
<1>1. /\ wState' = "Ready" /\ torn' = Top /\ wState # "Ready"
      /\ UNCHANGED <<wOffset, log, stream>>
      /\ UNCHANGED <<taken, rState, rOffset, rHeader, rBuf, rBufSize, received, lost>>
  BY DEF WriteFails, readerVars
<1>2. /\ log # << >> /\ Len(log) \in 1 .. Len(log)
      /\ Len(stream) < EndOf(Len(log))
  BY <1>1, WriterBusy
<1>3. /\ At(Len(log)) \in Nat /\ Len(stream) \in Nat /\ wOffset \in Nat
      /\ torn \in 0 .. Len(log) /\ Len(log) \in Nat
  BY <1>2, LogTypes, Bounds DEF TransferInv, TypeOK
<1>4. /\ \A k : At(k)' = At(k) /\ Sent(k)' = Sent(k) /\ EndOf(k)' = EndOf(k)
      /\ \A k : StartOf(k)' = StartOf(k)
      /\ Coming' = Coming
  BY <1>1 DEF At, Sent, EndOf, StartOf, Coming
<1>5. Top' = Top /\ Top \in 1 .. Len(log)
  BY <1>1, <1>2, <1>3 DEF Top
<1>6. Sound' = Sound
  <2>1. CASE torn = 0
    <3>1. Sound = Len(stream) /\ torn' = Len(log)
      BY <2>1, <1>1 DEF Sound, Top
    <3>2. Sound' = StartOf(torn' + 1)
      BY <3>1, <1>1, <1>2, <1>3, <1>4 DEF Sound, StartOf, At
    <3> QED
      BY <3>1, <3>2, <1>3 DEF StartOf
  <2>2. CASE torn # 0
    BY <2>2, <1>1, <1>4 DEF Sound, Top, StartOf, At
  <2> QED
    BY <2>1, <2>2
<1>7. At(Len(log)) <= Len(stream)
  <2>1. CASE wState = "CopyingHeader"
    BY <2>1, <1>3 DEF TransferInv, WriterPosition
  <2>2. CASE wState = "CopyingData"
    BY <2>2, <1>3 DEF TransferInv, WriterPosition
  <2> QED
    BY <2>1, <2>2, <1>1 DEF TransferInv, TypeOK, WriterState
<1>8. TypeOK'
  BY <1>1, <1>5 DEF TransferInv, TypeOK, WriterState
<1>9. LogOrdered'
  <2>1. /\ Top <= Len(log) /\ At(Top) <= Sound /\ Sound < EndOf(Top)
        /\ Sound <= Len(stream)
    <3>1. CASE torn = 0
      BY <3>1, <1>2, <1>3, <1>7 DEF Top, Sound
    <3>2. CASE torn # 0
      BY <3>2 DEF TransferInv, LogOrdered, Top
    <3> QED
      BY <3>1, <3>2
  <2>2. At(torn)' = At(Top) /\ EndOf(torn)' = EndOf(Top)
    BY <1>1 DEF At, EndOf, Sent
  <2> QED
    BY <2>1, <2>2, <1>1, <1>4, <1>5, <1>6 DEF TransferInv, LogOrdered
<1>10. WriterPosition'
  BY <1>1, <1>2, <1>5 DEF WriterPosition
<1>11. StreamContent' /\ DeliveredInOrder'
  BY <1>1, <1>4, <1>5, <1>6 DEF TransferInv, StreamContent, DeliveredInOrder
<1>12. StartOf(Coming)' = StartOf(Coming) /\ At(Coming)' = At(Coming) /\ Sent(Coming)' = Sent(Coming)
  BY <1>1, <1>4 DEF StartOf, At, Sent
<1>13. ReaderPosition' /\ ReaderContent'
  BY <1>1, <1>4, <1>5, <1>6, <1>12 DEF TransferInv, ReaderPosition, ReaderContent
<1> QED
  BY <1>8, <1>9, <1>10, <1>11, <1>13 DEF TransferInv

(* A failing write() preserves it either way.                              *)
LEMMA WriteFailsInv ==
  ASSUME TransferInv, WriteFails
  PROVE  TransferInv'
BY WithdrawInv, TornInv

-----------------------------------------------------------------------------
(* Unless it is lost the reader is in the first object it has not          *)
(* delivered; if it was given any byte of it, that object is in the log,   *)
(* and is at most the torn one.                                            *)
LEMMA ReaderBehind ==
  ASSUME TransferInv
  PROVE  /\ Coming \in 1 .. Top + 1
         /\ ~lost /\ Coming \notin 1 .. Top => torn = 0
         /\ ~lost /\ rState = "LoadingHeader" /\ Coming \notin 1 .. Top =>
              taken = Sound
<1>1. /\ Len(received) \in Nat /\ Len(log) \in Nat /\ taken \in Nat
      /\ torn \in 0 .. Len(log) /\ Top \in 0 .. Len(log) /\ Sound \in Nat
  BY Bounds
<1>2. Len(received) <= Top
  BY DEF TransferInv, ReaderPosition
<1>3. Coming \in 1 .. Top + 1
  BY <1>1, <1>2 DEF Coming
<1>4. ASSUME ~lost, Coming \notin 1 .. Top PROVE torn = 0
  <2> SUFFICES ASSUME torn # 0 PROVE FALSE
    OBVIOUS
  <2>1. Top = torn
    BY DEF Top
  <2>2. torn \in 1 .. Len(received) /\ torn \in 1 .. Len(log)
    BY <2>1, <1>1, <1>3, <1>4 DEF Coming
  <2>3. EndOf(torn) <= taken /\ taken <= Sound /\ Sound < EndOf(torn)
    BY <2>2, <1>4 DEF TransferInv, ReaderPosition, LogOrdered
  <2>4. EndOf(torn) \in Nat
    BY <2>2, LogTypes DEF TransferInv
  <2> QED
    BY <2>3, <2>4, <1>1
<1>5. ASSUME ~lost, rState = "LoadingHeader", Coming \notin 1 .. Top
      PROVE  taken = Sound
  <2>1. torn = 0
    BY <1>4, <1>5
  <2>2. Coming = Len(log) + 1 /\ Sound = Len(stream)
    BY <2>1, <1>1, <1>3, <1>5 DEF Top, Sound
  <2>3. StartOf(Coming) = Len(stream)
    BY <2>2, <1>1 DEF StartOf
  <2>4. taken = Len(stream) + rOffset /\ taken <= Len(stream) /\ rOffset \in Nat
    BY <2>3, <1>5 DEF TransferInv, ReaderPosition, TypeOK
  <2> QED
    BY <2>2, <2>4, <1>1
<1> QED
  BY <1>3, <1>4, <1>5

(* Once an object is taken to its end the reader stands where the next one *)
(* starts, or will start.                                                  *)
LEMMA NextStart ==
  ASSUME TransferInv, NEW k \in 1 .. Top, EndOf(k) <= Sound
  PROVE  EndOf(k) = StartOf(k + 1)
<1>1. /\ Len(log) \in Nat /\ Len(stream) \in Nat /\ Sound \in Nat
      /\ Top \in 0 .. Len(log) /\ torn \in Nat
  BY Bounds
<1>2. k \in 1 .. Len(log) /\ EndOf(k) \in Nat
  BY <1>1, LogTypes DEF TransferInv
<1>3. CASE k < Top
  <2>1. k + 1 \in 1 .. Top /\ k + 1 <= Len(log)
    BY <1>1, <1>3
  <2> QED
    BY <2>1 DEF TransferInv, LogOrdered, StartOf
<1>4. CASE k = Top
  <2>1. torn = 0
    <3> SUFFICES ASSUME torn # 0 PROVE FALSE
      OBVIOUS
    <3>1. k = torn
      BY <1>4 DEF Top
    <3>2. Sound < EndOf(k)
      BY <3>1 DEF TransferInv, LogOrdered
    <3> QED
      BY <3>2, <1>1, <1>2
  <2>2. k = Len(log) /\ Sound = Len(stream)
    BY <2>1, <1>4 DEF Top, Sound
  <2>3. wState = "Ready"
    <3> SUFFICES ASSUME wState # "Ready" PROVE FALSE
      OBVIOUS
    <3>1. Len(stream) < EndOf(k)
      BY <2>2, WriterBusy
    <3> QED
      BY <3>1, <2>2, <1>1, <1>2
  <2>4. log # << >>
    BY <2>2, <1>2
  <2>5. EndOf(k) = Len(stream)
    BY <2>1, <2>2, <2>3, <2>4 DEF TransferInv, WriterPosition
  <2> QED
    BY <2>2, <2>5, <1>1 DEF StartOf
<1> QED
  BY <1>1, <1>3, <1>4

(* Storing bytes of the stream leaves a block of the same length.          *)
LEMMA StoredType ==
  ASSUME TransferInv, NEW len \in Nat, NEW block \in [0 .. len - 1 -> Cell],
         NEW offset \in Nat, NEW n \in Nat, taken + n <= Len(stream)
  PROVE  Stored(block, offset, n) \in [0 .. len - 1 -> Cell]
<1>1. /\ stream \in Seq(WireByte) /\ taken \in Nat /\ Len(stream) \in Nat
  BY DEF TransferInv, TypeOK
<1>2. ASSUME NEW p \in 0 .. len - 1, offset <= p, p < offset + n
      PROVE  stream[taken + (p - offset) + 1] \in Cell
  <2>1. taken + (p - offset) + 1 \in 1 .. Len(stream)
    BY <1>1, <1>2
  <2> QED
    BY <2>1, <1>1 DEF Cell
<1> QED
  BY <1>2 DEF Stored

(* Storing n bytes of an object behind the first ones of the same object   *)
(* leaves its first bytes in the block.                                    *)
LEMMA StoredPrefix ==
  ASSUME TransferInv, NEW len \in Nat, NEW block \in [0 .. len - 1 -> Cell],
         NEW m, NEW base \in Nat, NEW offset \in Nat, NEW n \in Nat,
         offset + n <= len, taken + n <= Len(stream),
         Loaded(block, m, base, offset),
         Incoming(m, base + offset, n)
  PROVE  /\ Stored(block, offset, n) \in [0 .. len - 1 -> Cell]
         /\ Loaded(Stored(block, offset, n), m, base, offset + n)
<1>1. /\ stream \in Seq(WireByte) /\ taken \in Nat /\ Len(stream) \in Nat
  BY DEF TransferInv, TypeOK
<1>2. DOMAIN block = 0 .. len - 1
  OBVIOUS
<1>3. ASSUME NEW p \in 0 .. len - 1, offset <= p, p < offset + n
      PROVE  /\ stream[taken + (p - offset) + 1] \in Cell
             /\ stream[taken + (p - offset) + 1] = Byte(m, base + p)
  <2>1. p - offset \in 0 .. n - 1
    BY <1>3
  <2>2. stream[taken + (p - offset) + 1] = Byte(m, base + offset + (p - offset))
    BY <2>1 DEF Incoming
  <2>3. base + offset + (p - offset) = base + p
    OBVIOUS
  <2>4. taken + (p - offset) + 1 \in 1 .. Len(stream)
    BY <2>1, <1>1
  <2>5. stream[taken + (p - offset) + 1] \in WireByte
    BY <2>4, <1>1
  <2> QED
    BY <2>2, <2>3, <2>5 DEF Cell
<1>4. Stored(block, offset, n) \in [0 .. len - 1 -> Cell]
  BY <1>2, <1>3 DEF Stored
<1>5. ASSUME NEW p \in 0 .. offset + n - 1
      PROVE  Stored(block, offset, n)[p] = Byte(m, base + p)
  <2>1. p \in 0 .. len - 1
    OBVIOUS
  <2>2. CASE p < offset
    BY <2>1, <2>2, <1>2 DEF Stored, Loaded
  <2>3. CASE offset <= p
    BY <2>1, <2>3, <1>2, <1>3 DEF Stored
  <2> QED
    BY <2>2, <2>3
<1> QED
  BY <1>4, <1>5 DEF Loaded

(* A step of the reader leaves what is true of the writer alone.           *)
LEMMA WriterUntouched ==
  ASSUME TransferInv, UNCHANGED writerVars
  PROVE  /\ LogOrdered' /\ WriterPosition' /\ StreamContent'
         /\ Len(log') = Len(log) /\ Len(stream') = Len(stream)
         /\ Top' = Top /\ Sound' = Sound
         /\ \A k : At(k)' = At(k) /\ Sent(k)' = Sent(k)
                   /\ EndOf(k)' = EndOf(k) /\ StartOf(k)' = StartOf(k)
         /\ wState' \in WriterState /\ wOffset' \in Nat /\ torn' \in Nat
         /\ log' \in Seq(LogEntry) /\ stream' \in Seq(WireByte)
<1>1. UNCHANGED <<wState, wOffset, log, stream, torn>>
  BY DEF writerVars
<1>2. /\ \A k : At(k)' = At(k) /\ Sent(k)' = Sent(k)
                /\ EndOf(k)' = EndOf(k) /\ StartOf(k)' = StartOf(k)
      /\ At(Len(log))' = At(Len(log)) /\ EndOf(Len(log))' = EndOf(Len(log))
      /\ At(torn)' = At(torn) /\ EndOf(torn)' = EndOf(torn)
      /\ Current' = Current /\ Top' = Top /\ Sound' = Sound
  BY <1>1 DEF At, Sent, EndOf, StartOf, Current, Top, Sound
<1>3. LogOrdered'
  BY <1>1, <1>2 DEF TransferInv, LogOrdered
<1>4. StreamContent'
  BY <1>1, <1>2 DEF TransferInv, StreamContent
<1>5. WriterPosition'
  BY <1>1, <1>2 DEF TransferInv, WriterPosition
<1> QED
  BY <1>1, <1>2, <1>3, <1>4, <1>5 DEF TransferInv, TypeOK

(* What is delivered ends before the bytes taken, however many more are    *)
(* taken.                                                                  *)
LEMMA DeliveredBehind ==
  ASSUME TransferInv, taken' \in Nat, taken <= taken'
  PROVE  \A k \in 1 .. Len(received) : k \in 1 .. Top /\ EndOf(k) <= taken'
<1> SUFFICES ASSUME NEW k \in 1 .. Len(received)
             PROVE  k \in 1 .. Top /\ EndOf(k) <= taken'
  OBVIOUS
<1>1. taken \in Nat /\ Top \in 0 .. Len(log) /\ Len(received) \in Nat /\ Len(log) \in Nat
  BY Bounds
<1>2. EndOf(k) <= taken /\ Len(received) <= Top
  BY DEF TransferInv, ReaderPosition
<1>3. k \in 1 .. Top /\ k \in 1 .. Len(log)
  BY <1>1, <1>2
<1>4. EndOf(k) \in Nat
  BY <1>3, LogTypes DEF TransferInv
<1> QED
  BY <1>1, <1>2, <1>3, <1>4

(* Of a reader that is lost the invariant asks no more than that its       *)
(* offset_ is inside the part it is in.                                    *)
LEMMA LostInv ==
  ASSUME TransferInv, UNCHANGED writerVars, TypeOK', lost', received' = received,
         taken <= taken', taken' <= Len(stream),
         rState' = "LoadingHeader" => rOffset' < HeaderSize,
         rState' = "LoadingData" => rOffset' < rBufSize'
  PROVE  TransferInv'
<1>1. taken' \in Nat
  BY DEF TypeOK
<1>2. \A k \in 1 .. Len(received) : k \in 1 .. Top /\ EndOf(k) <= taken'
  BY <1>1, DeliveredBehind
<1>3. DeliveredInOrder'
  BY WriterUntouched DEF TransferInv, DeliveredInOrder
<1>4. ReaderPosition'
  BY <1>2, WriterUntouched DEF TransferInv, ReaderPosition
<1>5. ReaderContent'
  BY DEF ReaderContent
<1> QED
  BY <1>3, <1>4, <1>5, WriterUntouched DEF TransferInv

(* Reading on, the reader is lost, or has taken sound bytes only.          *)
LEMMA ReadsOnCases ==
  ASSUME TransferInv, taken' \in Nat, ReadsOn
  PROVE  lost' \in BOOLEAN /\ (~lost' => ~lost /\ taken' <= Sound)
<1>1. lost \in BOOLEAN /\ Sound \in Nat
  BY Bounds
<1>2. lost' = (lost \/ taken' > Sound)
  BY DEF ReadsOn
<1>3. lost' \in BOOLEAN
  BY <1>2
<1>4. ASSUME ~lost' PROVE ~lost /\ ~(taken' > Sound)
  BY <1>2, <1>4
<1>5. ~(taken' > Sound) => taken' <= Sound
  BY <1>1
<1> QED
  BY <1>3, <1>4, <1>5

(* Delivering the object that is coming, once it is taken to its end,      *)
(* keeps the deliveries in order and leaves the reader between objects.    *)
LEMMA Delivery ==
  ASSUME TransferInv, UNCHANGED writerVars,
         Coming \in 1 .. Top,
         received' = Append(received, Wire(Sent(Coming))),
         taken' = EndOf(Coming), taken' <= Sound,
         rState' = "Ready"
  PROVE  /\ received' \in Seq(Objects) /\ taken' \in Nat
         /\ DeliveredInOrder' /\ ReaderPosition' /\ ReaderContent'
<1>1. /\ received \in Seq(Objects) /\ Len(received) \in Nat /\ Len(log) \in Nat
      /\ Len(stream) \in Nat /\ taken \in Nat
      /\ Top \in 0 .. Len(log) /\ Sound \in 0 .. Len(stream)
  BY Bounds DEF TransferInv, TypeOK
<1>2. /\ Coming \in 1 .. Len(log)
      /\ Sent(Coming) \in Message /\ EndOf(Coming) \in Nat
  BY <1>1, LogTypes DEF TransferInv
<1>3. Wire(Sent(Coming)) \in Objects
  BY <1>2 DEF Objects
<1>4. /\ received' \in Seq(Objects) /\ Len(received') = Coming
      /\ \A k \in 1 .. Len(received) : received'[k] = received[k]
      /\ received'[Coming] = Wire(Sent(Coming))
  BY <1>1, <1>3, AppendProperties DEF Coming
<1>5. Coming' = Coming + 1
  BY <1>1, <1>4 DEF Coming
<1>6. \A k \in 1 .. Coming : k = Coming \/ k \in 1 .. Len(received)
  BY <1>1 DEF Coming
<1>7. /\ \A k : Sent(k)' = Sent(k) /\ EndOf(k)' = EndOf(k) /\ StartOf(k)' = StartOf(k)
      /\ Len(log') = Len(log) /\ Len(stream') = Len(stream)
      /\ Top' = Top /\ Sound' = Sound /\ log' = log /\ stream' = stream
  BY WriterUntouched DEF writerVars
<1>8. DeliveredInOrder'
  <2>1. \A k \in 1 .. Coming : received'[k] = Wire(Sent(k))
    BY <1>4, <1>6 DEF TransferInv, DeliveredInOrder
  <2>2. Len(received') <= Len(log)
    BY <1>2, <1>4
  <2> QED
    BY <2>1, <2>2, <1>4, <1>7 DEF DeliveredInOrder
<1>9. \A k \in 1 .. Coming : EndOf(k) <= taken'
  <2> SUFFICES ASSUME NEW k \in 1 .. Coming PROVE EndOf(k) <= EndOf(Coming)
    OBVIOUS
  <2>1. CASE k = Coming
    BY <2>1, <1>2
  <2>2. CASE k < Coming
    <3>1. k \in 1 .. Top /\ k \in 1 .. Len(log) /\ EndOf(k) <= At(Coming)
      BY <2>2, <1>1 DEF TransferInv, LogOrdered
    <3>2. EndOf(k) \in Nat /\ At(Coming) \in Nat /\ DataSize[Sent(Coming)] \in Nat
      BY <3>1, <1>2, LogTypes DEF TransferInv
    <3> QED
      BY <3>1, <3>2 DEF EndOf
  <2> QED
    BY <2>1, <2>2, <1>1
<1>10. ReaderPosition'
  <2>1. StartOf(Coming)' = StartOf(Coming + 1)
    BY <1>5, <1>7 DEF StartOf, At
  <2>2. taken' = StartOf(Coming)'
    BY <2>1, NextStart
  <2>3. taken' <= Len(stream') /\ Len(received') <= Top'
    BY <1>1, <1>2, <1>4, <1>7
  <2> QED
    BY <2>2, <2>3, <1>4, <1>7, <1>9 DEF ReaderPosition
<1>11. ReaderContent'
  BY DEF ReaderContent
<1> QED
  BY <1>1, <1>2, <1>4, <1>8, <1>10, <1>11

(* Each action of the reader preserves the invariant.                      *)
LEMMA BeginLoadInv ==
  ASSUME TransferInv, BeginLoad
  PROVE  TransferInv'
<1>1. /\ rState \in {"Ready", "Error"} /\ rState' = "LoadingHeader" /\ rOffset' = 0
      /\ rBuf' = NoData /\ rBufSize' = 0
      /\ UNCHANGED writerVars /\ UNCHANGED <<taken, rHeader, received, lost>>
  BY DEF BeginLoad
<1>2. taken \in Nat /\ taken <= Len(stream)
  BY <1>1 DEF TransferInv, TypeOK, ReaderPosition
<1>3. TypeOK'
  <2>1. NoData \in [DataCells(0) -> Cell]
    BY DEF NoData, Cell
  <2> QED
    BY <2>1, <1>1, WriterUntouched DEF TransferInv, TypeOK, ReaderState
<1>4. CASE lost
  BY <1>1, <1>2, <1>3, <1>4, LostInv
<1>5. CASE ~lost
  <2>1. taken = StartOf(Coming) /\ taken <= Sound
    BY <1>1, <1>5 DEF TransferInv, ReaderPosition
  <2>2. Coming' = Coming /\ StartOf(Coming)' = StartOf(Coming)
    BY <1>1 DEF Coming, StartOf, At, writerVars
  <2>3. ReaderPosition'
    BY <2>1, <2>2, <1>1, <1>2, WriterUntouched DEF TransferInv, ReaderPosition
  <2>4. ReaderContent' /\ DeliveredInOrder'
    BY <1>1, WriterUntouched DEF TransferInv, ReaderContent, DeliveredInOrder
  <2> QED
    BY <2>3, <2>4, <1>1, <1>3, WriterUntouched DEF TransferInv
<1> QED
  BY <1>4, <1>5

(* A failing read() stops the reader where it is: lost, unless it has      *)
(* taken nothing of the next object yet.                                   *)
LEMMA ReadFailsInv ==
  ASSUME TransferInv, ReadFails
  PROVE  TransferInv'
<1>1. /\ rState' = "Error" /\ UNCHANGED writerVars
      /\ rState \in {"LoadingHeader", "LoadingData"}
      /\ UNCHANGED <<taken, rOffset, rHeader, rBuf, rBufSize, received>>
      /\ lost' = (lost \/ rState = "LoadingData" \/ rOffset > 0)
  BY DEF ReadFails
<1>2. /\ taken \in Nat /\ rOffset \in Nat /\ lost \in BOOLEAN
      /\ taken <= Len(stream)
  BY DEF TransferInv, TypeOK, ReaderPosition
<1>3. lost' \in BOOLEAN
  BY <1>1
<1>4. TypeOK'
  BY <1>1, <1>3, WriterUntouched DEF TransferInv, TypeOK, ReaderState
<1>5. CASE lost'
  BY <1>1, <1>2, <1>4, <1>5, LostInv
<1>6. CASE ~lost'
  <2>1. ~lost /\ rState = "LoadingHeader" /\ ~(rOffset > 0)
    BY <1>1, <1>2, <1>6
  <2>2. rOffset = 0
    BY <2>1, <1>2
  <2>3. taken = StartOf(Coming) + rOffset /\ taken <= Sound
    BY <2>1 DEF TransferInv, ReaderPosition
  <2>4. StartOf(Coming) \in Int
    <3>1. Coming \in 1 .. Len(log) => At(Coming) \in Nat
      BY LogTypes DEF TransferInv
    <3> QED
      BY <3>1, Bounds DEF StartOf, Coming
  <2>5. taken = StartOf(Coming)
    BY <2>2, <2>3, <2>4
  <2>6. Coming' = Coming /\ StartOf(Coming)' = StartOf(Coming)
    BY <1>1 DEF Coming, StartOf, At, writerVars
  <2>7. ReaderPosition'
    BY <2>3, <2>5, <2>6, <1>1, <1>2, WriterUntouched DEF TransferInv, ReaderPosition
  <2>8. ReaderContent' /\ DeliveredInOrder'
    BY <1>1, WriterUntouched DEF TransferInv, ReaderContent, DeliveredInOrder
  <2> QED
    BY <2>7, <2>8, <1>1, <1>4, WriterUntouched DEF TransferInv
<1> QED
  BY <1>5, <1>6

(* A read() of data bytes extends the loaded prefix; the last one delivers *)
(* the object.  A lost reader just fills its buffer.                       *)
LEMMA ReadDataInv ==
  ASSUME TransferInv, NEW n \in 0 .. MaxRamSize, ReadData(n)
  PROVE  TransferInv'
<1>1. /\ rState = "LoadingData"
      /\ rBuf' = Stored(rBuf, rOffset, n) /\ taken' = taken + n
      /\ rOffset' = rOffset + n /\ UNCHANGED writerVars
      /\ UNCHANGED <<rHeader, rBufSize>>
      /\ ReadsOn
      /\ IF rOffset + n = rBufSize
           THEN rState' = "Ready" /\ HandsOver([header |-> rHeader, data |-> rBuf'])
           ELSE UNCHANGED <<rState, received>>
  BY DEF ReadData
<1>2. /\ taken \in Nat /\ rOffset \in Nat /\ rBufSize \in Nat /\ n \in Nat
      /\ Len(stream) \in Nat /\ Len(log) \in Nat
  BY DEF TransferInv, TypeOK
<1>3. taken + n <= Len(stream) /\ rOffset + n <= rBufSize
  <2>1. Unread = Len(stream) - taken /\ Unread \in Int
    BY <1>2 DEF Unread
  <2>2. rBufSize - rOffset \in Int
    BY <1>2
  <2> DEFINE least == Least(Unread, rBufSize - rOffset)
  <2>3. least \in Int /\ least <= Unread /\ least <= rBufSize - rOffset
    BY <2>1, <2>2, LeastBounds
  <2>4. n <= least
    BY <2>3 DEF ReadData
  <2> HIDE DEF least
  <2> QED
    BY <2>1, <2>2, <2>3, <2>4, <1>2
<1>4. rBuf \in [0 .. rBufSize - 1 -> Cell]
  BY DEF TransferInv, TypeOK, DataCells
<1>5. rBuf' \in [DataCells(rBufSize') -> Cell]
  <2>1. Stored(rBuf, rOffset, n) \in [0 .. rBufSize - 1 -> Cell]
    BY <1>2, <1>3, <1>4, StoredType
  <2> QED
    BY <2>1, <1>1 DEF DataCells
<1>6. /\ rOffset' \in Nat /\ rBufSize' \in Nat /\ rHeader' \in [HeaderCells -> Cell]
      /\ taken' \in Nat /\ rState' \in ReaderState
      /\ taken <= taken' /\ taken' <= Len(stream)
      /\ rState' \in {"Ready", "LoadingData"}
      /\ rState' = "LoadingData" => rOffset' < rBufSize'
  BY <1>1, <1>2, <1>3 DEF TransferInv, TypeOK, ReaderState
<1>7. lost' \in BOOLEAN /\ (~lost' => ~lost /\ taken' <= Sound)
  BY <1>1, <1>6, ReadsOnCases
<1>8. received' \in Seq(Objects) => TypeOK'
  BY <1>1, <1>5, <1>6, <1>7, WriterUntouched DEF TypeOK
<1>9. CASE lost'
  <2>1. received' = received
    BY <1>1, <1>9 DEF HandsOver
  <2>2. TypeOK'
    BY <2>1, <1>8 DEF TransferInv, TypeOK
  <2> QED
    BY <2>1, <2>2, <1>1, <1>6, <1>9, LostInv
<1>10. CASE ~lost'
  <2> DEFINE m == Sent(Coming)
  <2>1. ~lost /\ taken' <= Sound /\ taken + n <= Sound
    BY <1>1, <1>7, <1>10
  <2>2. /\ Coming \in 1 .. Top /\ Coming \in 1 .. Len(log) /\ rOffset < rBufSize
        /\ taken = At(Coming) + HeaderSize + rOffset
    BY <2>1, <1>1, <1>2, ReaderBehind, Bounds DEF TransferInv, ReaderPosition
  <2>3. /\ rHeader = HeaderOf(m) /\ rBufSize = DataSize[m]
        /\ Loaded(rBuf, m, HeaderSize, rOffset)
    BY <2>1, <1>1 DEF TransferInv, ReaderContent, Loaded
  <2>4. m \in Message /\ At(Coming) \in Nat /\ EndOf(Coming) = At(Coming) + HeaderSize + rBufSize
    BY <2>2, <2>3, LogTypes DEF TransferInv, EndOf
  <2> HIDE DEF m
  <2>5. Incoming(m, HeaderSize + rOffset, n)
    <3>1. HeaderSize + rOffset \in Nat
      BY <1>2
    <3>2. taken = At(Coming) + (HeaderSize + rOffset)
      BY <1>2, <2>2, <2>4
    <3>3. HeaderSize + rOffset + n <= HeaderSize + DataSize[Sent(Coming)]
      BY <1>2, <1>3, <2>3 DEF m
    <3> QED
      BY <3>1, <3>2, <3>3, <1>2, <2>1, <2>2, BytesComing DEF m
  <2>6. Loaded(rBuf', m, HeaderSize, rOffset')
    <3>1. HeaderSize \in Nat
      OBVIOUS
    <3>2. Loaded(Stored(rBuf, rOffset, n), m, HeaderSize, rOffset + n)
      BY <3>1, <1>2, <1>3, <1>4, <2>3, <2>5, StoredPrefix
    <3> QED
      BY <3>2, <1>1
  <2>7. CASE rOffset + n = rBufSize
    <3>1. rBuf' = DataOf(m)
      <4>1. DataOf(m) = [p \in 0 .. rBufSize - 1 |-> Byte(m, HeaderSize + p)]
        BY <2>3 DEF DataOf, DataCells
      <4>2. \A p \in 0 .. rBufSize - 1 : rBuf'[p] = Byte(m, HeaderSize + p)
        <5>1. rOffset' = rBufSize
          BY <1>1, <2>7
        <5> QED
          BY <5>1, <2>6 DEF Loaded
      <4>3. rBuf' \in [0 .. rBufSize - 1 -> Cell]
        BY <1>1, <1>5 DEF DataCells
      <4> QED
        BY <4>1, <4>2, <4>3
    <3>2. received' = Append(received, Wire(Sent(Coming))) /\ rState' = "Ready"
      BY <3>1, <1>1, <1>10, <2>3, <2>7 DEF Wire, m, HandsOver
    <3>3. taken' = EndOf(Coming)
      <4>1. taken + n = At(Coming) + HeaderSize + rBufSize
        <5>1. At(Coming) \in Nat /\ taken = At(Coming) + HeaderSize + rOffset
          BY <2>2, <2>4
        <5> QED
          BY <5>1, <2>7, <1>2
      <4> QED
        BY <4>1, <1>1, <2>4
    <3>4. /\ received' \in Seq(Objects)
          /\ DeliveredInOrder' /\ ReaderPosition' /\ ReaderContent'
      BY <3>2, <3>3, <1>1, <2>1, <2>2, Delivery
    <3> QED
      BY <3>4, <1>1, <1>8, WriterUntouched DEF TransferInv
  <2>8. CASE rOffset + n # rBufSize
    <3>1. rState' = "LoadingData" /\ received' = received
      BY <1>1, <2>8
    <3>2. Coming' = Coming
      BY <3>1 DEF Coming
    <3>3. /\ At(Coming)' = At(Coming) /\ Sent(Coming)' = m
          /\ \A k : EndOf(k)' = EndOf(k) /\ Sent(k)' = Sent(k)
          /\ Len(log') = Len(log) /\ Len(stream') = Len(stream)
          /\ Top' = Top /\ Sound' = Sound
      BY <3>2, <1>1, WriterUntouched DEF At, Sent, m, writerVars
    <3>4. TypeOK'
      BY <3>1, <1>8 DEF TransferInv, TypeOK
    <3>5. ReaderPosition'
      <4>1. taken' = At(Coming) + HeaderSize + rOffset' /\ rOffset' < rBufSize'
        BY <1>1, <1>2, <1>6, <2>2, <2>4, <3>1
      <4>2. \A k \in 1 .. Len(received) : EndOf(k) <= taken'
        BY <1>6, DeliveredBehind
      <4>3. taken' <= Len(stream') /\ Coming' <= Top' /\ Len(received') <= Top'
        BY <1>6, <2>2, <3>1, <3>2, <3>3 DEF TransferInv, ReaderPosition
      <4> QED
        BY <4>1, <4>2, <4>3, <2>1, <3>1, <3>2, <3>3 DEF ReaderPosition
    <3>6. ReaderContent'
      <4>1. rHeader' = HeaderOf(m) /\ rBufSize' = DataSize[m]
        BY <1>1, <2>3
      <4> QED
        BY <4>1, <2>6, <3>1, <3>3 DEF ReaderContent, Loaded
    <3>7. DeliveredInOrder'
      BY <3>1, <3>3 DEF TransferInv, DeliveredInOrder
    <3> QED
      BY <3>4, <3>5, <3>6, <3>7, <1>1, WriterUntouched DEF TransferInv
  <2> QED
    BY <2>7, <2>8
<1> QED
  BY <1>9, <1>10

(* Once the header of the object that is coming is complete, it is         *)
(* delivered at once, or its data begin.                                   *)
LEMMA HeaderLoadedInv ==
  ASSUME TransferInv, UNCHANGED writerVars, ~lost', Coming \in 1 .. Top,
         rHeader' = HeaderOf(Sent(Coming)), rHeader' \in [HeaderCells -> Cell],
         taken' = At(Coming) + HeaderSize, taken' <= Sound,
         taken <= taken', lost' \in BOOLEAN,
         HeaderLoaded(DataSize[Sent(Coming)])
  PROVE  TransferInv'
<1> DEFINE m    == Sent(Coming)
           size == DataSize[m]
<1>0. Coming \in 1 .. Len(log) /\ Sound <= Len(stream) /\ Sound \in Nat /\ Top \in Nat
  BY Bounds
<1>1. /\ taken \in Nat /\ Len(stream) \in Nat /\ Len(log) \in Nat
      /\ m \in Message /\ size \in Nat /\ At(Coming) \in Nat
      /\ EndOf(Coming) = At(Coming) + HeaderSize + size
  BY <1>0, LogTypes DEF TransferInv, TypeOK, EndOf
<1>2. taken' \in Nat
  BY <1>1
<1>3. \A k \in 1 .. Len(received) : EndOf(k) <= taken'
  BY <1>2, DeliveredBehind
<1>4. \/ /\ size = 0 /\ rState' = "Ready" /\ rOffset' = HeaderSize
         /\ received' = Append(received, [header |-> rHeader', data |-> NoData])
         /\ UNCHANGED <<rBuf, rBufSize>>
      \/ /\ 0 < size /\ rState' = "LoadingData" /\ rOffset' = 0
         /\ rBuf' = [p \in DataCells(size) |-> Unset] /\ rBufSize' = size
         /\ UNCHANGED received
  BY DEF HeaderLoaded, HandsOver
<1> HIDE DEF m, size
<1>5. CASE rState' = "Ready"
  <2>1. /\ size = 0 /\ rOffset' = HeaderSize /\ UNCHANGED <<rBuf, rBufSize>>
        /\ received' = Append(received, [header |-> rHeader', data |-> NoData])
    BY <1>4, <1>5
  <2>2. NoData = DataOf(m)
    BY <2>1 DEF NoData, DataOf, DataCells, size
  <2>3. received' = Append(received, Wire(Sent(Coming)))
    BY <2>1, <2>2 DEF Wire, m
  <2>4. taken' = EndOf(Coming)
    BY <2>1, <1>1
  <2>5. /\ received' \in Seq(Objects) /\ taken' \in Nat
        /\ DeliveredInOrder' /\ ReaderPosition' /\ ReaderContent'
    BY <2>3, <2>4, <1>5, Delivery
  <2>6. TypeOK'
    BY <2>1, <2>5, <1>5, WriterUntouched DEF TransferInv, TypeOK, ReaderState
  <2> QED
    BY <2>5, <2>6, WriterUntouched DEF TransferInv
<1>6. CASE rState' = "LoadingData"
  <2>1. /\ 0 < size /\ rOffset' = 0 /\ rBufSize' = size /\ received' = received
        /\ rBuf' = [p \in DataCells(size) |-> Unset]
    BY <1>4, <1>6
  <2>2. rBuf' \in [DataCells(rBufSize') -> Cell]
    BY <2>1 DEF Cell
  <2>3. TypeOK'
    BY <2>1, <2>2, <1>1, <1>2, <1>6, WriterUntouched
       DEF TransferInv, TypeOK, ReaderState
  <2>4. Coming' = Coming
    BY <2>1 DEF Coming
  <2>5. /\ At(Coming)' = At(Coming) /\ Sent(Coming)' = m
        /\ \A k : EndOf(k)' = EndOf(k) /\ Sent(k)' = Sent(k)
        /\ Len(log') = Len(log) /\ Len(stream') = Len(stream)
        /\ Top' = Top /\ Sound' = Sound
    BY <2>4, WriterUntouched DEF At, Sent, m, writerVars
  <2>6. ReaderPosition'
    <3>1. taken' = At(Coming) + HeaderSize + rOffset' /\ rOffset' < rBufSize'
      BY <2>1, <1>1
    <3>2. taken' <= Len(stream') /\ Coming' <= Top' /\ Len(received') <= Top'
      BY <1>0, <1>1, <1>2, <2>1, <2>4, <2>5 DEF TransferInv, ReaderPosition
    <3> QED
      BY <3>1, <3>2, <1>3, <1>6, <2>1, <2>4, <2>5 DEF ReaderPosition
  <2>7. ReaderContent'
    <3>1. rHeader' = HeaderOf(m)
      BY DEF m
    <3>2. rBufSize' = DataSize[m]
      BY <2>1 DEF size
    <3>3. \A p \in 0 .. rOffset' - 1 : rBuf'[p] = Byte(m, HeaderSize + p)
      <4>1. rOffset' = 0
        BY <2>1
      <4> QED
        BY <4>1
    <3> QED
      BY <3>1, <3>2, <3>3, <1>6, <2>5 DEF ReaderContent
  <2>8. DeliveredInOrder'
    BY <2>1, <2>5 DEF TransferInv, DeliveredInOrder
  <2> QED
    BY <2>3, <2>6, <2>7, <2>8, WriterUntouched DEF TransferInv
<1> QED
  BY <1>4, <1>5, <1>6

(* A reader that is lost with a complete header is in Error, or does with  *)
(* it what its size_ says.                                                 *)
LEMMA HeaderLostInv ==
  ASSUME TransferInv, UNCHANGED writerVars, lost', lost' \in BOOLEAN,
         rHeader' \in [HeaderCells -> Cell], taken' \in Nat,
         taken <= taken', taken' <= Len(stream),
         NEW size \in Int, HeaderLoaded(size)
  PROVE  TransferInv'
<1>1. /\ received' = received
      /\ \/ /\ rState' \in {"Ready", "Error"} /\ rOffset' = HeaderSize
            /\ UNCHANGED <<rBuf, rBufSize>>
         \/ /\ 0 < size /\ rState' = "LoadingData" /\ rOffset' = 0
            /\ rBuf' = [p \in DataCells(size) |-> Unset] /\ rBufSize' = size
  BY DEF HeaderLoaded, HandsOver
<1>2. CASE UNCHANGED <<rBuf, rBufSize>> /\ rState' # "LoadingData"
  <2>1. TypeOK'
    BY <1>1, <1>2, WriterUntouched DEF TransferInv, TypeOK, ReaderState
  <2>2. rState' # "LoadingHeader"
    BY <1>1
  <2> QED
    BY <2>1, <2>2, <1>1, <1>2, LostInv
<1>3. CASE rState' = "LoadingData"
  <2>1. /\ 0 < size /\ rOffset' = 0 /\ rBufSize' = size
        /\ rBuf' = [p \in DataCells(size) |-> Unset]
    BY <1>1, <1>3
  <2>2. rBuf' \in [DataCells(rBufSize') -> Cell] /\ rBufSize' \in Nat
    BY <2>1 DEF Cell
  <2>3. TypeOK'
    BY <2>1, <2>2, <1>1, <1>3, WriterUntouched DEF TransferInv, TypeOK, ReaderState
  <2> QED
    BY <2>1, <2>3, <1>1, <1>3, LostInv
<1> QED
  BY <1>1, <1>2, <1>3

(* The number of bytes a read() of the header may yield.                   *)
LEMMA HeaderBounds ==
  ASSUME TransferInv, NEW n \in 0 .. HeaderSize, ReadHeader(n)
  PROVE  /\ taken + n <= Len(stream) /\ rOffset + n <= HeaderSize
         /\ taken' = taken + n /\ taken' \in Nat
         /\ rState = "LoadingHeader" /\ rOffset \in Nat /\ rOffset < HeaderSize
         /\ rHeader' \in [HeaderCells -> Cell]
<1>1. /\ rState = "LoadingHeader" /\ taken' = taken + n
      /\ rHeader' = Stored(rHeader, rOffset, n)
  BY DEF ReadHeader
<1>2. /\ taken \in Nat /\ rOffset \in Nat /\ n \in Nat /\ HeaderSize \in Nat
      /\ Len(stream) \in Nat /\ Len(log) \in Nat
  BY DEF TransferInv, TypeOK
<1>3. taken + n <= Len(stream) /\ rOffset + n <= HeaderSize
  <2>1. Unread = Len(stream) - taken /\ Unread \in Int
    BY <1>2 DEF Unread
  <2>2. HeaderSize - rOffset \in Int
    BY <1>2
  <2> DEFINE least == Least(Unread, HeaderSize - rOffset)
  <2>3. least \in Int /\ least <= Unread /\ least <= HeaderSize - rOffset
    BY <2>1, <2>2, LeastBounds
  <2>4. n <= least
    BY <2>3 DEF ReadHeader
  <2> HIDE DEF least
  <2> QED
    BY <2>1, <2>2, <2>3, <2>4, <1>2
<1>4. rOffset < HeaderSize
  BY <1>1 DEF TransferInv, ReaderPosition
<1>5. rHeader' \in [HeaderCells -> Cell]
  <2>1. rHeader \in [0 .. HeaderSize - 1 -> Cell]
    BY DEF TransferInv, TypeOK, HeaderCells
  <2>2. Stored(rHeader, rOffset, n) \in [0 .. HeaderSize - 1 -> Cell]
    BY <2>1, <1>2, <1>3, StoredType
  <2> QED
    BY <2>2, <1>1 DEF HeaderCells
<1> QED
  BY <1>1, <1>2, <1>3, <1>4, <1>5

(* A read() of header bytes extends the loaded prefix of the header of the *)
(* object that comes next.                                                 *)
LEMMA HeaderPrefix ==
  ASSUME TransferInv, NEW n \in 0 .. HeaderSize, ReadHeader(n),
         ~lost, taken + n <= Sound
  PROVE  /\ taken = StartOf(Coming) + rOffset
         /\ Coming \notin 1 .. Top => n = 0
         /\ Loaded(rHeader', Sent(Coming), 0, rOffset + n)
<1> DEFINE m == Sent(Coming)
<1>1. rState = "LoadingHeader" /\ rHeader' = Stored(rHeader, rOffset, n)
  BY DEF ReadHeader
<1>2. /\ taken \in Nat /\ rOffset \in Nat /\ n \in Nat /\ HeaderSize \in Nat
      /\ Len(stream) \in Nat /\ Len(log) \in Nat /\ Sound \in Nat
      /\ Top \in 0 .. Len(log)
  BY Bounds DEF TransferInv, TypeOK
<1>3. taken + n <= Len(stream) /\ rOffset + n <= HeaderSize
  BY HeaderBounds
<1>4. rOffset < HeaderSize /\ taken = StartOf(Coming) + rOffset
  BY <1>1 DEF TransferInv, ReaderPosition
<1>5. Coming \notin 1 .. Top => n = 0
  BY <1>1, <1>2, ReaderBehind
<1>6. Coming \in 1 .. Top =>
        /\ Coming \in 1 .. Len(log)
        /\ m \in Message /\ DataSize[m] \in Nat
        /\ At(Coming) \in Nat /\ taken = At(Coming) + rOffset
  BY <1>2, <1>4, LogTypes DEF TransferInv, StartOf
<1>7. Incoming(m, rOffset, n)
  <2>1. CASE Coming \in 1 .. Top
    <3>1. rOffset + n <= HeaderSize + DataSize[Sent(Coming)]
      BY <2>1, <1>2, <1>3, <1>6
    <3> QED
      BY <2>1, <3>1, <1>2, <1>6, BytesComing
  <2>2. CASE Coming \notin 1 .. Top
    BY <2>2, <1>5 DEF Incoming
  <2> QED
    BY <2>1, <2>2
<1> HIDE DEF m
<1>8. Loaded(rHeader, m, 0, rOffset)
  BY <1>1 DEF TransferInv, ReaderContent, Loaded, m
<1>9. Loaded(rHeader', m, 0, rOffset + n)
  <2>1. 0 + rOffset = rOffset /\ 0 \in Nat
    BY <1>2
  <2>2. rHeader \in [0 .. HeaderSize - 1 -> Cell]
    BY DEF TransferInv, TypeOK, HeaderCells
  <2>3. Incoming(m, 0 + rOffset, n)
    BY <2>1, <1>7
  <2>4. Loaded(Stored(rHeader, rOffset, n), m, 0, rOffset + n)
    BY <2>1, <2>2, <2>3, <1>2, <1>3, <1>8, StoredPrefix
  <2> QED
    BY <2>4, <1>1
<1> QED
  BY <1>4, <1>5, <1>9 DEF m

(* A header that is complete is the one of the object that comes next.     *)
LEMMA HeaderComplete ==
  ASSUME TransferInv, NEW n \in 0 .. HeaderSize, ReadHeader(n),
         ~lost, taken + n <= Sound, rOffset + n = HeaderSize
  PROVE  /\ Coming \in 1 .. Top
         /\ rHeader' = HeaderOf(Sent(Coming))
         /\ HeaderLoaded(DataSize[Sent(Coming)])
<1> DEFINE m == Sent(Coming)
<1>1. rState = "LoadingHeader" /\ rOffset \in Nat /\ rOffset < HeaderSize
  BY HeaderBounds
<1>2. Coming \in 1 .. Top
  BY <1>1, HeaderPrefix
<1>3. rHeader' = HeaderOf(m)
  <2>1. \A p \in HeaderCells : rHeader'[p] = Byte(m, p)
    BY HeaderPrefix DEF Loaded, HeaderCells
  <2>2. rHeader' \in [HeaderCells -> Cell]
    BY HeaderBounds
  <2> QED
    BY <2>1, <2>2 DEF HeaderOf
<1>4. m \in Message
  BY <1>2, Bounds, LogTypes DEF TransferInv
<1>5. SizesIn(rHeader') = {DataSize[m]}
  BY <1>3, <1>4, HeaderNamesObject
<1>6. \E size \in SizesIn(rHeader') : HeaderLoaded(size)
  BY <1>1 DEF ReadHeader
<1> QED
  BY <1>2, <1>3, <1>5, <1>6

(* Whatever the bytes of a header are, its size_ is an integer.            *)
LEMMA SizesAreInts ==
  ASSUME NEW header, NEW size \in SizesIn(header)
  PROVE  size \in Int
<1>1. \A m \in Message : DataSize[m] \in Int
  OBVIOUS
<1>2. \A x \in -1 .. MaxRamSize + 1 : x \in Int
  OBVIOUS
<1> QED
  BY <1>1, <1>2 DEF SizesIn

(* The last read() of header bytes hands over to HeaderLoaded.             *)
LEMMA ReadHeaderInv ==
  ASSUME TransferInv, NEW n \in 0 .. HeaderSize, ReadHeader(n)
  PROVE  TransferInv'
<1>1. /\ UNCHANGED writerVars
      /\ \/ /\ rOffset + n < HeaderSize
            /\ rOffset' = rOffset + n
            /\ ReadsOn
            /\ UNCHANGED <<rState, rBuf, rBufSize, received>>
         \/ /\ rOffset + n = HeaderSize
            /\ \E size \in SizesIn(rHeader') : HeaderLoaded(size)
  BY DEF ReadHeader
<1>2. /\ taken \in Nat /\ rOffset \in Nat /\ n \in Nat /\ HeaderSize \in Nat
      /\ Len(stream) \in Nat /\ Len(log) \in Nat /\ Sound \in Nat
      /\ Top \in 0 .. Len(log) /\ lost \in BOOLEAN
  BY Bounds DEF TransferInv, TypeOK
<1>3. /\ rState = "LoadingHeader" /\ rOffset < HeaderSize /\ rOffset + n <= HeaderSize
      /\ taken' = taken + n /\ taken' \in Nat
      /\ taken <= taken' /\ taken' <= Len(stream)
      /\ rHeader' \in [HeaderCells -> Cell]
  BY <1>2, HeaderBounds
<1>4. ReadsOn => lost' \in BOOLEAN /\ (~lost' => ~lost /\ taken' <= Sound)
  BY <1>3, ReadsOnCases
<1>5. CASE rOffset + n < HeaderSize
  <2>1. /\ rOffset' = rOffset + n /\ UNCHANGED <<rState, rBuf, rBufSize, received>>
        /\ ReadsOn
    BY <1>1, <1>2, <1>5
  <2>2. TypeOK'
    BY <2>1, <1>1, <1>2, <1>3, <1>4, WriterUntouched DEF TransferInv, TypeOK
  <2>3. CASE lost'
    BY <2>1, <2>2, <2>3, <1>1, <1>3, <1>5, LostInv
  <2>4. CASE ~lost'
    <3> DEFINE m == Sent(Coming)
    <3>1. ~lost /\ taken' <= Sound /\ taken + n <= Sound
      BY <2>1, <2>4, <1>3, <1>4
    <3>2. taken = StartOf(Coming) + rOffset /\ Loaded(rHeader', m, 0, rOffset + n)
      BY <3>1, HeaderPrefix
    <3> HIDE DEF m
    <3>3. Coming' = Coming
      BY <2>1 DEF Coming
    <3>4. /\ StartOf(Coming)' = StartOf(Coming) /\ Sent(Coming)' = m
          /\ \A k : EndOf(k)' = EndOf(k) /\ Sent(k)' = Sent(k)
          /\ Len(log') = Len(log) /\ Len(stream') = Len(stream)
          /\ Top' = Top /\ Sound' = Sound
      BY <3>3, <1>1, WriterUntouched DEF StartOf, At, Sent, m, writerVars
    <3>5. ReaderPosition'
      <4>1. \A k \in 1 .. Len(received) : EndOf(k) <= taken'
        BY <1>3, DeliveredBehind
      <4>2. StartOf(Coming) \in Int
        <5>1. Coming \in 1 .. Len(log) => At(Coming) \in Nat
          BY LogTypes DEF TransferInv
        <5> QED
          BY <5>1, Bounds DEF StartOf, Coming
      <4>3. taken' = StartOf(Coming) + rOffset' /\ rOffset' < HeaderSize
        BY <4>2, <2>1, <1>2, <1>3, <1>5, <3>2
      <4>4. taken' <= Len(stream') /\ Len(received') <= Top' /\ taken' <= Sound'
        BY <2>1, <3>1, <3>4, <1>3 DEF TransferInv, ReaderPosition
      <4> QED
        BY <4>1, <4>3, <4>4, <2>1, <3>3, <3>4, <1>3 DEF ReaderPosition
    <3>6. ReaderContent'
      <4>1. rOffset' = rOffset + n /\ rState' = "LoadingHeader"
        BY <2>1, <1>3
      <4>2. \A p \in 0 .. rOffset' - 1 : rHeader'[p] = Byte(m, p)
        BY <4>1, <3>2 DEF Loaded
      <4> QED
        BY <4>1, <4>2, <3>4 DEF ReaderContent
    <3>7. DeliveredInOrder'
      BY <2>1, <3>4 DEF TransferInv, DeliveredInOrder
    <3> QED
      BY <2>2, <3>5, <3>6, <3>7, <1>1, WriterUntouched DEF TransferInv
  <2> QED
    BY <2>3, <2>4
<1>6. CASE rOffset + n = HeaderSize
  <2>1. PICK size \in SizesIn(rHeader') : HeaderLoaded(size)
    BY <1>1, <1>2, <1>6
  <2>2. lost' = TRUE \/ ReadsOn
    BY <2>1 DEF HeaderLoaded
  <2>3. lost' \in BOOLEAN
    BY <2>2, <1>4
  <2>4. CASE lost'
    BY <2>1, <2>3, <2>4, <1>1, <1>3, SizesAreInts, HeaderLostInv
  <2>5. CASE ~lost'
    <3>1. ~lost /\ taken' <= Sound /\ taken + n <= Sound
      BY <2>2, <2>5, <1>3, <1>4
    <3>2. /\ Coming \in 1 .. Top /\ Coming \in 1 .. Len(log)
          /\ rHeader' = HeaderOf(Sent(Coming))
          /\ HeaderLoaded(DataSize[Sent(Coming)])
      BY <3>1, <1>2, <1>6, HeaderComplete
    <3>3. taken' = At(Coming) + HeaderSize
      <4>1. taken = At(Coming) + rOffset
        BY <3>1, <3>2, HeaderPrefix DEF StartOf
      <4>2. At(Coming) \in Nat
        BY <3>2, LogTypes DEF TransferInv
      <4> QED
        BY <4>1, <4>2, <1>2, <1>3, <1>6
    <3> QED
      BY <3>1, <3>2, <3>3, <2>3, <2>5, <1>1, <1>3, HeaderLoadedInv
  <2> QED
    BY <2>4, <2>5
<1> QED
  BY <1>1, <1>5, <1>6

(* A step that changes nothing preserves it.                               *)
LEMMA StutterInv ==
  ASSUME TransferInv, UNCHANGED vars
  PROVE  TransferInv'
<1>1. UNCHANGED writerVars /\ UNCHANGED readerVars
  BY DEF vars, writerVars, readerVars
<1>2. Coming' = Coming
  BY <1>1 DEF Coming, readerVars
<1>3. /\ At(Coming)' = At(Coming) /\ Sent(Coming)' = Sent(Coming)
      /\ StartOf(Coming)' = StartOf(Coming)
  BY <1>1, <1>2 DEF At, Sent, StartOf, writerVars
<1>4. UNCHANGED <<taken, rState, rOffset, rHeader, rBuf, rBufSize, received, lost>>
  BY <1>1 DEF readerVars
<1>5. TypeOK'
  BY <1>1, <1>4, WriterUntouched DEF TransferInv, TypeOK
<1>6. DeliveredInOrder' /\ ReaderPosition' /\ ReaderContent'
  BY <1>1, <1>2, <1>3, <1>4, WriterUntouched
     DEF TransferInv, DeliveredInOrder, ReaderPosition, ReaderContent
<1> QED
  BY <1>1, <1>5, <1>6, WriterUntouched DEF TransferInv

-----------------------------------------------------------------------------
(* At every moment writer, stream and reader agree on which byte of which  *)
(* object comes next, as long as the reader is not lost.                   *)
THEOREM Invariance == Spec => []TransferInv
<1>1. TransferInv /\ [Next]_vars => TransferInv'
  <2> SUFFICES ASSUME TransferInv, [Next]_vars PROVE TransferInv'
    OBVIOUS
  <2>1. ASSUME NEW m \in Message, BeginCopy(m) PROVE TransferInv'
    BY <2>1, BeginCopyInv
  <2>2. ASSUME NEW n \in 0 .. HeaderSize, WriteHeader(n) PROVE TransferInv'
    BY <2>2, WriteHeaderInv
  <2>3. ASSUME NEW n \in 0 .. Capacity, WriteData(n) PROVE TransferInv'
    BY <2>3, WriteDataInv
  <2>4. CASE WriteFails
    BY <2>4, WriteFailsInv
  <2>5. CASE BeginLoad
    BY <2>5, BeginLoadInv
  <2>6. ASSUME NEW n \in 0 .. HeaderSize, ReadHeader(n) PROVE TransferInv'
    BY <2>6, ReadHeaderInv
  <2>7. ASSUME NEW n \in 0 .. MaxRamSize, ReadData(n) PROVE TransferInv'
    BY <2>7, ReadDataInv
  <2>8. CASE ReadFails
    BY <2>8, ReadFailsInv
  <2>9. CASE UNCHANGED vars
    BY <2>9, StutterInv
  <2> QED
    BY <2>1, <2>2, <2>3, <2>4, <2>5, <2>6, <2>7, <2>8, <2>9
       DEF Next, WriterStep, ReaderStep
<1> QED
  BY <1>1, InitInv, PTL DEF Spec

(* No variable ever leaves its type.                                       *)
THEOREM TypeCorrect == Spec => []TypeOK
<1>1. TransferInv => TypeOK
  BY DEF TransferInv
<1> QED
  BY <1>1, Invariance, PTL

(* load_from_fd hands over exactly the objects given to copy_to_fd, byte   *)
(* for byte and in order, however the descriptor cuts reads and writes and *)
(* whatever call fails, until an Error costs a part of an object.          *)
THEOREM InOrder == Spec => []DeliveredInOrder
<1>1. TransferInv => DeliveredInOrder
  BY DEF TransferInv
<1> QED
  BY <1>1, Invariance, PTL

(* Between two downloads the reader stands at an object's first byte, also *)
(* when the last call failed before it took anything.                      *)
THEOREM Aligned == Spec => []ReaderAligned
<1>1. TransferInv => ReaderAligned
  <2> SUFFICES ASSUME TransferInv, rState \in {"Ready", "Error"}, ~lost
               PROVE  taken = IF Len(received) < Len(log)
                                THEN At(Len(received) + 1) ELSE Len(stream)
    BY DEF ReaderAligned
  <2>1. Len(received) \in Nat /\ Len(log) \in Nat
    BY DEF TransferInv, TypeOK
  <2>2. taken = StartOf(Len(received) + 1)
    BY DEF TransferInv, ReaderPosition, Coming
  <2> QED
    BY <2>1, <2>2 DEF StartOf
<1> QED
  BY <1>1, Invariance, PTL

(* No call of copy_to_fd or load_from_fd resumes with nothing left to do   *)
(* in the part it is in, lost or not: the assert(false) of both switches   *)
(* is dead code.                                                           *)
THEOREM AssertsDead == Spec => []AssertsHold
<1>1. TransferInv => AssertsHold
  <2> SUFFICES ASSUME TransferInv PROVE AssertsHold
    OBVIOUS
  <2> QED
    BY DEF TransferInv, WriterPosition, ReaderPosition, AssertsHold
<1> QED
  BY <1>1, Invariance, PTL

(* Only a write() that fails takes anything out of the log.                *)
LEMMA LogSteps ==
  ASSUME [Next]_vars
  PROVE  \/ log' = log
         \/ \E m \in Message : BeginCopy(m)
         \/ WriteFails /\ wState = "CopyingHeader" /\ wOffset = 0
<1>1. ASSUME NEW n \in 0 .. HeaderSize, WriteHeader(n) PROVE log' = log
  BY <1>1 DEF WriteHeader
<1>2. ASSUME NEW n \in 0 .. Capacity, WriteData(n) PROVE log' = log
  BY <1>2 DEF WriteData
<1>3. ASSUME WriteFails
      PROVE  log' = log \/ (wState = "CopyingHeader" /\ wOffset = 0)
  BY <1>3 DEF WriteFails
<1>4. CASE ReaderStep
  BY <1>4 DEF ReaderStep, BeginLoad, ReadHeader, ReadData, writerVars
<1>5. CASE ReadFails
  BY <1>5 DEF ReadFails, writerVars
<1>6. CASE UNCHANGED vars
  BY <1>6 DEF vars
<1> QED
  BY <1>1, <1>2, <1>3, <1>4, <1>5, <1>6 DEF Next, WriterStep

(* A step of the reader's delivers an object, or loses its place, or does  *)
(* neither; one that is lost stays lost and delivers nothing.              *)
LEMMA ReceivedSteps ==
  ASSUME TransferInv, [Next]_vars
  PROVE  \/ received' = received /\ lost' = lost
         \/ log' = log /\ received' = received /\ ~lost /\ lost' = TRUE
         \/ log' = log /\ ~lost /\ lost' = FALSE /\ \E o : received' = Append(received, o)
<1> DEFINE Goal == \/ received' = received /\ lost' = lost
                   \/ log' = log /\ received' = received /\ ~lost /\ lost' = TRUE
                   \/ /\ log' = log /\ ~lost /\ lost' = FALSE
                      /\ \E o : received' = Append(received, o)
<1>0. lost \in BOOLEAN
  BY Bounds
<1>1. ASSUME NEW m \in Message, BeginCopy(m) PROVE Goal
  BY <1>1 DEF BeginCopy, readerVars
<1>2. ASSUME NEW n \in 0 .. HeaderSize, WriteHeader(n) PROVE Goal
  BY <1>2 DEF WriteHeader, readerVars
<1>3. ASSUME NEW n \in 0 .. Capacity, WriteData(n) PROVE Goal
  BY <1>3 DEF WriteData, readerVars
<1>4. CASE WriteFails
  BY <1>4 DEF WriteFails, readerVars
<1>5. CASE BeginLoad
  BY <1>5 DEF BeginLoad
<1>6. ASSUME log' = log,
             \/ received' = received
             \/ \E o : received' = IF lost' THEN received ELSE Append(received, o),
             \/ ReadsOn
             \/ lost' = TRUE
             \/ lost' = (lost \/ rState = "LoadingData" \/ rOffset > 0)
      PROVE  Goal
  <2>1. lost' \in BOOLEAN /\ (lost => lost')
    BY <1>0, <1>6 DEF ReadsOn
  <2>2. \/ received' = received
        \/ ~lost' /\ \E o : received' = Append(received, o)
    BY <1>6
  <2>3. \/ lost' = lost
        \/ ~lost /\ lost' = TRUE
    BY <1>0, <2>1
  <2>4. ~lost' => ~lost /\ lost' = FALSE
    BY <2>1
  <2> QED
    BY <1>6, <2>2, <2>3, <2>4
<1>7. ASSUME NEW n \in 0 .. HeaderSize, ReadHeader(n) PROVE Goal
  <2>1. log' = log
    BY <1>7 DEF ReadHeader, writerVars
  <2>2. \/ received' = received /\ ReadsOn
        \/ \E size \in SizesIn(rHeader') : HeaderLoaded(size)
    BY <1>7 DEF ReadHeader
  <2>3. ASSUME NEW size, HeaderLoaded(size)
        PROVE  /\ \/ received' = received
                  \/ \E o : received' = IF lost' THEN received ELSE Append(received, o)
               /\ ReadsOn \/ lost' = TRUE
    BY <2>3 DEF HeaderLoaded, HandsOver
  <2> QED
    BY <1>6, <2>1, <2>2, <2>3
<1>8. ASSUME NEW n \in 0 .. MaxRamSize, ReadData(n) PROVE Goal
  <2>1. log' = log
    BY <1>8 DEF ReadData, writerVars
  <2>2. /\ \/ received' = received
           \/ \E o : received' = IF lost' THEN received ELSE Append(received, o)
        /\ ReadsOn
    BY <1>8 DEF ReadData, HandsOver
  <2> QED
    BY <1>6, <2>1, <2>2
<1>9. CASE ReadFails
  <2>1. /\ log' = log /\ received' = received
        /\ lost' = (lost \/ rState = "LoadingData" \/ rOffset > 0)
    BY <1>9 DEF ReadFails, writerVars
  <2> QED
    BY <1>6, <2>1
<1>10. CASE UNCHANGED vars
  BY <1>10 DEF vars
<1> QED
  BY <1>1, <1>2, <1>3, <1>4, <1>5, <1>7, <1>8, <1>9, <1>10
     DEF Next, WriterStep, ReaderStep

(* Without faults a reader that has taken sound bytes only and is not in   *)
(* Error gets there with the header of an oversized object, and that only. *)
LEMMA RefusalSteps ==
  ASSUME TransferInv, ~Faults, torn = 0, ~lost, rState # "Error", [Next]_vars,
         rState' = "Error" \/ lost'
  PROVE  /\ log' = log /\ received' = received
         /\ Coming \in 1 .. Len(log)
         /\ DataSize[Sent(Coming)] > MaxRamSize
<1>0. /\ Sound = Len(stream) /\ Len(stream) \in Nat /\ Len(log) \in Nat /\ taken \in Nat
      /\ lost = FALSE /\ Top = Len(log)
  BY Bounds DEF Sound, Top
<1>1. ASSUME NEW n \in 0 .. MaxRamSize, ReadData(n) PROVE FALSE
  <2>1. TransferInv' /\ Len(stream') = Len(stream)
    BY <1>1, ReadDataInv DEF ReadData, writerVars
  <2>2. taken' \in Nat /\ taken' <= Sound /\ ReadsOn
    BY <1>0, <1>1, <2>1 DEF TransferInv, TypeOK, ReaderPosition, ReadData
  <2>3. lost' = FALSE
    BY <1>0, <2>2 DEF ReadsOn
  <2> QED
    BY <1>1, <2>3 DEF ReadData
<1>2. PICK n \in 0 .. HeaderSize : ReadHeader(n)
  <2>1. ASSUME NEW n, WriteHeader(n) \/ WriteData(n) \/ BeginCopy(n) PROVE FALSE
    BY <2>1 DEF WriteHeader, WriteData, BeginCopy, readerVars
  <2>2. ~WriteFails /\ ~ReadFails
    BY DEF WriteFails, ReadFails
  <2>3. ~BeginLoad /\ ~UNCHANGED vars
    BY DEF BeginLoad, vars
  <2> QED
    BY <1>1, <2>1, <2>2, <2>3 DEF Next, WriterStep, ReaderStep
<1>3. taken' = taken + n /\ taken' \in Nat /\ taken' <= Sound /\ taken + n <= Sound
  BY <1>0, <1>2, HeaderBounds
<1>4. ReadsOn => lost' = FALSE
  BY <1>0, <1>3 DEF ReadsOn
<1>5. rOffset + n = HeaderSize
  BY <1>2, <1>4 DEF ReadHeader
<1>6. /\ Coming \in 1 .. Top
      /\ HeaderLoaded(DataSize[Sent(Coming)])
  BY <1>2, <1>3, <1>5, HeaderComplete
<1>7. DataSize[Sent(Coming)] \in Nat
  BY <1>0, <1>6, LogTypes DEF TransferInv
<1>8. DataSize[Sent(Coming)] > MaxRamSize /\ received' = received
  BY <1>4, <1>6, <1>7 DEF HeaderLoaded
<1>9. log' = log
  BY <1>2 DEF ReadHeader, writerVars
<1> QED
  BY <1>0, <1>6, <1>8, <1>9

(* Without faults load_from_fd answers Error, and loses its place, only    *)
(* for an object larger than MAX_DSON_RAM_SIZE: the first such object.     *)
THEOREM RefusesOversize == Spec => []OnlyOversizeRefused
<1>1. Init => OnlyOversizeRefused
  BY DEF Init, OnlyOversizeRefused
<1>2. TransferInv /\ OnlyOversizeRefused /\ [Next]_vars => OnlyOversizeRefused'
  <2> SUFFICES ASSUME TransferInv, OnlyOversizeRefused, [Next]_vars, ~Faults
               PROVE  /\ torn' = 0
                      /\ rState' = "Error" \/ lost' =>
                           /\ Len(received') < Len(log')
                           /\ DataSize[Sent(Len(received) + 1)'] > MaxRamSize
    BY DEF OnlyOversizeRefused
  <2>0. /\ Len(received) \in Nat /\ Len(log) \in Nat /\ MaxRamSize \in Nat
        /\ log \in Seq(LogEntry) /\ torn = 0 /\ lost \in BOOLEAN
    BY Bounds DEF TransferInv, TypeOK, OnlyOversizeRefused
  <2>1. ~WriteFails /\ ~ReadFails
    BY DEF WriteFails, ReadFails
  <2>2. torn' = 0
    BY <2>0, <2>1 DEF Next, WriterStep, ReaderStep, BeginCopy, WriteHeader, WriteData,
                      BeginLoad, ReadHeader, ReadData, writerVars, vars
  <2> SUFFICES ASSUME rState' = "Error" \/ lost'
               PROVE  /\ Len(received') < Len(log')
                      /\ DataSize[Sent(Len(received) + 1)'] > MaxRamSize
    BY <2>2
  <2>3. CASE rState = "Error" \/ lost
    <3>1. /\ Len(received) < Len(log)
          /\ DataSize[Sent(Len(received) + 1)] > MaxRamSize
      BY <2>3 DEF OnlyOversizeRefused
    <3>2. received' = received
      <4>1. CASE lost
        BY <4>1, ReceivedSteps
      <4>2. CASE rState = "Error" /\ ~lost
        <5>1. ASSUME NEW n PROVE ~ReadHeader(n) /\ ~ReadData(n)
          BY <4>2 DEF ReadHeader, ReadData
        <5> QED
          BY <5>1, <2>1 DEF Next, WriterStep, ReaderStep, BeginCopy, WriteHeader, WriteData,
                            BeginLoad, readerVars, vars
      <4> QED
        BY <4>1, <4>2, <2>3
    <3>3. log' = log \/ \E e \in LogEntry : log' = Append(log, e)
      <4>1. ASSUME NEW m \in Message, BeginCopy(m)
            PROVE  \E e \in LogEntry : log' = Append(log, e)
        <5>1. [msg |-> m, at |-> Len(stream)] \in LogEntry
          BY DEF TransferInv, TypeOK, LogEntry
        <5> QED
          BY <4>1, <5>1 DEF BeginCopy
      <4> QED
        BY <2>1, <4>1, LogSteps
    <3>4. /\ Len(log) <= Len(log') /\ Len(log') \in Nat
          /\ log'[Len(received) + 1] = log[Len(received) + 1]
      BY <3>1, <3>3, <2>0
    <3>5. Sent(Len(received) + 1)' = Sent(Len(received) + 1)
      BY <3>2, <3>4 DEF Sent
    <3> QED
      BY <3>1, <3>2, <3>4, <3>5, <2>0
  <2>4. CASE rState # "Error" /\ ~lost
    <3>1. /\ log' = log /\ received' = received
          /\ Coming \in 1 .. Len(log)
          /\ DataSize[Sent(Coming)] > MaxRamSize
      BY <2>0, <2>4, RefusalSteps
    <3>2. Sent(Len(received) + 1)' = Sent(Coming)
      BY <3>1 DEF Sent, Coming
    <3> QED
      BY <3>1, <3>2, <2>0 DEF Coming
  <2> QED
    BY <2>3, <2>4
<1> QED
  BY <1>1, <1>2, Invariance, PTL DEF Spec

-----------------------------------------------------------------------------
(* The writer's side of the refinement: starting an upload sends an        *)
(* object.                                                                 *)
LEMMA BeginSends ==
  ASSUME TransferInv, NEW m \in Message, BeginCopy(m)
  PROVE  SentObjects' = Append(SentObjects, Wire(m)) /\ UNCHANGED <<received, lost>>
<1> DEFINE entry == [msg |-> m, at |-> Len(stream)]
           n     == Len(log)
<1>1. log \in Seq(LogEntry) /\ n \in Nat /\ Len(stream) \in Nat
  BY DEF TransferInv, TypeOK
<1>2. log' = Append(log, entry) /\ UNCHANGED <<received, lost>>
  BY DEF BeginCopy, readerVars
<1>3. entry \in LogEntry
  BY <1>1 DEF LogEntry
<1>4. entry.msg = m
  OBVIOUS
<1> HIDE DEF entry
<1>5. /\ Len(log') = n + 1
      /\ \A k \in 1 .. n : log'[k] = log[k]
      /\ log'[n + 1] = entry
  BY <1>1, <1>2, <1>3, AppendProperties
<1>6. SentObjects' = [k \in 1 .. n + 1 |-> Wire(log'[k].msg)]
  BY <1>5 DEF SentObjects, Sent, Wire, HeaderOf, DataOf
<1>7. /\ SentObjects \in Seq(Objects) /\ Len(SentObjects) = n
      /\ \A k \in 1 .. n : SentObjects[k] = Wire(log[k].msg)
  <2>1. \A k \in 1 .. n : Wire(Sent(k)) \in Objects
    BY LogTypes DEF TransferInv, Objects
  <2> QED
    BY <2>1, <1>1 DEF SentObjects, Sent
<1>8. Wire(m) \in Objects
  BY DEF Objects
<1> DEFINE longer == Append(SentObjects, Wire(m))
<1>9. /\ longer \in Seq(Objects) /\ Len(longer) = n + 1
      /\ \A k \in 1 .. n : longer[k] = SentObjects[k]
      /\ longer[n + 1] = Wire(m)
  BY <1>7, <1>8, AppendProperties
<1> HIDE DEF longer
<1>10. longer = [k \in 1 .. n + 1 |-> longer[k]]
  BY <1>9
<1>11. \A k \in 1 .. n + 1 : longer[k] = Wire(log'[k].msg)
  <2> SUFFICES ASSUME NEW k \in 1 .. n + 1 PROVE longer[k] = Wire(log'[k].msg)
    OBVIOUS
  <2>1. CASE k \in 1 .. n
    BY <2>1, <1>5, <1>7, <1>9
  <2>2. CASE k = n + 1
    BY <2>2, <1>4, <1>5, <1>9
  <2> QED
    BY <2>1, <2>2, <1>1
<1>12. SentObjects' = longer
  BY <1>6, <1>10, <1>11
<1> QED
  BY <1>2, <1>12 DEF longer

(* A call that failed before its first byte takes the object back: it is   *)
(* not sent, and was not received.                                         *)
LEMMA WithdrawTakesBack ==
  ASSUME TransferInv, WriteFails, wState = "CopyingHeader", wOffset = 0
  PROVE  /\ SentObjects' = SubSeq(SentObjects, 1, Len(SentObjects) - 1)
         /\ Len(received) < Len(SentObjects)
         /\ UNCHANGED <<received, lost>>
<1> SUFFICES ASSUME NEW n \in Nat, n = Len(log)
             PROVE  /\ SentObjects' = SubSeq(SentObjects, 1, Len(SentObjects) - 1)
                    /\ Len(received) < Len(SentObjects)
                    /\ UNCHANGED <<received, lost>>
  BY Bounds
<1>1. log' = SubSeq(log, 1, n - 1) /\ UNCHANGED <<received, lost>>
  BY DEF WriteFails, readerVars
<1>2. log \in Seq(LogEntry) /\ n \in 1 .. n /\ Len(received) + 1 \in 1 .. n
  BY WriterBusy DEF TransferInv, TypeOK, Coming
<1>3. /\ Len(log') = n - 1
      /\ \A k \in 1 .. n - 1 : log'[k] = log[k]
  <2>1. n - 1 \in 0 .. Len(log) /\ 1 \in 1 .. Len(log) + 1
    BY <1>2
  <2> QED
    BY <2>1, <1>1, <1>2, SubSeqProperties
<1>4. /\ SentObjects \in Seq(Objects) /\ Len(SentObjects) = n
      /\ \A k \in 1 .. n : SentObjects[k] = Wire(log[k].msg)
  <2>1. \A k \in 1 .. n : Wire(Sent(k)) \in Objects
    BY LogTypes DEF TransferInv, Objects
  <2> QED
    BY <2>1 DEF SentObjects, Sent
<1>5. SentObjects' = [k \in 1 .. n - 1 |-> Wire(log'[k].msg)]
  BY <1>3 DEF SentObjects, Sent, Wire, HeaderOf, DataOf
<1> DEFINE shorter == SubSeq(SentObjects, 1, n - 1)
<1>6. shorter = [k \in 1 .. n - 1 |-> SentObjects[k]]
  <2>1. shorter = [k \in 1 .. (n - 1) - 1 + 1 |-> SentObjects[k + 1 - 1]]
    BY DEF shorter
  <2> QED
    BY <2>1, <1>2
<1>7. \A k \in 1 .. n - 1 : Wire(log'[k].msg) = SentObjects[k]
  BY <1>3, <1>4
<1>8. SentObjects' = shorter
  BY <1>5, <1>6, <1>7
<1>9. Len(received) < n
  BY <1>2, Bounds
<1> QED
  BY <1>1, <1>4, <1>8, <1>9

(* Whatever the sizes of reads and writes and the failures, and whether or *)
(* not the callers go on after them, a connection behaves as the abstract  *)
(* first-in first-out channel of whole objects, which may fail once.       *)
THEOREM Refinement == Spec => ImplementsChannel
<1>1. Init => Channel!Init
  BY DEF Init, Channel!Init, Channel!Reliable!Init, SentObjects
<1>2. TransferInv /\ TransferInv' /\ [Next]_vars => [Channel!Next]_(Channel!vars)
  <2> SUFFICES ASSUME TransferInv, TransferInv', [Next]_vars
               PROVE  \/ \E o \in Objects : /\ SentObjects' = Append(SentObjects, o)
                                            /\ received' = received
                                            /\ lost' = lost
                      \/ /\ Len(received) < Len(SentObjects)
                         /\ SentObjects' = SubSeq(SentObjects, 1, Len(SentObjects) - 1)
                         /\ received' = received /\ lost' = lost
                      \/ /\ ~lost
                         /\ Len(received) < Len(SentObjects)
                         /\ received' = Append(received, SentObjects[Len(received) + 1])
                         /\ SentObjects' = SentObjects /\ lost' = lost
                      \/ /\ ~lost /\ lost' = TRUE
                         /\ SentObjects' = SentObjects /\ received' = received
                      \/ received' = received /\ SentObjects' = SentObjects /\ lost' = lost
    BY DEF Channel!Next, Channel!Send, Channel!Withdraw, Channel!Receive, Channel!Fail,
           Channel!vars, Channel!Reliable!Send, Channel!Reliable!Receive
  <2>1. CASE \E m \in Message : BeginCopy(m)
    <3>1. \A m \in Message : Wire(m) \in Objects
      BY DEF Objects
    <3> QED
      BY <2>1, <3>1, BeginSends
  <2>2. CASE WriteFails /\ wState = "CopyingHeader" /\ wOffset = 0
    BY <2>2, WithdrawTakesBack
  <2>3. CASE log' = log
    <3>1. SentObjects' = SentObjects
      BY <2>3 DEF SentObjects, Sent, Wire, HeaderOf, DataOf
    <3>2. ASSUME NEW o, received' = Append(received, o)
          PROVE  /\ Len(received) < Len(SentObjects)
                 /\ received' = Append(received, SentObjects[Len(received) + 1])
      <4>1. received \in Seq(Objects) /\ Len(received) \in Nat /\ Len(log) \in Nat
        BY DEF TransferInv, TypeOK
      <4>2. Len(received') = Len(received) + 1 /\ received'[Len(received) + 1] = o
        BY <3>2, <4>1
      <4>3. /\ Len(received') <= Len(log)
            /\ \A k \in 1 .. Len(received') : received'[k] = Wire(log[k].msg)
        BY <2>3 DEF TransferInv, DeliveredInOrder, Sent
      <4>4. Len(received) + 1 \in 1 .. Len(log)
        BY <4>1, <4>2, <4>3
      <4>5. o = SentObjects[Len(received) + 1]
        BY <4>1, <4>2, <4>3, <4>4 DEF SentObjects, Sent
      <4>6. Len(SentObjects) = Len(log)
        BY <4>1 DEF SentObjects
      <4> QED
        BY <3>2, <4>1, <4>4, <4>5, <4>6
    <3>3. \/ received' = received /\ lost' = lost
          \/ received' = received /\ ~lost /\ lost' = TRUE
          \/ ~lost /\ lost' = lost /\ \E o : received' = Append(received, o)
      <4>1. lost \in BOOLEAN
        BY Bounds
      <4> QED
        BY <4>1, ReceivedSteps
    <3> QED
      BY <3>1, <3>2, <3>3
  <2> QED
    BY <2>1, <2>2, <2>3, LogSteps
<1> QED
  BY <1>1, <1>2, Invariance, PTL DEF Spec, ImplementsChannel, Channel!Spec
=============================================================================

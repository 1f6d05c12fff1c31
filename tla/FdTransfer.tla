----------------------------- MODULE FdTransfer -----------------------------
(***************************************************************************)
(* One Dson uploads objects to a file descriptor with copy_to_fd_*, one at *)
(* a time, while another Dson, in another thread or process, downloads     *)
(* them from the other end with load_from_fd.                              *)
(*                                                                         *)
(* Both calls are resumable state machines over a descriptor that moves    *)
(* any number of bytes per system call (none at all on EAGAIN), so their   *)
(* steps interleave at every byte.  An action is one case of the switch of *)
(* copy_to_fd_internal or load_from_fd: what the code does from one system *)
(* call to the next.  The callers loop while they get InProcess, and       *)
(* after Error either side may stop or, as most callers do, go on with the *)
(* next object: nothing in the code keeps them from it.                    *)
(*                                                                         *)
(* An object here is a header followed by DataSize bytes held in one       *)
(* buffer; DataSize = 0 is an empty container, which is only a header.     *)
(* How a container emits the bytes of its children is ContainerCopy's      *)
(* subject.                                                                *)
(***************************************************************************)
EXTENDS Integers, Sequences

CONSTANTS
  Message,      (* The objects a program may send.                         *)
  DataSize,     (* Their data_size(), header excluded.                     *)
  HeaderSize,   (* header_size.                                            *)
  MaxRamSize,   (* MAX_DSON_RAM_SIZE, the largest object a loader accepts. *)
  Capacity,     (* Bytes the descriptor holds between writer and reader.   *)
  MaxMessages,  (* Bound: objects sent in a behaviour.                     *)
  Faults,       (* Whether read, write and malloc may fail.                *)
  Unset         (* A byte of memory that was never written.                *)

ASSUME TransferAssumption ==
  /\ DataSize \in [Message -> Nat]
  /\ HeaderSize \in Nat \ {0}
  /\ MaxRamSize \in Nat
  /\ Capacity \in Nat \ {0}
  /\ MaxMessages \in Nat
  /\ Faults \in BOOLEAN

VARIABLES
  wState,    (* Writer's state_.                                          *)
  wOffset,   (* Writer's offset_: bytes of the current part written.      *)
  log,       (* Objects whose upload began: what and where in the stream. *)
  stream,    (* Every byte written to the descriptor so far.              *)
  taken,     (* How many of them the reader has read.                     *)
  rState,    (* Reader's state_.                                          *)
  rOffset,   (* Reader's offset_: bytes of the current part loaded.       *)
  rHeader,   (* Reader's header_.                                         *)
  rBuf,      (* Reader's buf_.                                            *)
  rBufSize,  (* Reader's buf_size_.                                       *)
  received,  (* Objects for which load_from_fd answered Ready, until lost. *)
  (* History variables, of which the code knows nothing.                  *)
  torn,      (* The first object of the log of which only a part was      *)
             (* written when Error was answered; 0: none.                 *)
  lost       (* The reader no longer stands where the writer's objects    *)
             (* begin: an Error made it leave an object half way, or it   *)
             (* read on behind the part that a torn object left.          *)

writerVars == <<wState, wOffset, log, stream, torn>>
readerVars == <<taken, rState, rOffset, rHeader, rBuf, rBufSize, received, lost>>
vars == <<wState, wOffset, log, stream, torn,
          taken, rState, rOffset, rHeader, rBuf, rBufSize, received, lost>>

-----------------------------------------------------------------------------
(***************************************************************************)
(* The bytes on the wire.  A byte is known by the object it belongs to and *)
(* its position there: all the properties need is that it arrives in the   *)
(* right place of the right object.                                        *)
(***************************************************************************)
Byte(m, p) == [msg |-> m, pos |-> p]
WireByte   == [msg : Message, pos : Nat]
Cell       == WireByte \cup {Unset}

HeaderCells  == 0 .. HeaderSize - 1
DataCells(n) == 0 .. n - 1

HeaderOf(m) == [p \in HeaderCells |-> Byte(m, p)]
DataOf(m)   == [p \in DataCells(DataSize[m]) |-> Byte(m, HeaderSize + p)]
NoData      == [p \in DataCells(0) |-> Unset]
Wire(m)     == [header |-> HeaderOf(m), data |-> DataOf(m)]

(* Bytes from .. from + n - 1 of an object, as handed to write().         *)
Piece(m, from, n) == [i \in 1 .. n |-> Byte(m, from + i - 1)]

(* A block of memory at whose offset n bytes of the stream were stored.   *)
Stored(block, offset, n) ==
  [p \in DOMAIN block |->
     IF offset <= p /\ p < offset + n
       THEN stream[taken + (p - offset) + 1]
       ELSE block[p]]

(* data_size() of a loaded header: the sender's if the header is one       *)
(* header, any 32-bit value (negative, too large, ...) if it is not.       *)
SizesIn(header) ==
  LET whole == {m \in Message : header = HeaderOf(m)}
  IN  IF whole # {} THEN {DataSize[m] : m \in whole}
                    ELSE -1 .. MaxRamSize + 1

(* The k-th object uploaded, and where it starts and ends in the stream.   *)
Sent(k)  == log[k].msg
At(k)    == log[k].at
EndOf(k) == At(k) + HeaderSize + DataSize[Sent(k)]

(* Where the next object starts, once there is one.                        *)
StartOf(k) == IF k <= Len(log) THEN At(k) ELSE Len(stream)

(* The objects end to end, and their bytes, up to a torn one.              *)
Top   == IF torn = 0 THEN Len(log) ELSE torn
Sound == IF torn = 0 THEN Len(stream) ELSE StartOf(torn + 1)

Current     == Sent(Len(log))
Unread      == Len(stream) - taken
Room        == Capacity - Unread
Least(a, b) == IF a <= b THEN a ELSE b

-----------------------------------------------------------------------------
Init ==
  /\ wState = "Ready" /\ wOffset = 0
  /\ log = << >> /\ stream = << >> /\ taken = 0
  /\ rState = "Ready" /\ rOffset = 0
  /\ rHeader = [p \in HeaderCells |-> Unset]
  /\ rBuf = NoData /\ rBufSize = 0
  /\ received = << >>
  /\ torn = 0 /\ lost = FALSE

(* copy_to_fd_internal, case Ready: the upload of a new object begins,     *)
(* whatever became of the last one.                                        *)
BeginCopy(m) ==
  /\ wState = "Ready"
  /\ Len(log) < MaxMessages
  /\ log' = Append(log, [msg |-> m, at |-> Len(stream)])
  /\ wOffset' = 0
  /\ wState' = "CopyingHeader"
  /\ UNCHANGED <<stream, torn, readerVars>>

(* copy_to_fd_internal, case CopyingHeader: write() takes n more bytes of  *)
(* the header.  After the last one an empty container has nothing to       *)
(* iterate over and is Ready at once, offset_ left where it was.           *)
WriteHeader(n) ==
  /\ wState = "CopyingHeader"
  /\ n \in 0 .. Least(Room, HeaderSize - wOffset)
  /\ stream' = stream \o Piece(Current, wOffset, n)
  /\ \/ /\ wOffset + n < HeaderSize
        /\ wOffset' = wOffset + n
        /\ UNCHANGED wState
     \/ /\ wOffset + n = HeaderSize /\ DataSize[Current] = 0
        /\ wOffset' = wOffset + n
        /\ wState' = "Ready"
     \/ /\ wOffset + n = HeaderSize /\ DataSize[Current] > 0
        /\ wOffset' = 0
        /\ wState' = "CopyingData"
  /\ UNCHANGED <<log, torn, readerVars>>

(* A variant that asks write() for one byte less than is left.             *)
WriteDataShort(n) ==
  /\ wState = "CopyingData"
  /\ n \in 0 .. Least(Room, DataSize[Current] - wOffset - 1)
  /\ stream' = stream \o Piece(Current, HeaderSize + wOffset, n)
  /\ wOffset' = wOffset + n
  /\ wState' = IF wOffset + n = DataSize[Current] THEN "Ready" ELSE wState
  /\ UNCHANGED <<log, torn, readerVars>>

(* copy_to_fd_internal_buf: write() takes n more bytes of the data.        *)
WriteData(n) ==
  /\ wState = "CopyingData"
  /\ n \in 0 .. Least(Room, DataSize[Current] - wOffset)
  /\ stream' = stream \o Piece(Current, HeaderSize + wOffset, n)
  /\ wOffset' = wOffset + n
  /\ wState' = IF wOffset + n = DataSize[Current] THEN "Ready" ELSE wState
  /\ UNCHANGED <<log, torn, readerVars>>

(* A variant that begins the same object again, of which a part is in the  *)
(* descriptor already.                                                     *)
WriteFailsRestarts ==
  /\ Faults
  /\ wState \in {"CopyingHeader", "CopyingData"}
  /\ wState' = "CopyingHeader" /\ wOffset' = 0
  /\ UNCHANGED <<log, torn, stream, readerVars>>

(* write() fails, if only for a signal: state_ is Ready again and the      *)
(* caller is told Error.  What is in the descriptor stays there, half an   *)
(* object or none of it; in the latter case it was never sent.             *)
WriteFails ==
  /\ Faults
  /\ wState \in {"CopyingHeader", "CopyingData"}
  /\ wState' = "Ready"
  /\ IF wState = "CopyingHeader" /\ wOffset = 0
       THEN /\ log' = SubSeq(log, 1, Len(log) - 1)
            /\ UNCHANGED torn
       ELSE /\ torn' = Top
            /\ UNCHANGED log
  /\ UNCHANGED <<wOffset, stream, readerVars>>

-----------------------------------------------------------------------------
(* A variant of clear() that forgets buf_size_.                            *)
BeginLoadKeepsBufSize ==
  /\ rState \in {"Ready", "Error"}
  /\ rBuf' = NoData
  /\ rOffset' = 0
  /\ rState' = "LoadingHeader"
  /\ UNCHANGED <<writerVars, taken, rHeader, rBufSize, received, lost>>

(* A variant that forgets offset_ = 0: after a header that was refused it  *)
(* is header_size.                                                         *)
BeginLoadKeepsOffset ==
  /\ rState \in {"Ready", "Error"}
  /\ rBuf' = NoData /\ rBufSize' = 0
  /\ rState' = "LoadingHeader"
  /\ UNCHANGED <<writerVars, taken, rOffset, rHeader, received, lost>>

(* load_from_fd, cases Ready and Error: clear() drops what is loaded and   *)
(* the download of the next object begins, wherever the stream stands.     *)
BeginLoad ==
  /\ rState \in {"Ready", "Error"}
  /\ rBuf' = NoData /\ rBufSize' = 0
  /\ rOffset' = 0
  /\ rState' = "LoadingHeader"
  /\ UNCHANGED <<writerVars, taken, rHeader, received, lost>>

(* The bytes taken are still those of the object that is coming, or not.   *)
ReadsOn == lost' = (lost \/ taken' > Sound)

(* load_from_fd answers Ready: the caller has an object, the next of those *)
(* sent or, once the reader is lost, whatever the bytes look like.         *)
HandsOver(object) ==
  received' = IF lost' THEN received ELSE Append(received, object)

(* A variant that is Ready, and not in Error, after an oversized object.   *)
HeaderLoadedSkipsOversize(size) ==
  \/ /\ size < 0 \/ size > MaxRamSize
     /\ rState' = "Ready" /\ rOffset' = HeaderSize
     /\ UNCHANGED <<rBuf, rBufSize, received>>
     /\ ReadsOn
  \/ /\ 0 < size /\ size <= MaxRamSize
     /\ rBuf' = [p \in DataCells(size) |-> Unset] /\ rBufSize' = size
     /\ rOffset' = 0 /\ rState' = "LoadingData"
     /\ UNCHANGED received
     /\ ReadsOn

(* The header is complete and announces size bytes of data.                *)
HeaderLoaded(size) ==
  \/ /\ size < 0 \/ size > MaxRamSize
     /\ rState' = "Error" /\ rOffset' = HeaderSize /\ lost' = TRUE
     /\ UNCHANGED <<rBuf, rBufSize, received>>
  \/ /\ size = 0
     /\ rState' = "Ready" /\ rOffset' = HeaderSize
     /\ ReadsOn
     /\ HandsOver([header |-> rHeader', data |-> NoData])
     /\ UNCHANGED <<rBuf, rBufSize>>
  \/ /\ 0 < size /\ size <= MaxRamSize
     /\ rBuf' = [p \in DataCells(size) |-> Unset] /\ rBufSize' = size
     /\ rOffset' = 0 /\ rState' = "LoadingData"
     /\ ReadsOn
     /\ UNCHANGED received
  \/ /\ Faults                                  \* malloc answers nullptr
     /\ 0 < size /\ size <= MaxRamSize
     /\ rState' = "Error" /\ rOffset' = HeaderSize /\ lost' = TRUE
     /\ UNCHANGED <<rBuf, rBufSize, received>>

(* load_from_fd, case LoadingHeader: read() yields n more header bytes.    *)
ReadHeader(n) ==
  /\ rState = "LoadingHeader"
  /\ n \in 0 .. Least(Unread, HeaderSize - rOffset)
  /\ rHeader' = Stored(rHeader, rOffset, n)
  /\ taken' = taken + n
  /\ \/ /\ rOffset + n < HeaderSize
        /\ rOffset' = rOffset + n
        /\ ReadsOn
        /\ UNCHANGED <<rState, rBuf, rBufSize, received>>
     \/ /\ rOffset + n = HeaderSize
        /\ \E size \in SizesIn(rHeader') : HeaderLoaded(size)
  /\ UNCHANGED writerVars

(* A variant that reads into buf_ in place of buf_ + offset_.              *)
ReadDataToStart(n) ==
  /\ rState = "LoadingData"
  /\ n \in 0 .. Least(Unread, rBufSize - rOffset)
  /\ rBuf' = Stored(rBuf, 0, n)
  /\ taken' = taken + n
  /\ rOffset' = rOffset + n
  /\ ReadsOn
  /\ IF rOffset + n = rBufSize
       THEN rState' = "Ready" /\ HandsOver([header |-> rHeader, data |-> rBuf'])
       ELSE UNCHANGED <<rState, received>>
  /\ UNCHANGED <<writerVars, rHeader, rBufSize>>

(* load_from_fd, case LoadingData: read() yields n more data bytes.        *)
ReadData(n) ==
  /\ rState = "LoadingData"
  /\ n \in 0 .. Least(Unread, rBufSize - rOffset)
  /\ rBuf' = Stored(rBuf, rOffset, n)
  /\ taken' = taken + n
  /\ rOffset' = rOffset + n
  /\ ReadsOn
  /\ IF rOffset + n = rBufSize
       THEN rState' = "Ready" /\ HandsOver([header |-> rHeader, data |-> rBuf'])
       ELSE UNCHANGED <<rState, received>>
  /\ UNCHANGED <<writerVars, rHeader, rBufSize>>

(* A variant that begins the same part again, of which the first bytes are *)
(* taken already.                                                          *)
ReadFailsRestarts ==
  /\ Faults
  /\ rState \in {"LoadingHeader", "LoadingData"}
  /\ rOffset' = 0
  /\ UNCHANGED <<writerVars, taken, rState, rHeader, rBuf, rBufSize, received, lost>>

(* read() fails, if only for a signal: state_ is Error.  What was taken of *)
(* the object is gone with the next load.                                  *)
ReadFails ==
  /\ Faults
  /\ rState \in {"LoadingHeader", "LoadingData"}
  /\ rState' = "Error"
  /\ lost' = (lost \/ rState = "LoadingData" \/ rOffset > 0)
  /\ UNCHANGED <<writerVars, taken, rOffset, rHeader, rBuf, rBufSize, received>>

-----------------------------------------------------------------------------
WriterStep ==
  \/ \E n \in 0 .. HeaderSize : WriteHeader(n)
  \/ \E n \in 0 .. Capacity : WriteData(n)

ReaderStep ==
  \/ BeginLoad
  \/ \E n \in 0 .. HeaderSize : ReadHeader(n)
  \/ \E n \in 0 .. MaxRamSize : ReadData(n)

Next ==
  \/ \E m \in Message : BeginCopy(m)
  \/ WriterStep
  \/ WriteFails
  \/ ReaderStep
  \/ ReadFails

Spec == Init /\ [][Next]_vars

(* Both callers poll in a loop, and a descriptor with room, or with bytes  *)
(* to read, moves at least one of them when asked.  Nobody need call again *)
(* after Error (server_loop returns).                                      *)
FairSpec ==
  Spec /\ WF_vars(WriterStep) /\ WF_vars(ReaderStep /\ rState # "Error")

-----------------------------------------------------------------------------
(***************************************************************************)
(* Properties                                                              *)
(***************************************************************************)
WriterState == {"Ready", "CopyingHeader", "CopyingData"}
ReaderState == {"Ready", "LoadingHeader", "LoadingData", "Error"}
LogEntry    == [msg : Message, at : Nat]
Objects     == {Wire(m) : m \in Message}

(* Every variable keeps its type: states are those of DsonObj::State each  *)
(* side can be in, memory cells hold a wire byte or nothing yet.           *)
TypeOK ==
  /\ wState \in WriterState /\ wOffset \in Nat
  /\ log \in Seq(LogEntry)
  /\ stream \in Seq(WireByte)
  /\ taken \in Nat
  /\ rState \in ReaderState /\ rOffset \in Nat
  /\ rHeader \in [HeaderCells -> Cell]
  /\ rBufSize \in Nat
  /\ rBuf \in [DataCells(rBufSize) -> Cell]
  /\ received \in Seq(Objects)
  /\ torn \in Nat /\ lost \in BOOLEAN

(* What load_from_fd hands over as Ready is, byte for byte, the objects    *)
(* uploaded, in order: none lost, repeated, torn or mixed with the next.   *)
(* That holds for callers that go on after Error as long as it cost no     *)
(* part of an object: every object before the first torn one arrives, and  *)
(* a load that failed before its first byte is repeated without harm.      *)
DeliveredInOrder ==
  /\ Len(received) <= Len(log)
  /\ \A k \in 1 .. Len(received) : received[k] = Wire(Sent(k))

(* Between two downloads the reader stands at the first byte of an object: *)
(* it never read into the next object nor left bytes of the last one.  So  *)
(* it does after an Error before which it had taken nothing.               *)
ReaderAligned ==
  rState \in {"Ready", "Error"} /\ ~lost =>
    taken = IF Len(received) < Len(log) THEN At(Len(received) + 1)
                                        ELSE Len(stream)

(* The assert(false) of both switches is unreachable: no call resumes with *)
(* offset_ already at the end of the part it is in, not even on the bytes  *)
(* of a torn object or after one was left half way.                        *)
AssertsHold ==
  /\ wState = "CopyingHeader" => wOffset < HeaderSize
  /\ wState = "CopyingData" => wOffset < DataSize[Current]
  /\ rState = "LoadingHeader" => rOffset < HeaderSize
  /\ rState = "LoadingData" => rOffset < rBufSize

(* Without faults nothing is torn, and the loader answers Error, and loses *)
(* its place, only for an object larger than MAX_DSON_RAM_SIZE: the first  *)
(* such object.                                                            *)
OnlyOversizeRefused ==
  ~Faults =>
    /\ torn = 0
    /\ rState = "Error" \/ lost =>
         /\ Len(received) < Len(log)
         /\ DataSize[Sent(Len(received) + 1)] > MaxRamSize

(* The connection is a FIFO channel of whole objects, until it fails.      *)
SentObjects == [k \in 1 .. Len(log) |-> Wire(Sent(k))]
Channel == INSTANCE FailingChannel
             WITH Object <- Objects, sent <- SentObjects,
                  received <- received, failed <- lost
ImplementsChannel == Channel!Spec

-----------------------------------------------------------------------------
(***************************************************************************)
(* The inductive invariant behind DeliveredInOrder: where each object lies *)
(* in the stream, and where the two sides stand in it.                     *)
(***************************************************************************)
Coming == Len(received) + 1

(* The objects are laid end to end, in the order of their uploads, and     *)
(* what follows a torn one begins inside it.                               *)
LogOrdered ==
  /\ Len(log) > 0 => At(1) = 0
  /\ \A j, k \in 1 .. Top :
       /\ j < k => EndOf(j) <= At(k)
       /\ k = j + 1 => EndOf(j) = At(k)
  /\ torn # 0 => /\ torn <= Len(log)
                 /\ At(torn) <= Sound /\ Sound < EndOf(torn)
                 /\ Sound <= Len(stream)

(* The stream ends where state_ and offset_ say the writer is.             *)
WriterPosition ==
  /\ log = << >> => /\ Len(stream) = 0
                    /\ wState = "Ready"
  /\ torn # 0 /\ torn = Len(log) => wState = "Ready"
  /\ wState = "CopyingHeader" =>
       /\ wOffset < HeaderSize
       /\ Len(stream) = At(Len(log)) + wOffset
  /\ wState = "CopyingData" =>
       /\ wOffset < DataSize[Current]
       /\ Len(stream) = At(Len(log)) + HeaderSize + wOffset
  /\ wState = "Ready" /\ log # << >> /\ torn = 0 =>
       Len(stream) = EndOf(Len(log))

(* Every byte written is the one its object has at that place.             *)
StreamContent ==
  \A k \in 1 .. Top :
    \A p \in 0 .. HeaderSize + DataSize[Sent(k)] - 1 :
      At(k) + p < Sound =>
        stream[At(k) + p + 1] = Byte(Sent(k), p)

(* The reader has taken all of the delivered objects and, unless it is     *)
(* lost, the part of the next one that its state_ and offset_ tell.        *)
ReaderPosition ==
  /\ taken <= Len(stream)
  /\ \A k \in 1 .. Len(received) : EndOf(k) <= taken
  /\ rState = "LoadingHeader" => rOffset < HeaderSize
  /\ rState = "LoadingData" => rOffset < rBufSize
  /\ Len(received) <= Top
  /\ ~lost =>
       /\ taken <= Sound
       /\ rState \in {"Ready", "Error"} => taken = StartOf(Coming)
       /\ rState = "LoadingHeader" => taken = StartOf(Coming) + rOffset
       /\ rState = "LoadingData" => /\ Coming <= Top
                                    /\ taken = At(Coming) + HeaderSize + rOffset

(* The part loaded is the beginning of that object.                        *)
ReaderContent ==
  /\ rState = "LoadingHeader" /\ ~lost =>
       \A p \in 0 .. rOffset - 1 : rHeader[p] = Byte(Sent(Coming), p)
  /\ rState = "LoadingData" /\ ~lost =>
       LET m == Sent(Coming) IN
       /\ rHeader = HeaderOf(m)
       /\ rBufSize = DataSize[m]
       /\ \A p \in 0 .. rOffset - 1 : rBuf[p] = Byte(m, HeaderSize + p)

(* Writer, stream and reader agree on which byte comes next: the strength- *)
(* ening of DeliveredInOrder that each step preserves.                     *)
TransferInv ==
  /\ TypeOK
  /\ LogOrdered
  /\ WriterPosition
  /\ StreamContent
  /\ DeliveredInOrder
  /\ ReaderPosition
  /\ ReaderContent

(* Every object whose upload began is downloaded in the end, unless it was *)
(* not sent (its upload failed before the first byte), it or one before it *)
(* was torn, or the reader met an error.                                   *)
EventuallyDelivered ==
  \A k \in 1 .. MaxMessages :
    Len(log) >= k ~> \/ Len(received) >= k
                     \/ Len(log) < k
                     \/ torn # 0 /\ torn <= k
                     \/ lost \/ rState = "Error"
=============================================================================

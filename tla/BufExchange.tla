---------------------------- MODULE BufExchange ----------------------------
(***************************************************************************)
(* Objects handed from thread to thread through a window of memory, as in  *)
(* the tests TestDouble.DsonBufSend*: the sender fills the window with     *)
(* copy_to_buf_*, the loader empties it with load_from_buf, and a flag     *)
(* under a mutex says whose turn it is.  Each waits for its turn with      *)
(* cv.wait_for, so a thread may find on waking that its turn has not come. *)
(*                                                                         *)
(* One call is a walk through the cases of a switch; an action is one of   *)
(* them, and the mutex is held from the first to the last.                 *)
(***************************************************************************)
EXTENDS Integers, Sequences

CONSTANTS
  Message,      (* The objects a program may send.                         *)
  DataSize,     (* Their data_size(), header excluded ...                  *)
  Inline,       (* ... and how much of it is copied with the header: all   *)
                (* of a DsonRouteObj, nothing of others.                   *)
  HeaderSize,   (* header_size.                                            *)
  MaxRamSize,   (* MAX_DSON_RAM_SIZE.                                      *)
  WindowSizes,  (* Bytes of the window: the buf_size of both callers.      *)
  MaxMessages,  (* Bound: objects sent in a behaviour.                     *)
  Faults,       (* Whether malloc may fail.                                *)
  Unset         (* A byte of memory that was never written.                *)

ASSUME ExchangeAssumption ==
  /\ DataSize \in [Message -> Nat] /\ Inline \in [Message -> Nat]
  /\ \A m \in Message : Inline[m] \in {0, DataSize[m]}
  /\ HeaderSize \in Nat \ {0}
  /\ MaxRamSize \in Nat
  /\ WindowSizes \subseteq Nat \ {0}
  /\ MaxMessages \in Nat
  /\ Faults \in BOOLEAN

Thread == {"sender", "loader"}

VARIABLES
  pc,        (* Where each thread is in send_dson or load_dson.            *)
  mutex,     (* Who holds mut.                                             *)
  bufReady,  (* buf_ready: the window was filled and not yet emptied.      *)
  buf,       (* The window.                                                *)
  cursor,    (* Bytes of the window the running call has used.             *)
  wState,    (* Sender's state_.                                           *)
  wOffset,   (* Sender's offset_.                                          *)
  log,       (* Objects whose upload began.                                *)
  rState,    (* Loader's state_.                                           *)
  rOffset,   (* Loader's offset_.                                          *)
  rHeader,   (* The first offset_ bytes of the loader's header_.           *)
  rBuf,      (* The bytes loaded into the loader's buf_.                   *)
  rBufSize,  (* Loader's buf_size_.                                        *)
  received,  (* Objects for which load_from_buf answered Ready, until ...  *)
  refused    (* ... it answered Error: a history variable.                 *)

objectW == <<wState, wOffset>>
objectR == <<rState, rOffset, rHeader, rBuf, rBufSize>>
history == <<received, refused>>
vars == <<pc, mutex, bufReady, buf, cursor, wState, wOffset, log,
          rState, rOffset, rHeader, rBuf, rBufSize, received, refused>>

-----------------------------------------------------------------------------
(* A byte is known by its object and its place there.                      *)
Byte(m, p)        == <<m, p>>
Piece(m, from, n) == [i \in 1 .. n |-> Byte(m, from + i - 1)]
Wire(m)           == [header |-> Piece(m, 0, HeaderSize),
                      data   |-> Piece(m, HeaderSize, DataSize[m])]

Window == Len(buf)

(* memcpy of bytes into the window at the cursor.                          *)
Filled(bytes) ==
  [i \in 1 .. Window |-> IF cursor < i /\ i <= cursor + Len(bytes)
                           THEN bytes[i - cursor] ELSE buf[i]]

(* The next n bytes of the window.                                         *)
Taken(n) == SubSeq(buf, cursor + 1, cursor + n)

(* data_size() of a loaded header, as the sender wrote it if it is one     *)
(* header and anything if it is not.                                       *)
SizesIn(header) ==
  LET whole == {m \in Message : header = Piece(m, 0, HeaderSize)}
  IN  IF whole # {} THEN {DataSize[m] : m \in whole} ELSE -1 .. MaxRamSize + 1

Current     == log[Len(log)]
HeadSize    == HeaderSize + Inline[Current]
RestSize    == DataSize[Current] - Inline[Current]
Left        == Window - cursor
Least(a, b) == IF a <= b THEN a ELSE b

MyTurn(t) == bufReady = (t = "loader")

-----------------------------------------------------------------------------
Init ==
  /\ pc = [t \in Thread |-> "idle"] /\ mutex = "none"
  /\ bufReady = FALSE /\ cursor = 0
  /\ \E size \in WindowSizes : buf = [i \in 1 .. size |-> Unset]
  /\ wState = "Ready" /\ wOffset = 0 /\ log = << >>
  /\ rState = "Ready" /\ rOffset = 0 /\ rHeader = << >>
  /\ rBuf = << >> /\ rBufSize = 0 /\ received = << >> /\ refused = FALSE

(* send_dson for the next object: the mutex is locked.                     *)
SendDson(m) ==
  /\ pc["sender"] = "idle" /\ Len(log) < MaxMessages
  /\ mutex = "none" /\ mutex' = "sender"
  /\ pc' = [pc EXCEPT !["sender"] = "loop"]
  /\ log' = Append(log, m)
  /\ UNCHANGED <<bufReady, buf, cursor, objectW, objectR, history>>

(* load_dson: clear(), also of an object left in Error, and the mutex is   *)
(* locked.                                                                 *)
LoadDson ==
  /\ pc["loader"] = "idle"
  /\ mutex = "none" /\ mutex' = "loader"
  /\ pc' = [pc EXCEPT !["loader"] = "loop"]
  /\ rState' = "Ready" /\ rBuf' = << >> /\ rBufSize' = 0
  /\ UNCHANGED <<bufReady, buf, cursor, objectW, log, rOffset, rHeader, history>>

(* A variant of the wait that does not look at buf_ready.                  *)
ComeAnyTurn(t) ==
  /\ pc[t] = "loop"
  /\ pc' = [pc EXCEPT ![t] = "call"]
  /\ cursor' = 0
  /\ UNCHANGED <<mutex, bufReady, buf, objectW, log, objectR, history>>

(* The loop comes round on this thread's turn: it calls copy_to_buf_* or   *)
(* load_from_buf on the whole window.                                      *)
ComeTurn(t) ==
  /\ pc[t] = "loop" /\ MyTurn(t)
  /\ pc' = [pc EXCEPT ![t] = "call"]
  /\ cursor' = 0
  /\ UNCHANGED <<mutex, bufReady, buf, objectW, log, objectR, history>>

(* A variant that sleeps with the mutex locked.                            *)
WaitKeepsLock(t) ==
  /\ pc[t] = "loop" /\ ~MyTurn(t)
  /\ pc' = [pc EXCEPT ![t] = "waiting"]
  /\ UNCHANGED <<mutex, bufReady, buf, cursor, objectW, log, objectR, history>>

(* On the other's turn cv.wait_for unlocks the mutex and sleeps.           *)
Wait(t) ==
  /\ pc[t] = "loop" /\ ~MyTurn(t)
  /\ pc' = [pc EXCEPT ![t] = "waiting"]
  /\ mutex' = "none"
  /\ UNCHANGED <<bufReady, buf, cursor, objectW, log, objectR, history>>

(* A variant that waits without a time limit.                              *)
TimeoutNever(t) ==
  /\ pc[t] = "waiting" /\ FALSE
  /\ UNCHANGED vars

(* The 10 milliseconds are over, or the wake-up is spurious.               *)
Timeout(t) ==
  /\ pc[t] = "waiting"
  /\ pc' = [pc EXCEPT ![t] = "woken"]
  /\ UNCHANGED <<mutex, bufReady, buf, cursor, objectW, log, objectR, history>>

(* wait_for locks the mutex before it returns; whatever it answers, the    *)
(* loop looks at buf_ready again.                                          *)
Relock(t) ==
  /\ pc[t] = "woken"
  /\ mutex = "none" /\ mutex' = t
  /\ pc' = [pc EXCEPT ![t] = "loop"]
  /\ UNCHANGED <<bufReady, buf, cursor, objectW, log, objectR, history>>

(* The call is over: the turn passes.  After InProcess the loop goes on;   *)
(* after Ready or Error the other thread is notified and the mutex         *)
(* unlocked.  The caller looks at neither: it sends or loads the next.     *)
Answer(t, result) ==
  /\ bufReady' = (t = "sender")
  /\ IF result = "InProcess"
       THEN pc' = [pc EXCEPT ![t] = "loop"] /\ UNCHANGED mutex
       ELSE /\ pc' = [u \in Thread |->
                        IF u = t THEN "idle"
                        ELSE IF pc[u] = "waiting" THEN "woken" ELSE pc[u]]
            /\ mutex' = "none"

-----------------------------------------------------------------------------
(* copy_to_buf_internal, case Ready.                                       *)
BeginCopy ==
  /\ pc["sender"] = "call" /\ wState = "Ready"
  /\ wOffset' = 0 /\ wState' = "CopyingHeader"
  /\ UNCHANGED <<pc, mutex, bufReady, buf, cursor, log, objectR, history>>

(* A variant that forgets offset_ = 0.                                     *)
CopyHeaderKeepsOffset ==
  /\ pc["sender"] = "call" /\ wState = "CopyingHeader"
  /\ LET n == Least(Left, HeadSize - wOffset)
         done == wOffset + n
     IN  /\ buf' = Filled(Piece(Current, wOffset, n))
         /\ cursor' = cursor + n
         /\ wOffset' = done
         /\ \/ done < HeadSize /\ Answer("sender", "InProcess") /\ UNCHANGED wState
            \/ /\ done = HeadSize /\ RestSize = 0
               /\ wState' = "Ready" /\ Answer("sender", "Ready")
            \/ /\ done = HeadSize /\ RestSize > 0
               /\ wState' = "CopyingData"
               /\ UNCHANGED <<pc, mutex, bufReady>>
  /\ UNCHANGED <<log, objectR, history>>

(* Case CopyingHeader: as much of the header as the window takes.  After   *)
(* all of it the call goes on with the data, also when the window is full; *)
(* an empty container is Ready, and so is a route, with its data.          *)
CopyHeader ==
  /\ pc["sender"] = "call" /\ wState = "CopyingHeader"
  /\ LET n == Least(Left, HeadSize - wOffset)
         done == wOffset + n
     IN  /\ buf' = Filled(Piece(Current, wOffset, n))
         /\ cursor' = cursor + n
         /\ \/ /\ done < HeadSize
               /\ wOffset' = done
               /\ Answer("sender", "InProcess") /\ UNCHANGED wState
            \/ /\ done = HeadSize /\ RestSize = 0
               /\ wOffset' = done /\ wState' = "Ready"
               /\ Answer("sender", "Ready")
            \/ /\ done = HeadSize /\ RestSize > 0
               /\ wOffset' = 0 /\ wState' = "CopyingData"
               /\ UNCHANGED <<pc, mutex, bufReady>>
  /\ UNCHANGED <<log, objectR, history>>

(* copy_to_buf_internal_buf: as much of the data as the window takes.      *)
CopyData ==
  /\ pc["sender"] = "call" /\ wState = "CopyingData"
  /\ LET n == Least(Left, DataSize[Current] - wOffset)
         done == wOffset + n
     IN  /\ buf' = Filled(Piece(Current, HeaderSize + wOffset, n))
         /\ cursor' = cursor + n
         /\ wOffset' = done
         /\ IF done < DataSize[Current]
              THEN Answer("sender", "InProcess") /\ UNCHANGED wState
              ELSE Answer("sender", "Ready") /\ wState' = "Ready"
  /\ UNCHANGED <<log, objectR, history>>

-----------------------------------------------------------------------------
(* load_from_buf, cases Ready and Error.                                   *)
BeginLoad ==
  /\ pc["loader"] = "call" /\ rState \in {"Ready", "Error"}
  /\ rBuf' = << >> /\ rBufSize' = 0
  /\ rOffset' = 0 /\ rState' = "LoadingHeader"
  /\ UNCHANGED <<pc, mutex, bufReady, buf, cursor, objectW, log, rHeader, history>>

(* An object is loaded.  What is loaded after an Error is anything that    *)
(* happens to be in the window, and does not count.                        *)
Receive(header, data) ==
  /\ received' = IF refused THEN received
                 ELSE Append(received, [header |-> header, data |-> data])
  /\ UNCHANGED refused

(* The rest of the object stays with the sender: the next load takes it    *)
(* for a header.                                                           *)
Refuse ==
  /\ rState' = "Error" /\ rOffset' = HeaderSize
  /\ refused' = TRUE
  /\ UNCHANGED <<rBufSize, received>>
  /\ Answer("loader", "Error")

(* The header is complete and announces size bytes of data; the call goes  *)
(* on with them unless the n bytes just taken were the last of the window. *)
HeaderLoaded(size, n) ==
  \/ (size < 0 \/ size > MaxRamSize) /\ Refuse
  \/ Faults /\ 0 < size /\ size <= MaxRamSize /\ Refuse    \* malloc failed
  \/ /\ size = 0
     /\ rState' = "Ready" /\ rOffset' = HeaderSize
     /\ Receive(rHeader', << >>)
     /\ UNCHANGED rBufSize
     /\ Answer("loader", "Ready")
  \/ /\ 0 < size /\ size <= MaxRamSize
     /\ rBufSize' = size
     /\ rOffset' = 0 /\ rState' = "LoadingData"
     /\ UNCHANGED history
     /\ IF Left = n THEN Answer("loader", "InProcess")
                    ELSE UNCHANGED <<pc, mutex, bufReady>>

(* Case LoadingHeader: as much of the header as the window holds.          *)
LoadHeader ==
  /\ pc["loader"] = "call" /\ rState = "LoadingHeader"
  /\ LET n == Least(Left, HeaderSize - rOffset)
         done == rOffset + n
     IN  /\ rHeader' = SubSeq(rHeader, 1, rOffset) \o Taken(n)
         /\ cursor' = cursor + n
         /\ \/ /\ done < HeaderSize
               /\ rOffset' = done
               /\ Answer("loader", "InProcess")
               /\ UNCHANGED <<rState, rBufSize, history>>
            \/ /\ done = HeaderSize
               /\ \E size \in SizesIn(rHeader') : HeaderLoaded(size, n)
  /\ UNCHANGED <<buf, objectW, log, rBuf>>

(* A variant that takes all of the window that is left.                    *)
LoadDataWholeWindow ==
  /\ pc["loader"] = "call" /\ rState = "LoadingData"
  /\ LET done == rOffset + Left
     IN  /\ rBuf' = rBuf \o Taken(Left)
         /\ cursor' = Window
         /\ rOffset' = done
         /\ IF done >= rBufSize
              THEN /\ rState' = "Ready"
                   /\ Receive(rHeader, rBuf')
                   /\ Answer("loader", "Ready")
              ELSE Answer("loader", "InProcess") /\ UNCHANGED <<rState, history>>
  /\ UNCHANGED <<buf, objectW, log, rHeader, rBufSize>>

(* Case LoadingData: as much of the data as the window holds.              *)
LoadData ==
  /\ pc["loader"] = "call" /\ rState = "LoadingData"
  /\ LET n == Least(Left, rBufSize - rOffset)
         done == rOffset + n
     IN  /\ rBuf' = rBuf \o Taken(n)
         /\ cursor' = cursor + n
         /\ rOffset' = done
         /\ IF done = rBufSize
              THEN /\ rState' = "Ready"
                   /\ Receive(rHeader, rBuf')
                   /\ Answer("loader", "Ready")
              ELSE Answer("loader", "InProcess") /\ UNCHANGED <<rState, history>>
  /\ UNCHANGED <<buf, objectW, log, rHeader, rBufSize>>

-----------------------------------------------------------------------------
Loop(t) == ComeTurn(t) \/ Wait(t) \/ Timeout(t) \/ Relock(t)

SenderStep == BeginCopy \/ CopyHeader \/ CopyData
LoaderStep == LoadDson \/ BeginLoad \/ LoadHeader \/ LoadData

Next ==
  \/ \E m \in Message : SendDson(m)
  \/ \E t \in Thread : Loop(t)
  \/ SenderStep
  \/ LoaderStep

Spec == Init /\ [][Next]_vars

(* A thread that is not blocked runs on, a wait ends after its time, and   *)
(* a thread that asks for the mutex again and again is given it.           *)
FairSpec ==
  /\ Spec
  /\ WF_vars(SenderStep) /\ WF_vars(LoaderStep) /\ SF_vars(LoadDson)
  /\ \A t \in Thread : WF_vars(ComeTurn(t)) /\ WF_vars(Wait(t))
                       /\ WF_vars(Timeout(t)) /\ SF_vars(Relock(t))

-----------------------------------------------------------------------------
(***************************************************************************)
(* Properties                                                              *)
(***************************************************************************)
(* Every variable keeps its type, and only the thread that is past its     *)
(* wait_for holds the mutex.                                               *)
TypeOK ==
  /\ pc \in [Thread -> {"idle", "loop", "waiting", "woken", "call"}]
  /\ mutex \in Thread \cup {"none"}
  /\ \A t \in Thread : pc[t] \in {"loop", "call"} <=> mutex = t
  /\ bufReady \in BOOLEAN /\ cursor \in 0 .. Window
  /\ Window \in WindowSizes /\ buf \in Seq((Message \X Nat) \cup {Unset})
  /\ wState \in {"Ready", "CopyingHeader", "CopyingData"} /\ wOffset \in Nat
  /\ log \in Seq(Message)
  /\ rState \in {"Ready", "LoadingHeader", "LoadingData", "Error"}
  /\ rOffset \in Nat /\ rBufSize \in Nat
  /\ received \in Seq({Wire(m) : m \in Message}) /\ refused \in BOOLEAN

(* Until an object is refused, between two calls on the window both ends   *)
(* are at the same byte of the same object if the window is empty, and the *)
(* loader is one window behind (or at what there was to send) if it is     *)
(* full.                                                                   *)
Place(state, offset) ==
  CASE state \in {"CopyingHeader", "LoadingHeader"} -> offset
    [] state \in {"CopyingData", "LoadingData"}     -> HeaderSize + offset
    [] OTHER                                        -> 0

InStep ==
  (\A t \in Thread : pc[t] # "call") /\ ~refused =>
    LET w == Place(wState, wOffset)
        r == Place(rState, rOffset)
    IN  IF ~bufReady THEN w = r
        ELSE \/ w = r + Window
             \/ /\ w = 0
                /\ r + Window >= HeaderSize + DataSize[log[Len(received) + 1]]

(* No call of copy_to_buf or load_from_buf resumes with nothing left of    *)
(* the part it is in: the assert(false) of both switches is dead code,     *)
(* also when the loads that follow an Error take anything for a header.    *)
AssertsHold ==
  /\ wState = "CopyingHeader" => wOffset < HeadSize
  /\ wState = "CopyingData" => wOffset < DataSize[Current]
  /\ rState = "LoadingHeader" => rOffset < HeaderSize
  /\ rState = "LoadingData" => rOffset < rBufSize

(* Bytes left in the window by an earlier object, or beyond what the       *)
(* sender filled, never get into an object: what load_from_buf answers     *)
(* Ready for before it answers Error is what was sent, in order.           *)
SentObjects == [k \in 1 .. Len(log) |-> Wire(log[k])]
Channel == INSTANCE MessageChannel
             WITH Object <- {Wire(m) : m \in Message},
                  sent <- SentObjects, received <- received
ImplementsChannel == Channel!Spec

(* Every object that began to be sent is loaded in the end, unless one was *)
(* refused; the sender gets every object through the window even then.     *)
EventuallyLoaded ==
  \A k \in 1 .. MaxMessages :
    Len(log) >= k ~> /\ Len(received) >= k \/ refused
                     /\ Len(log) > k \/ pc["sender"] = "idle"
=============================================================================

------------------------- MODULE BufExchangeProofs --------------------------
(***************************************************************************)
(* Proofs about BufExchange, for any objects, any number of them, and a    *)
(* window of any size.                                                     *)
(***************************************************************************)
EXTENDS BufExchange, SequenceTheorems, TLAPS

Total(m) == HeaderSize + DataSize[m]

(* The object that the loader is at.                                       *)
Coming == log[Len(received) + 1]

(* How many objects the sender has put into the window to their last byte, *)
(* and where it is in the one after them.                                  *)
Copied == IF pc["sender"] = "idle" THEN Len(log) ELSE Len(log) - 1
WPlace == Place(wState, wOffset)
RPlace == Place(rState, rOffset)

(* The place of the first byte of the window in the loader's object.       *)
Base == IF pc["loader"] = "call" THEN RPlace - cursor ELSE RPlace

(* A call goes on only in its thread's turn, and a thread that has left    *)
(* its function has left its object in Ready, or in Error.                 *)
ThreadInv ==
  /\ pc["sender"] = "call" => ~bufReady
  /\ pc["loader"] = "call" => bufReady
  /\ pc["sender"] # "idle" => log # << >>
  /\ pc["sender"] = "idle" => wState = "Ready"
  /\ pc["loader"] = "idle" => rState \in {"Ready", "Error"}
  /\ rState = "Error" => pc["loader"] = "idle" /\ refused

(* There is something left of the part of the object that is copied.       *)
SenderInv ==
  /\ wState = "CopyingHeader" => wOffset < HeadSize
  /\ wState = "CopyingData" => wOffset < DataSize[Current] /\ Inline[Current] = 0
  /\ pc["sender"] = "call" /\ wState = "Ready" => cursor = 0

(* What the loader has of its object is the beginning of it, ...           *)
Beginning ==
  /\ rState \in {"LoadingHeader", "LoadingData"} => Len(received) < Len(log)
  /\ rState = "LoadingHeader" =>
       /\ \A i \in 1 .. rOffset : rHeader[i] = Byte(Coming, i - 1)
       /\ rBuf = << >>
  /\ rState = "LoadingData" =>
       /\ rHeader = Piece(Coming, 0, HeaderSize)
       /\ rBufSize = DataSize[Coming]
       /\ rBuf = Piece(Coming, HeaderSize, rOffset)

(* ... and not all, whatever it takes for a header after an Error.         *)
LoaderInv ==
  /\ pc["loader"] = "call" /\ rState = "Ready" => cursor = 0
  /\ rState = "LoadingHeader" => rOffset < HeaderSize /\ rOffset <= Len(rHeader)
  /\ rState = "LoadingData" => rOffset < rBufSize
  /\ ~refused => Beginning

(* While it is the sender's turn both are at the same byte of the same     *)
(* object, and the sender ahead by what its call has put into the window.  *)
SendersTurn ==
  /\ Copied = Len(received)
  /\ WPlace = RPlace + IF pc["sender"] = "call" THEN cursor ELSE 0
  /\ pc["sender"] = "call" =>
       \A i \in 1 .. cursor : buf[i] = Byte(Coming, RPlace + i - 1)

(* While it is the loader's turn the window holds the object from the      *)
(* place where the loader was, up to where the sender is or to its end.    *)
LoadersTurn ==
  /\ Len(received) < Len(log) /\ Base >= 0
  /\ \A i \in 1 .. Window : Base + i <= Total(Coming) => buf[i] = Byte(Coming, Base + i - 1)
  /\ \/ Copied = Len(received) /\ WPlace = Base + Window
     \/ /\ Copied = Len(received) + 1 /\ wState = "Ready"
        /\ Base + Window >= Total(Coming)

TurnInv == ~refused => IF bufReady THEN LoadersTurn ELSE SendersTurn

Cell == (Message \X Nat) \cup {Unset}

ExchangeInv ==
  /\ TypeOK /\ rHeader \in Seq(Cell) /\ rBuf \in Seq(Cell)
  /\ ThreadInv /\ SenderInv /\ LoaderInv /\ TurnInv

-----------------------------------------------------------------------------
LEMMA InitInv == Init => ExchangeInv
<1> SUFFICES ASSUME Init PROVE ExchangeInv
  OBVIOUS
<1>1. PICK size \in WindowSizes : buf = [i \in 1 .. size |-> Unset]
  BY DEF Init
<1>2. size \in Nat \ {0}
  BY ExchangeAssumption
<1>3. buf \in Seq(Cell) /\ Window = size
  BY <1>1, <1>2 DEF Cell, Window
<1>4. /\ pc = [t \in Thread |-> "idle"] /\ pc["sender"] = "idle" /\ pc["loader"] = "idle"
      /\ log = << >> /\ received = << >> /\ Len(log) = 0 /\ Len(received) = 0
      /\ bufReady = FALSE /\ cursor = 0 /\ mutex = "none"
      /\ wState = "Ready" /\ wOffset = 0 /\ rState = "Ready" /\ rOffset = 0
      /\ rHeader = << >> /\ rBuf = << >> /\ rBufSize = 0
      /\ refused = FALSE
  BY DEF Init, Thread
<1>5. TypeOK
  <2>1. 0 \in 0 .. Window
    BY <1>2, <1>3
  <2>2. \A t \in Thread : pc[t] \in {"loop", "call"} <=> mutex = t
    BY <1>4 DEF Thread
  <2>3. /\ pc \in [Thread -> {"idle", "loop", "waiting", "woken", "call"}]
        /\ log \in Seq(Message) /\ received \in Seq({Wire(m) : m \in Message})
    BY <1>4
  <2> QED BY <1>3, <1>4, <2>1, <2>2, <2>3 DEF TypeOK, Cell
<1>6. ThreadInv /\ SenderInv /\ LoaderInv
  BY <1>4 DEF ThreadInv, SenderInv, LoaderInv, Beginning
<1>7. TurnInv
  BY <1>4 DEF TurnInv, SendersTurn, Copied, WPlace, RPlace, Place
<1> QED BY <1>4, <1>5, <1>6, <1>7 DEF ExchangeInv

(* A thread goes from one place to the next.                               *)
Moves(t, new) ==
  /\ pc' \in [Thread -> {"idle", "loop", "waiting", "woken", "call"}]
  /\ pc'[t] = new /\ \A u \in Thread : u # t => pc'[u] = pc[u]

LEMMA Moved ==
  ASSUME TypeOK, NEW t \in Thread,
         NEW new \in {"idle", "loop", "waiting", "woken", "call"},
         pc' = [pc EXCEPT ![t] = new]
  PROVE  Moves(t, new)
BY DEF TypeOK, Moves

(* The steps of the loops around the calls.                                *)
LEMMA LoopStep ==
  ASSUME ExchangeInv, NEW t \in Thread, pc[t] \in {"loop", "waiting", "woken"},
         NEW new \in {"loop", "waiting", "woken", "call"}, Moves(t, new),
         new # "call" => cursor' = cursor,
         new = "call" => pc[t] = "loop" /\ MyTurn(t) /\ cursor' = 0,
         mutex' \in Thread \cup {"none"},
         \A u \in Thread : pc'[u] \in {"loop", "call"} <=> mutex' = u,
         UNCHANGED <<bufReady, buf, objectW, log, objectR, history>>
  PROVE  ExchangeInv'
<1>1. /\ UNCHANGED <<bufReady, buf, wState, wOffset, log, received, refused>>
      /\ UNCHANGED <<rState, rOffset, rHeader, rBuf, rBufSize>>
  BY DEF objectW, objectR, history
<1>2. /\ pc' \in [Thread -> {"idle", "loop", "waiting", "woken", "call"}]
      /\ pc'[t] = new /\ \A u \in Thread : u # t => pc'[u] = pc[u]
  BY DEF Moves
<1>3. \A u \in Thread : /\ pc'[u] = "idle" <=> pc[u] = "idle"
                        /\ pc[u] = "call" => pc'[u] = "call"
                        /\ pc'[u] = "call" =>
                             \/ pc[u] = "call" /\ cursor' = cursor
                             \/ pc[u] # "call" /\ cursor' = 0 /\ MyTurn(u)
  <2>1. new = "call" => \A u \in Thread : pc[u] = "call" => u = t
    BY DEF ExchangeInv, TypeOK, Thread
  <2> QED BY <1>2, <2>1 DEF Thread
<1>4. /\ Copied' = Copied /\ WPlace' = WPlace /\ RPlace' = RPlace /\ Coming' = Coming
      /\ Window' = Window /\ Current' = Current /\ HeadSize' = HeadSize
  BY <1>1, <1>3 DEF Copied, WPlace, RPlace, Coming, Window, Current, HeadSize, Thread
<1>5. /\ cursor' \in 0 .. Window /\ Window \in Nat /\ cursor \in 0 .. Window
      /\ RPlace \in Nat /\ WPlace \in Nat
  <2>1. Window \in Nat /\ cursor \in 0 .. Window /\ rOffset \in Nat /\ wOffset \in Nat
    BY ExchangeAssumption DEF ExchangeInv, TypeOK
  <2> QED BY <2>1, ExchangeAssumption DEF RPlace, WPlace, Place
<1>6. TypeOK' /\ rHeader' \in Seq(Cell) /\ rBuf' \in Seq(Cell)
  BY <1>1, <1>2, <1>4, <1>5 DEF ExchangeInv, TypeOK
<1>7. ThreadInv'
  <2>1. (MyTurn("sender") => ~bufReady) /\ (MyTurn("loader") => bufReady)
    BY DEF MyTurn
  <2> QED BY <1>1, <1>3, <2>1 DEF ExchangeInv, ThreadInv, Thread
<1>8. SenderInv'
  BY <1>1, <1>3, <1>4 DEF ExchangeInv, SenderInv, Thread
<1>9. LoaderInv'
  BY <1>1, <1>3, <1>4 DEF ExchangeInv, LoaderInv, Beginning, Thread
<1>10. TurnInv'
  <2>1. CASE ~refused /\ ~bufReady
    <3>1. SendersTurn
      BY <2>1 DEF ExchangeInv, TurnInv
    <3>2. \/ pc'["sender"] = "call" /\ pc["sender"] = "call" /\ cursor' = cursor
          \/ pc'["sender"] = "call" /\ pc["sender"] # "call" /\ cursor' = 0
          \/ pc'["sender"] # "call" /\ pc["sender"] # "call"
      BY <1>3 DEF Thread
    <3>3. WPlace' = RPlace' + IF pc'["sender"] = "call" THEN cursor' ELSE 0
      BY <1>4, <1>5, <3>1, <3>2 DEF SendersTurn
    <3>4. pc'["sender"] = "call" => \A i \in 1 .. cursor' : buf'[i] = Byte(Coming', RPlace' + i - 1)
      BY <1>1, <1>4, <3>1, <3>2 DEF SendersTurn
    <3>5. SendersTurn'
      BY <1>1, <1>4, <3>1, <3>3, <3>4 DEF SendersTurn, Byte
    <3> QED BY <1>1, <2>1, <3>5 DEF TurnInv
  <2>2. CASE ~refused /\ bufReady
    <3>1. LoadersTurn
      BY <2>2 DEF ExchangeInv, TurnInv
    <3>2. Base' = Base
      <4>1. \/ pc'["loader"] = "call" /\ pc["loader"] = "call" /\ cursor' = cursor
            \/ pc'["loader"] = "call" /\ pc["loader"] # "call" /\ cursor' = 0
            \/ pc'["loader"] # "call" /\ pc["loader"] # "call"
        BY <1>3 DEF Thread
      <4>2. RPlace' = RPlace /\ RPlace - 0 = RPlace
        BY <1>4, <1>5
      <4> QED BY <4>1, <4>2 DEF Base
    <3>3. LoadersTurn'
      BY <1>1, <1>4, <3>1, <3>2 DEF LoadersTurn
    <3> QED BY <1>1, <2>2, <3>3 DEF TurnInv
  <2> QED BY <1>1, <2>1, <2>2 DEF TurnInv
<1> QED BY <1>6, <1>7, <1>8, <1>9, <1>10 DEF ExchangeInv

LEMMA LoopInv ==
  ASSUME ExchangeInv, NEW t \in Thread, Loop(t)
  PROVE  ExchangeInv'
<1>1. TypeOK
  BY DEF ExchangeInv
<1>2. CASE ComeTurn(t)
  <2>1. /\ pc[t] = "loop" /\ MyTurn(t) /\ Moves(t, "call") /\ cursor' = 0
        /\ UNCHANGED <<mutex, bufReady, buf, objectW, log, objectR, history>>
    BY <1>1, <1>2, Moved DEF ComeTurn
  <2>2. mutex' \in Thread \cup {"none"} /\ \A u \in Thread : pc'[u] \in {"loop", "call"} <=> mutex' = u
    BY <1>1, <2>1 DEF TypeOK, Moves
  <2> QED BY <2>1, <2>2, LoopStep
<1>3. CASE Wait(t)
  <2>1. /\ pc[t] = "loop" /\ Moves(t, "waiting") /\ mutex' = "none" /\ cursor' = cursor
        /\ UNCHANGED <<bufReady, buf, objectW, log, objectR, history>>
    BY <1>1, <1>3, Moved DEF Wait
  <2>2. mutex' \in Thread \cup {"none"} /\ \A u \in Thread : pc'[u] \in {"loop", "call"} <=> mutex' = u
    BY <1>1, <2>1 DEF TypeOK, Moves, Thread
  <2> QED BY <2>1, <2>2, LoopStep
<1>4. CASE Timeout(t)
  <2>1. /\ pc[t] = "waiting" /\ Moves(t, "woken") /\ mutex' = mutex /\ cursor' = cursor
        /\ UNCHANGED <<bufReady, buf, objectW, log, objectR, history>>
    BY <1>1, <1>4, Moved DEF Timeout
  <2>2. mutex' \in Thread \cup {"none"} /\ \A u \in Thread : pc'[u] \in {"loop", "call"} <=> mutex' = u
    BY <1>1, <2>1 DEF TypeOK, Moves, Thread
  <2> QED BY <2>1, <2>2, LoopStep
<1>5. CASE Relock(t)
  <2>1. /\ pc[t] = "woken" /\ Moves(t, "loop") /\ mutex = "none" /\ mutex' = t /\ cursor' = cursor
        /\ UNCHANGED <<bufReady, buf, objectW, log, objectR, history>>
    BY <1>1, <1>5, Moved DEF Relock
  <2>2. mutex' \in Thread \cup {"none"} /\ \A u \in Thread : pc'[u] \in {"loop", "call"} <=> mutex' = u
    BY <1>1, <2>1 DEF TypeOK, Moves, Thread
  <2> QED BY <2>1, <2>2, LoopStep
<1> QED BY <1>2, <1>3, <1>4, <1>5 DEF Loop

-----------------------------------------------------------------------------
LEMMA Types ==
  ASSUME ExchangeInv
  PROVE  /\ Len(log) \in Nat /\ Len(received) \in Nat /\ Window \in Nat \ {0}
         /\ cursor \in 0 .. Window /\ HeaderSize \in Nat \ {0}
         /\ wOffset \in Nat /\ rOffset \in Nat /\ WPlace \in Nat /\ RPlace \in Nat
         /\ \A k \in 1 .. Len(log) : log[k] \in Message
         /\ \A m \in Message : DataSize[m] \in Nat /\ Inline[m] \in {0, DataSize[m]}
<1>1. /\ Len(log) \in Nat /\ Len(received) \in Nat /\ \A k \in 1 .. Len(log) : log[k] \in Message
      /\ wOffset \in Nat /\ rOffset \in Nat
  BY DEF ExchangeInv, TypeOK
<1>2. Window \in Nat \ {0} /\ cursor \in 0 .. Window /\ HeaderSize \in Nat \ {0}
  BY ExchangeAssumption DEF ExchangeInv, TypeOK
<1>3. WPlace \in Nat /\ RPlace \in Nat
  BY <1>1, <1>2 DEF WPlace, RPlace, Place
<1> QED BY <1>1, <1>2, <1>3, ExchangeAssumption

LEMMA SendDsonInv ==
  ASSUME ExchangeInv, NEW m \in Message, SendDson(m)
  PROVE  ExchangeInv'
<1>1. TypeOK
  BY DEF ExchangeInv
<1>2. /\ pc["sender"] = "idle" /\ Moves("sender", "loop") /\ mutex = "none" /\ mutex' = "sender"
      /\ log' = Append(log, m) /\ UNCHANGED <<bufReady, buf, cursor, received, refused>>
      /\ UNCHANGED <<wState, wOffset, rState, rOffset, rHeader, rBuf, rBufSize>>
  BY <1>1, Moved DEF SendDson, objectW, objectR, history, Thread
<1>3. /\ Len(log) \in Nat /\ Len(received) \in Nat /\ log \in Seq(Message)
  BY <1>1, Types DEF TypeOK
<1>4. /\ log' \in Seq(Message) /\ Len(log') = Len(log) + 1 /\ log' # << >>
      /\ \A k \in 1 .. Len(log) : log'[k] = log[k]
  BY <1>2, <1>3
<1>5. /\ pc'["sender"] = "loop" /\ pc'["loader"] = pc["loader"] /\ pc["loader"] \notin {"loop", "call"}
  BY <1>1, <1>2 DEF TypeOK, Moves, Thread
<1>6. /\ WPlace' = WPlace /\ RPlace' = RPlace /\ Window' = Window /\ Base' = Base /\ Copied' = Copied
      /\ Len(received) < Len(log) => Coming' = Coming
  <2>1. WPlace' = WPlace /\ RPlace' = RPlace /\ Window' = Window
    BY <1>2 DEF WPlace, RPlace, Window
  <2>2. Base' = Base
    BY <1>5, <2>1 DEF Base
  <2>3. Copied' = Copied
    BY <1>2, <1>3, <1>4, <1>5 DEF Copied
  <2>4. Len(received) < Len(log) => Coming' = Coming
    BY <1>2, <1>3, <1>4 DEF Coming
  <2> QED BY <2>1, <2>2, <2>3, <2>4
<1>7. wState = "Ready"
  BY <1>2 DEF ExchangeInv, ThreadInv
<1>8. TypeOK' /\ rHeader' \in Seq(Cell) /\ rBuf' \in Seq(Cell)
  <2>1. mutex' \in Thread \cup {"none"} /\ \A u \in Thread : pc'[u] \in {"loop", "call"} <=> mutex' = u
    BY <1>2, <1>5 DEF Thread
  <2> QED BY <1>2, <1>4, <1>6, <2>1 DEF ExchangeInv, TypeOK, Moves
<1>9. ThreadInv' /\ SenderInv'
  BY <1>2, <1>4, <1>5, <1>7 DEF ExchangeInv, ThreadInv, SenderInv
<1>10. LoaderInv'
  BY <1>2, <1>3, <1>4, <1>5, <1>6 DEF ExchangeInv, LoaderInv, Beginning
<1>11. TurnInv'
  <2>1. CASE ~refused /\ ~bufReady
    BY <1>2, <1>5, <1>6, <2>1 DEF ExchangeInv, TurnInv, SendersTurn
  <2>2. CASE ~refused /\ bufReady
    BY <1>2, <1>3, <1>4, <1>6, <2>2 DEF ExchangeInv, TurnInv, LoadersTurn
  <2> QED BY <1>2, <2>1, <2>2 DEF TurnInv
<1> QED BY <1>8, <1>9, <1>10, <1>11 DEF ExchangeInv

LEMMA LoadDsonInv ==
  ASSUME ExchangeInv, LoadDson
  PROVE  ExchangeInv'
<1>1. TypeOK
  BY DEF ExchangeInv
<1>2. /\ pc["loader"] = "idle" /\ Moves("loader", "loop") /\ mutex = "none" /\ mutex' = "loader"
      /\ rState' = "Ready" /\ rBuf' = << >> /\ rBufSize' = 0
      /\ UNCHANGED <<bufReady, buf, cursor, wState, wOffset, log, rOffset, rHeader>>
      /\ UNCHANGED <<received, refused>>
  BY <1>1, Moved DEF LoadDson, objectW, history, Thread
<1>3. pc'["loader"] = "loop" /\ pc'["sender"] = pc["sender"] /\ pc["sender"] \notin {"loop", "call"}
  BY <1>1, <1>2 DEF TypeOK, Moves, Thread
<1>4. rState \in {"Ready", "Error"}
  BY <1>2 DEF ExchangeInv, ThreadInv
<1>5. /\ WPlace' = WPlace /\ RPlace' = RPlace /\ Window' = Window /\ Coming' = Coming
      /\ Current' = Current /\ HeadSize' = HeadSize /\ Copied' = Copied
  BY <1>2, <1>3, <1>4 DEF WPlace, RPlace, Place, Window, Coming, Current, HeadSize, Copied
<1>6. Base' = Base
  BY <1>2, <1>3, <1>5 DEF Base
<1>7. TypeOK' /\ rHeader' \in Seq(Cell) /\ rBuf' \in Seq(Cell)
  <2>1. mutex' \in Thread \cup {"none"} /\ \A u \in Thread : pc'[u] \in {"loop", "call"} <=> mutex' = u
    BY <1>2, <1>3 DEF Thread
  <2>2. rBuf' \in Seq(Cell)
    BY <1>2
  <2> QED BY <1>2, <1>5, <2>1, <2>2 DEF ExchangeInv, TypeOK, Moves
<1>8. ThreadInv' /\ SenderInv'
  BY <1>2, <1>3, <1>4, <1>5 DEF ExchangeInv, ThreadInv, SenderInv
<1>9. LoaderInv'
  BY <1>2, <1>3 DEF LoaderInv, Beginning
<1>10. TurnInv'
  <2>1. CASE ~bufReady
    BY <1>2, <1>3, <1>4, <1>5, <2>1 DEF ExchangeInv, TurnInv, SendersTurn
  <2>2. CASE bufReady
    BY <1>2, <1>4, <1>5, <1>6, <2>2 DEF ExchangeInv, TurnInv, LoadersTurn
  <2> QED BY <2>1, <2>2
<1> QED BY <1>7, <1>8, <1>9, <1>10 DEF ExchangeInv

-----------------------------------------------------------------------------
(* After a call the turn passes to the other thread, which is not in one.  *)
Ended(t, new) ==
  /\ bufReady' = (t = "sender")
  /\ pc' \in [Thread -> {"idle", "loop", "waiting", "woken", "call"}]
  /\ pc'[t] = new
  /\ \A u \in Thread : u # t => /\ pc[u] \notin {"loop", "call"}
                                /\ pc'[u] # pc[u] => pc[u] = "waiting" /\ pc'[u] = "woken"
  /\ mutex' \in Thread \cup {"none"}
  /\ \A u \in Thread : pc'[u] \in {"loop", "call"} <=> mutex' = u

LEMMA Answered ==
  ASSUME TypeOK, NEW t \in Thread, pc[t] = "call",
         NEW result \in {"InProcess", "Ready", "Error"}, Answer(t, result)
  PROVE  Ended(t, IF result = "InProcess" THEN "loop" ELSE "idle")
<1>1. \A u \in Thread : u # t => pc[u] \notin {"loop", "call"}
  BY DEF TypeOK, Thread
<1>2. mutex = t
  BY DEF TypeOK
<1>3. CASE result = "InProcess"
  <2>1. pc' = [pc EXCEPT ![t] = "loop"] /\ mutex' = mutex /\ bufReady' = (t = "sender")
    BY <1>3 DEF Answer
  <2>2. Moves(t, "loop")
    BY <2>1, Moved
  <2> QED BY <1>1, <1>2, <1>3, <2>1, <2>2 DEF Ended, Moves
<1>4. CASE result # "InProcess"
  <2>1. /\ pc' = [u \in Thread |-> IF u = t THEN "idle"
                                   ELSE IF pc[u] = "waiting" THEN "woken" ELSE pc[u]]
        /\ mutex' = "none" /\ bufReady' = (t = "sender")
    BY <1>4 DEF Answer
  <2>2. /\ pc' \in [Thread -> {"idle", "loop", "waiting", "woken", "call"}]
        /\ pc'[t] = "idle"
        /\ \A u \in Thread : u # t => pc'[u] = IF pc[u] = "waiting" THEN "woken" ELSE pc[u]
    BY <2>1 DEF TypeOK
  <2>3. \A u \in Thread : pc'[u] \notin {"loop", "call"}
    BY <1>1, <2>2
  <2>4. mutex' \in Thread \cup {"none"} /\ mutex' \notin Thread /\ bufReady' = (t = "sender")
    BY <2>1 DEF Thread
  <2> HIDE <2>1
  <2> QED BY <1>1, <1>4, <2>2, <2>3, <2>4 DEF Ended
<1> QED BY <1>3, <1>4

(* n more bytes of the sender's object in the window.                      *)
LEMMA WindowFilled ==
  ASSUME ExchangeInv, pc["sender"] = "call", wState # "Ready", NEW n \in Nat, n <= Left,
         buf' = Filled(Piece(Current, WPlace, n))
  PROVE  /\ buf' \in Seq(Cell) /\ Window' = Window
         /\ ~refused =>
              /\ SendersTurn /\ Len(log) = Len(received) + 1 /\ Coming = Current
              /\ \A i \in 1 .. cursor + n : buf'[i] = Byte(Coming, RPlace + i - 1)
<1> DEFINE bytes == Piece(Current, WPlace, n)
<1>1. Len(log) \in Nat /\ Len(log) >= 1 /\ Current \in Message
  BY Types DEF ExchangeInv, ThreadInv, TypeOK, Current
<1>2. Window \in Nat \ {0} /\ cursor \in Nat /\ cursor + n <= Window /\ WPlace \in Nat /\ RPlace \in Nat
  BY Types DEF Left
<1>3. Len(bytes) = n /\ \A j \in 1 .. n : bytes[j] = Byte(Current, WPlace + j - 1)
  BY DEF Piece
<1> HIDE DEF bytes
<1>4. \A j \in 1 .. n : bytes[j] \in Cell
  <2> TAKE j \in 1 .. n
  <2>1. WPlace + j - 1 \in Nat
    BY <1>2
  <2>2. Byte(Current, WPlace + j - 1) \in Message \X Nat
    BY <1>1, <2>1 DEF Byte
  <2> QED BY <1>3, <2>2 DEF Cell
<1>5. buf' = [i \in 1 .. Window |-> IF cursor < i /\ i <= cursor + n THEN bytes[i - cursor] ELSE buf[i]]
  BY <1>3 DEF Filled, bytes
<1>6. buf \in Seq(Cell) /\ Window = Len(buf)
  BY DEF ExchangeInv, TypeOK, Window, Cell
<1>7. \A i \in 1 .. Window : buf'[i] \in Cell
  BY <1>2, <1>4, <1>5, <1>6
<1>8. buf' \in Seq(Cell) /\ Len(buf') = Window
  BY <1>2, <1>5, <1>7
<1>9. ASSUME ~refused
      PROVE  /\ SendersTurn /\ Len(log) = Len(received) + 1 /\ Coming = Current
             /\ \A i \in 1 .. cursor + n : buf'[i] = Byte(Coming, RPlace + i - 1)
  <2>1. SendersTurn
    BY <1>9 DEF ExchangeInv, TurnInv, ThreadInv
  <2>2. Len(received) \in Nat /\ Len(received) = Len(log) - 1 /\ WPlace = RPlace + cursor
    BY <2>1, Types DEF SendersTurn, Copied
  <2>3. Coming = Current /\ Len(log) = Len(received) + 1
    BY <1>1, <2>2 DEF Coming, Current
  <2>4. ASSUME NEW i \in 1 .. cursor + n
        PROVE  buf'[i] = Byte(Coming, RPlace + i - 1)
    <3>1. CASE i <= cursor
      <4>1. i \in 1 .. cursor /\ buf'[i] = buf[i]
        BY <1>2, <1>5, <2>4, <3>1
      <4> QED BY <2>1, <4>1 DEF SendersTurn
    <3>2. CASE i > cursor
      <4>1. i - cursor \in 1 .. n /\ buf'[i] = bytes[i - cursor] /\ i \in Nat
        BY <1>2, <1>5, <2>4, <3>2
      <4>2. WPlace + (i - cursor) - 1 = RPlace + i - 1
        BY <1>2, <2>2, <4>1
      <4> QED BY <1>3, <2>3, <4>1, <4>2
    <3> QED BY <1>2, <2>4, <3>1, <3>2
  <2> QED BY <2>1, <2>3, <2>4
<1> QED BY <1>8, <1>9 DEF Window

(* A part of the object is in the window: the call goes on, or the window  *)
(* is full, or the object is complete.                                     *)
LEMMA SenderStepInv ==
  ASSUME ExchangeInv, pc["sender"] = "call", wState # "Ready", NEW n \in Nat, n <= Left,
         buf' = Filled(Piece(Current, WPlace, n)), cursor' = cursor + n,
         UNCHANGED <<log, objectR, history>>,
         wState' \in {"Ready", "CopyingHeader", "CopyingData"}, wOffset' \in Nat,
         wState' = "CopyingHeader" => wOffset' < HeadSize,
         wState' = "CopyingData" => wOffset' < DataSize[Current] /\ Inline[Current] = 0,
         \/ wState' # "Ready" /\ WPlace' = WPlace + n /\ UNCHANGED <<pc, mutex, bufReady>>
         \/ wState' # "Ready" /\ WPlace' = WPlace + n /\ n = Left /\ Ended("sender", "loop")
         \/ wState' = "Ready" /\ WPlace + n = Total(Current) /\ Ended("sender", "idle")
  PROVE  ExchangeInv'
<1>1. UNCHANGED <<log, received, refused, rState, rOffset, rHeader, rBuf, rBufSize>>
  BY DEF objectR, history
<1>2. /\ buf' \in Seq(Cell) /\ Window' = Window /\ cursor' \in 0 .. Window
      /\ Len(log) \in Nat /\ Len(received) \in Nat /\ Window \in Nat /\ cursor \in Nat
      /\ RPlace \in Nat /\ WPlace \in Nat
  BY WindowFilled, Types DEF Left
<1>3. /\ RPlace' = RPlace /\ Coming' = Coming /\ Current' = Current /\ HeadSize' = HeadSize
      /\ Total(Coming)' = Total(Coming)
  BY <1>1 DEF RPlace, Coming, Current, HeadSize, Total
<1>4. pc["loader"] \notin {"loop", "call"} /\ ~bufReady /\ log # << >>
  BY DEF ExchangeInv, TypeOK, ThreadInv, Thread
<1>5. /\ ~refused =>
           /\ Copied = Len(received) /\ WPlace = RPlace + cursor
           /\ Len(log) = Len(received) + 1 /\ Coming = Current
           /\ \A i \in 1 .. cursor' : buf'[i] = Byte(Coming, RPlace + i - 1)
  BY WindowFilled DEF SendersTurn
<1>6. ASSUME /\ pc'["loader"] \notin {"call", "loop"}
             /\ pc'["loader"] # pc["loader"] =>
                  pc["loader"] = "waiting" /\ pc'["loader"] = "woken"
             /\ pc'["sender"] = "idle" => wState' = "Ready"
             /\ pc'["sender"] = "call" => wState' # "Ready" /\ bufReady' = FALSE
             /\ pc' \in [Thread -> {"idle", "loop", "waiting", "woken", "call"}]
             /\ mutex' \in Thread \cup {"none"} /\ bufReady' \in BOOLEAN
             /\ \A u \in Thread : pc'[u] \in {"loop", "call"} <=> mutex' = u
             /\ TurnInv'
      PROVE  ExchangeInv'
  <2>1. TypeOK' /\ rHeader' \in Seq(Cell) /\ rBuf' \in Seq(Cell)
    BY <1>1, <1>2, <1>6 DEF ExchangeInv, TypeOK, Cell
  <2>2. ThreadInv'
    BY <1>1, <1>4, <1>6 DEF ExchangeInv, ThreadInv
  <2>3. SenderInv'
    BY <1>3, <1>6 DEF SenderInv
  <2>4. LoaderInv'
    BY <1>1, <1>3, <1>6 DEF ExchangeInv, LoaderInv, Beginning
  <2> QED BY <1>6, <2>1, <2>2, <2>3, <2>4 DEF ExchangeInv
<1>7. CASE wState' # "Ready" /\ WPlace' = WPlace + n /\ UNCHANGED <<pc, mutex, bufReady>>
  <2>1. ~refused => SendersTurn'
    <3>1. ~refused => WPlace' = RPlace' + cursor'
      BY <1>2, <1>3, <1>5, <1>7
    <3> QED BY <1>1, <1>3, <1>5, <1>7, <3>1 DEF SendersTurn, Copied, Byte
  <2>2. TurnInv'
    BY <1>1, <1>4, <1>7, <2>1 DEF TurnInv
  <2> QED BY <1>4, <1>6, <1>7, <2>2 DEF ExchangeInv, TypeOK, ThreadInv
<1>8. CASE wState' # "Ready" /\ WPlace' = WPlace + n /\ n = Left /\ Ended("sender", "loop")
  <2>1. /\ pc'["sender"] = "loop" /\ bufReady' = TRUE /\ pc'["loader"] # "call"
        /\ pc'["loader"] # pc["loader"] => pc["loader"] = "waiting" /\ pc'["loader"] = "woken"
    BY <1>4, <1>8 DEF Ended, Thread
  <2>2. Base' = RPlace /\ cursor' = Window /\ Copied' = Len(log) - 1
    BY <1>1, <1>2, <1>3, <1>8, <2>1 DEF Base, Left, Copied
  <2>3. ~refused => LoadersTurn'
    <3>1. ~refused => WPlace' = Base' + Window'
      BY <1>2, <1>5, <1>8, <2>2
    <3>2. ~refused => Base' >= 0 /\ Len(received') < Len(log') /\ Copied' = Len(received')
      BY <1>1, <1>2, <1>5, <2>2
    <3> QED BY <1>2, <1>3, <1>5, <2>2, <3>1, <3>2 DEF LoadersTurn, Byte
  <2>4. TurnInv'
    BY <1>1, <2>1, <2>3 DEF TurnInv
  <2> QED BY <1>4, <1>6, <1>8, <2>1, <2>4 DEF Ended, Thread
<1>9. CASE wState' = "Ready" /\ WPlace + n = Total(Current) /\ Ended("sender", "idle")
  <2>1. /\ pc'["sender"] = "idle" /\ bufReady' = TRUE /\ pc'["loader"] # "call"
        /\ pc'["loader"] # pc["loader"] => pc["loader"] = "waiting" /\ pc'["loader"] = "woken"
    BY <1>4, <1>9 DEF Ended, Thread
  <2>2. Base' = RPlace /\ Copied' = Len(log)
    BY <1>1, <1>3, <2>1 DEF Base, Copied
  <2>3. ~refused => LoadersTurn'
    <3>1. ~refused => RPlace + cursor' = Total(Coming)
      BY <1>2, <1>5, <1>9
    <3>2. ~refused => /\ Base' >= 0 /\ Len(received') < Len(log')
                              /\ Copied' = Len(received') + 1
      BY <1>1, <1>2, <1>5, <2>2
    <3>3. ~refused => Base' + Window' >= Total(Coming)'
      BY <1>2, <1>3, <2>2, <3>1
    <3>4. ASSUME ~refused, NEW i \in 1 .. Window', Base' + i <= Total(Coming)'
          PROVE  buf'[i] = Byte(Coming', Base' + i - 1)
      <4>1. i \in 1 .. cursor'
        BY <1>2, <1>3, <2>2, <3>1, <3>4
      <4> QED BY <1>3, <1>5, <2>2, <3>4, <4>1
    <3> QED BY <1>9, <3>2, <3>3, <3>4 DEF LoadersTurn, Byte
  <2>4. TurnInv'
    BY <1>1, <2>1, <2>3 DEF TurnInv
  <2> QED BY <1>4, <1>6, <1>9, <2>1, <2>4 DEF Ended, Thread
<1> QED BY <1>7, <1>8, <1>9

(* The object a sender that is past its first case is at.                  *)
LEMMA SenderBusy ==
  ASSUME ExchangeInv, pc["sender"] # "idle"
  PROVE  /\ Current \in Message /\ DataSize[Current] \in Nat
         /\ HeadSize = HeaderSize + Inline[Current] /\ RestSize = DataSize[Current] - Inline[Current]
         /\ Inline[Current] \in {0, DataSize[Current]}
<1>1. log # << >> /\ log \in Seq(Message)
  BY DEF ExchangeInv, ThreadInv, TypeOK
<1>2. Current \in Message
  BY <1>1 DEF Current
<1> QED BY <1>2, Types DEF HeadSize, RestSize

LEMMA BeginCopyInv ==
  ASSUME ExchangeInv, BeginCopy
  PROVE  ExchangeInv'
<1>1. /\ pc["sender"] = "call" /\ wState = "Ready" /\ wOffset' = 0 /\ wState' = "CopyingHeader"
      /\ UNCHANGED <<pc, mutex, bufReady, buf, cursor, log, received, refused>>
      /\ UNCHANGED <<rState, rOffset, rHeader, rBuf, rBufSize>>
  BY DEF BeginCopy, objectR, history
<1>2. /\ WPlace' = 0 /\ WPlace = 0 /\ RPlace' = RPlace /\ Coming' = Coming /\ Copied' = Copied
      /\ HeadSize' = HeadSize /\ Window' = Window /\ Base' = Base
  BY <1>1 DEF WPlace, RPlace, Place, Coming, Current, Copied, HeadSize, Window, Base
<1>3. ~bufReady /\ 0 < HeadSize
  BY <1>1, SenderBusy, Types DEF ExchangeInv, ThreadInv
<1>4. TypeOK' /\ rHeader' \in Seq(Cell) /\ rBuf' \in Seq(Cell)
  BY <1>1, <1>2 DEF ExchangeInv, TypeOK
<1>5. ThreadInv' /\ SenderInv' /\ LoaderInv'
  BY <1>1, <1>2, <1>3 DEF ExchangeInv, ThreadInv, SenderInv, LoaderInv, Beginning
<1>6. TurnInv'
  BY <1>1, <1>2, <1>3 DEF ExchangeInv, TurnInv, SendersTurn
<1> QED BY <1>4, <1>5, <1>6 DEF ExchangeInv

LEMMA LeastOf ==
  ASSUME NEW a \in Nat, NEW b \in Nat, NEW n, n = Least(a, b)
  PROVE  n \in Nat /\ n <= a /\ n <= b /\ (n < b => n = a)
BY DEF Least

LEMMA CopyHeaderInv ==
  ASSUME ExchangeInv, CopyHeader
  PROVE  ExchangeInv'
<1>1. pc["sender"] = "call" /\ wState = "CopyingHeader" /\ UNCHANGED <<log, objectR, history>>
  BY DEF CopyHeader
<1>2. /\ Current \in Message /\ DataSize[Current] \in Nat /\ Inline[Current] \in {0, DataSize[Current]}
      /\ HeadSize = HeaderSize + Inline[Current] /\ RestSize = DataSize[Current] - Inline[Current]
  BY <1>1, SenderBusy
<1>3. /\ WPlace = wOffset /\ wOffset \in Nat /\ wOffset < HeadSize /\ HeaderSize \in Nat /\ Left \in Nat
  BY <1>1, Types DEF WPlace, Place, ExchangeInv, SenderInv, Left
<1> DEFINE n == Least(Left, HeadSize - wOffset)
<1>4. n \in Nat /\ n <= Left /\ n <= HeadSize - wOffset /\ (n < HeadSize - wOffset => n = Left)
  <2>1. HeadSize - wOffset \in Nat
    BY <1>2, <1>3
  <2> QED BY <1>3, <2>1, LeastOf
<1>5. buf' = Filled(Piece(Current, WPlace, n)) /\ cursor' = cursor + n
  BY <1>3 DEF CopyHeader
<1>6. TypeOK
  BY DEF ExchangeInv
<1>7. CASE /\ wOffset + n < HeadSize /\ wOffset' = wOffset + n
           /\ Answer("sender", "InProcess") /\ UNCHANGED wState
  <2>1. Ended("sender", "loop")
    BY <1>1, <1>6, <1>7, Answered DEF Thread
  <2>2. wState' = "CopyingHeader" /\ WPlace' = WPlace + n /\ n = Left
    BY <1>1, <1>2, <1>3, <1>4, <1>7 DEF WPlace, Place
  <2> HIDE DEF n
  <2> QED BY <1>1, <1>3, <1>4, <1>5, <1>7, <2>1, <2>2, SenderStepInv
<1>8. CASE /\ wOffset + n = HeadSize /\ RestSize = 0 /\ wOffset' = wOffset + n
           /\ wState' = "Ready" /\ Answer("sender", "Ready")
  <2>1. Ended("sender", "idle")
    BY <1>1, <1>6, <1>8, Answered DEF Thread
  <2>2. WPlace + n = Total(Current) /\ wOffset' \in Nat
    BY <1>2, <1>3, <1>4, <1>8 DEF Total
  <2> HIDE DEF n
  <2> QED BY <1>1, <1>4, <1>5, <1>8, <2>1, <2>2, SenderStepInv
<1>9. CASE /\ wOffset + n = HeadSize /\ RestSize > 0 /\ wOffset' = 0
           /\ wState' = "CopyingData" /\ UNCHANGED <<pc, mutex, bufReady>>
  <2>1. Inline[Current] = 0 /\ 0 < DataSize[Current]
    BY <1>2, <1>9
  <2>2. WPlace' = WPlace + n
    BY <1>2, <1>3, <1>9, <2>1 DEF WPlace, Place
  <2> HIDE DEF n
  <2> QED BY <1>1, <1>4, <1>5, <1>9, <2>1, <2>2, SenderStepInv
<1> QED BY <1>7, <1>8, <1>9 DEF CopyHeader

LEMMA CopyDataInv ==
  ASSUME ExchangeInv, CopyData
  PROVE  ExchangeInv'
<1>1. pc["sender"] = "call" /\ wState = "CopyingData" /\ UNCHANGED <<log, objectR, history>>
  BY DEF CopyData
<1>2. Current \in Message /\ DataSize[Current] \in Nat
  BY <1>1, SenderBusy
<1>3. /\ WPlace = HeaderSize + wOffset /\ wOffset \in Nat /\ wOffset < DataSize[Current]
      /\ Inline[Current] = 0 /\ HeaderSize \in Nat /\ Left \in Nat
  BY <1>1, Types DEF WPlace, Place, ExchangeInv, SenderInv, Left
<1> DEFINE n == Least(Left, DataSize[Current] - wOffset)
<1>4. /\ n \in Nat /\ n <= Left /\ n <= DataSize[Current] - wOffset
      /\ n < DataSize[Current] - wOffset => n = Left
  <2>1. DataSize[Current] - wOffset \in Nat
    BY <1>2, <1>3
  <2> QED BY <1>3, <2>1, LeastOf
<1>5. buf' = Filled(Piece(Current, WPlace, n)) /\ cursor' = cursor + n /\ wOffset' = wOffset + n
  BY <1>3 DEF CopyData
<1>6. TypeOK
  BY DEF ExchangeInv
<1>7. CASE wOffset + n < DataSize[Current] /\ Answer("sender", "InProcess") /\ UNCHANGED wState
  <2>1. Ended("sender", "loop")
    BY <1>1, <1>6, <1>7, Answered DEF Thread
  <2>2. wState' = "CopyingData" /\ WPlace' = WPlace + n /\ n = Left
    BY <1>1, <1>2, <1>3, <1>4, <1>5, <1>7 DEF WPlace, Place
  <2> HIDE DEF n
  <2> QED BY <1>1, <1>3, <1>4, <1>5, <1>7, <2>1, <2>2, SenderStepInv
<1>8. CASE ~(wOffset + n < DataSize[Current]) /\ Answer("sender", "Ready") /\ wState' = "Ready"
  <2>1. Ended("sender", "idle")
    BY <1>1, <1>6, <1>8, Answered DEF Thread
  <2>2. WPlace + n = Total(Current) /\ wOffset' \in Nat
    BY <1>2, <1>3, <1>4, <1>5, <1>8 DEF Total
  <2> HIDE DEF n
  <2> QED BY <1>1, <1>4, <1>5, <1>8, <2>1, <2>2, SenderStepInv
<1> QED BY <1>7, <1>8 DEF CopyData

-----------------------------------------------------------------------------
(* While the loader loads, the object it loads is known, and the sender is *)
(* past it or somewhere in it.                                             *)
LEMMA LoaderBusy ==
  ASSUME ExchangeInv, pc["loader"] = "call", ~refused
  PROVE  /\ bufReady /\ LoadersTurn
         /\ Len(received) < Len(log) /\ Coming \in Message
         /\ DataSize[Coming] \in Nat /\ Total(Coming) \in Nat
         /\ Base = RPlace - cursor /\ Base \in Nat
         /\ pc["sender"] \notin {"loop", "call"}
         /\ \/ Copied = Len(received) /\ WPlace = Base + Window /\ WPlace < Total(Coming)
            \/ /\ Copied = Len(received) + 1 /\ wState = "Ready"
               /\ Base + Window >= Total(Coming)
<1>1. bufReady /\ LoadersTurn /\ pc["sender"] \notin {"loop", "call"}
  BY DEF ExchangeInv, ThreadInv, TurnInv, TypeOK, Thread
<1>2. /\ Len(log) \in Nat /\ Len(received) \in Nat /\ Len(received) < Len(log)
      /\ HeaderSize \in Nat \ {0} /\ Window \in Nat \ {0} /\ cursor \in Nat /\ RPlace \in Nat
      /\ wOffset \in Nat
  BY <1>1, Types DEF LoadersTurn
<1>3. Coming \in Message /\ DataSize[Coming] \in Nat /\ Total(Coming) \in Nat
  BY <1>2, Types DEF Coming, Total
<1>4. Base = RPlace - cursor /\ Base \in Nat
  BY <1>1, <1>2 DEF Base, LoadersTurn
<1>5. ASSUME Copied = Len(received), WPlace = Base + Window
      PROVE  WPlace < Total(Coming)
  <2>1. wState \in {"CopyingHeader", "CopyingData"}
    BY <1>2, <1>4, <1>5 DEF WPlace, Place, ExchangeInv, TypeOK
  <2>2. pc["sender"] # "idle"
    BY <2>1 DEF ExchangeInv, ThreadInv
  <2>3. Current = Coming
    BY <1>2, <1>5, <2>2 DEF Copied, Current, Coming
  <2>4. /\ HeadSize = HeaderSize + Inline[Coming] /\ Inline[Coming] \in {0, DataSize[Coming]}
    BY <2>2, <2>3, SenderBusy
  <2>5. CASE wState = "CopyingHeader"
    BY <1>2, <1>3, <2>4, <2>5 DEF ExchangeInv, SenderInv, WPlace, Place, Total
  <2>6. CASE wState = "CopyingData"
    BY <1>2, <1>3, <2>3, <2>6 DEF ExchangeInv, SenderInv, WPlace, Place, Total
  <2> QED BY <2>1, <2>5, <2>6
<1> QED BY <1>1, <1>2, <1>3, <1>4, <1>5 DEF LoadersTurn

(* The next n bytes of the window, which are the next n of that object.    *)
LEMMA WindowCells ==
  ASSUME ExchangeInv, NEW n \in Nat, n <= Left
  PROVE  /\ Taken(n) \in Seq(Cell) /\ Len(Taken(n)) = n
         /\ \A i \in 1 .. n : Taken(n)[i] = buf[cursor + i]
<1>1. buf \in Seq(Cell) /\ Window = Len(buf) /\ cursor \in Nat /\ Window \in Nat
  BY Types DEF ExchangeInv, TypeOK, Window, Cell
<1>2. cursor + n <= Len(buf) /\ cursor + 1 \in Nat
  BY <1>1 DEF Left
<1> QED BY <1>1, <1>2 DEF Taken

LEMMA WindowTaken ==
  ASSUME ExchangeInv, pc["loader"] = "call", ~refused, NEW n \in Nat, n <= Left,
         RPlace + n <= Total(Coming)
  PROVE  /\ Taken(n) \in Seq(Cell) /\ Len(Taken(n)) = n
         /\ \A i \in 1 .. n : Taken(n)[i] = Byte(Coming, RPlace + i - 1)
<1>1. cursor \in Nat /\ Window \in Nat /\ cursor + n <= Window
  BY Types DEF Left
<1>2. ASSUME NEW i \in 1 .. n
      PROVE  buf[cursor + i] = Byte(Coming, RPlace + i - 1)
  <2>1. /\ LoadersTurn /\ Base = RPlace - cursor /\ Base \in Nat /\ Total(Coming) \in Nat
        /\ RPlace \in Nat
    BY LoaderBusy, Types
  <2>2. cursor + i \in 1 .. Window /\ Base + (cursor + i) <= Total(Coming)
    BY <1>1, <1>2, <2>1
  <2>3. Base + (cursor + i) - 1 = RPlace + i - 1
    BY <1>1, <1>2, <2>1
  <2> QED BY <2>1, <2>2, <2>3 DEF LoadersTurn
<1> QED BY <1>2, WindowCells

(* Nothing is received, or the object that the loader is at.               *)
Loads ==
  /\ log' = log
  /\ \/ received' = received
     \/ Len(received) < Len(log) /\ received' = Append(received, Wire(Coming))

(* A part of the object is out of the window: the call goes on, or the     *)
(* window is empty, or the object is complete, or refused.                 *)
LEMMA LoaderStepInv ==
  ASSUME ExchangeInv, pc["loader"] = "call", ~refused,
         NEW n \in Nat, n <= Left, cursor' = cursor + n, UNCHANGED <<buf, objectW, log>>,
         rState' \in {"Ready", "LoadingHeader", "LoadingData", "Error"},
         rOffset' \in Nat, rBufSize' \in Nat, rHeader' \in Seq(Cell), rBuf' \in Seq(Cell),
         rState' = "LoadingHeader" =>
           /\ rOffset' < HeaderSize /\ rOffset' <= Len(rHeader')
           /\ \A i \in 1 .. rOffset' : rHeader'[i] = Byte(Coming, i - 1)
           /\ rBuf' = << >>,
         rState' = "LoadingData" =>
           /\ rHeader' = Piece(Coming, 0, HeaderSize)
           /\ rBufSize' = DataSize[Coming] /\ rOffset' < rBufSize'
           /\ rBuf' = Piece(Coming, HeaderSize, rOffset'),
         \/ /\ rState' \in {"LoadingHeader", "LoadingData"} /\ RPlace' = RPlace + n
            /\ UNCHANGED <<pc, mutex, bufReady, received, refused>>
         \/ /\ rState' \in {"LoadingHeader", "LoadingData"} /\ RPlace' = RPlace + n
            /\ RPlace + n < Total(Coming) /\ n = Left
            /\ Ended("loader", "loop") /\ UNCHANGED <<received, refused>>
         \/ /\ rState' = "Ready" /\ RPlace + n = Total(Coming) /\ Ended("loader", "idle")
            /\ received' = Append(received, Wire(Coming)) /\ UNCHANGED refused
         \/ /\ rState' = "Error" /\ Ended("loader", "idle")
            /\ UNCHANGED received /\ refused' = TRUE
  PROVE  ExchangeInv' /\ Loads
<1>1. UNCHANGED <<buf, log, wState, wOffset>>
  BY DEF objectW
<1>2. /\ cursor' \in 0 .. Window /\ Len(log) \in Nat /\ Len(received) \in Nat /\ Window \in Nat
      /\ cursor \in Nat /\ RPlace \in Nat /\ WPlace \in Nat
  BY Types DEF Left
<1>3. /\ WPlace' = WPlace /\ Window' = Window /\ Current' = Current /\ HeadSize' = HeadSize
  BY <1>1 DEF WPlace, Window, Current, HeadSize
<1>4. /\ bufReady /\ LoadersTurn /\ Len(received) < Len(log) /\ Coming \in Message
      /\ Base = RPlace - cursor /\ Base \in Nat /\ Total(Coming) \in Nat
      /\ pc["sender"] \notin {"loop", "call"}
      /\ \/ Copied = Len(received) /\ WPlace = Base + Window /\ WPlace < Total(Coming)
         \/ Copied = Len(received) + 1 /\ wState = "Ready" /\ Base + Window >= Total(Coming)
  BY LoaderBusy
<1>5. received' = received => Coming' = Coming
  BY <1>1 DEF Coming
<1>12. Loads
  BY <1>1, <1>4 DEF Loads
<1> SUFFICES ExchangeInv'
  BY <1>12
<1>6. ASSUME /\ pc'["sender"] \notin {"call", "loop"}
             /\ pc'["sender"] # pc["sender"] =>
                  pc["sender"] = "waiting" /\ pc'["sender"] = "woken"
             /\ pc'["loader"] = "idle" => rState' \in {"Ready", "Error"}
             /\ rState' = "Error" => pc'["loader"] = "idle" /\ refused'
             /\ refused' \in BOOLEAN
             /\ pc'["loader"] = "call" => rState' # "Ready" /\ bufReady' = TRUE
             /\ pc' \in [Thread -> {"idle", "loop", "waiting", "woken", "call"}]
             /\ mutex' \in Thread \cup {"none"} /\ bufReady' \in BOOLEAN
             /\ \A u \in Thread : pc'[u] \in {"loop", "call"} <=> mutex' = u
             /\ received' \in Seq({Wire(m) : m \in Message})
             /\ rState' \in {"LoadingHeader", "LoadingData"} => received' = received
             /\ TurnInv'
      PROVE  ExchangeInv'
  <2>1. TypeOK' /\ rHeader' \in Seq(Cell) /\ rBuf' \in Seq(Cell)
    BY <1>1, <1>2, <1>3, <1>6 DEF ExchangeInv, TypeOK, Cell
  <2>2. ThreadInv'
    BY <1>1, <1>6 DEF ExchangeInv, ThreadInv
  <2>3. SenderInv'
    BY <1>1, <1>3, <1>6 DEF ExchangeInv, SenderInv
  <2>4. LoaderInv'
    BY <1>1, <1>4, <1>5, <1>6 DEF LoaderInv, Beginning
  <2> QED BY <1>6, <2>1, <2>2, <2>3, <2>4 DEF ExchangeInv
<1>7. received \in Seq({Wire(m) : m \in Message}) /\ refused \in BOOLEAN
  BY DEF ExchangeInv, TypeOK
<1>8. CASE /\ rState' \in {"LoadingHeader", "LoadingData"} /\ RPlace' = RPlace + n
           /\ UNCHANGED <<pc, mutex, bufReady, received, refused>>
  <2>1. Base' = Base /\ Copied' = Copied /\ Coming' = Coming /\ Total(Coming)' = Total(Coming)
    <3>1. Base' = (RPlace + n) - (cursor + n)
      BY <1>8 DEF Base
    <3>2. (RPlace + n) - (cursor + n) = RPlace - cursor
      BY <1>2
    <3> QED BY <1>1, <1>4, <1>5, <1>8, <3>1, <3>2 DEF Copied, Total
  <2>2. LoadersTurn'
    BY <1>1, <1>3, <1>4, <1>8, <2>1 DEF LoadersTurn, Byte
  <2>3. TurnInv'
    BY <1>4, <1>8, <2>2 DEF TurnInv
  <2> QED BY <1>4, <1>6, <1>7, <1>8, <2>3 DEF ExchangeInv, TypeOK, ThreadInv
<1>9. CASE /\ rState' \in {"LoadingHeader", "LoadingData"} /\ RPlace' = RPlace + n
           /\ RPlace + n < Total(Coming) /\ n = Left
           /\ Ended("loader", "loop") /\ UNCHANGED <<received, refused>>
  <2>1. /\ pc'["loader"] = "loop" /\ bufReady' = FALSE /\ pc'["sender"] \notin {"loop", "call"}
        /\ pc'["sender"] # pc["sender"] => pc["sender"] = "waiting" /\ pc'["sender"] = "woken"
    BY <1>4, <1>9 DEF Ended, Thread
  <2>2. Copied' = Copied
    BY <1>1, <2>1 DEF Copied
  <2>3. RPlace + n = Base + Window
    BY <1>2, <1>4, <1>9 DEF Left
  <2>4. Copied = Len(received) /\ WPlace = RPlace + n
    BY <1>2, <1>4, <1>9, <2>3
  <2>5. WPlace' = RPlace' + 0
    BY <1>2, <1>3, <1>9, <2>4
  <2>6. SendersTurn'
    BY <1>9, <2>1, <2>2, <2>4, <2>5 DEF SendersTurn
  <2>7. TurnInv'
    BY <2>1, <2>6 DEF TurnInv
  <2> QED BY <1>6, <1>7, <1>9, <2>1, <2>7 DEF Ended
<1>10. CASE /\ rState' = "Ready" /\ RPlace + n = Total(Coming) /\ Ended("loader", "idle")
            /\ received' = Append(received, Wire(Coming)) /\ UNCHANGED refused
  <2>1. /\ pc'["loader"] = "idle" /\ bufReady' = FALSE /\ pc'["sender"] \notin {"loop", "call"}
        /\ pc'["sender"] # pc["sender"] => pc["sender"] = "waiting" /\ pc'["sender"] = "woken"
    BY <1>4, <1>10 DEF Ended, Thread
  <2>2. Copied' = Copied
    BY <1>1, <2>1 DEF Copied
  <2>3. received' \in Seq({Wire(m) : m \in Message}) /\ Len(received') = Len(received) + 1
    BY <1>4, <1>7, <1>10
  <2>4. Base + Window >= RPlace + n
    BY <1>2, <1>4 DEF Left
  <2>5. Copied = Len(received) + 1 /\ wState = "Ready"
    BY <1>2, <1>4, <1>10, <2>4
  <2>6. WPlace' = RPlace' + 0
    BY <1>1, <1>10, <2>5 DEF WPlace, RPlace, Place
  <2>7. SendersTurn'
    BY <2>1, <2>2, <2>3, <2>5, <2>6 DEF SendersTurn
  <2>8. TurnInv'
    BY <2>1, <2>7 DEF TurnInv
  <2> QED BY <1>6, <1>7, <1>10, <2>1, <2>3, <2>8 DEF Ended
<1>11. CASE /\ rState' = "Error" /\ Ended("loader", "idle")
            /\ UNCHANGED received /\ refused' = TRUE
  <2>1. /\ pc'["loader"] = "idle" /\ bufReady' = FALSE /\ pc'["sender"] \notin {"loop", "call"}
        /\ pc'["sender"] # pc["sender"] => pc["sender"] = "waiting" /\ pc'["sender"] = "woken"
    BY <1>4, <1>11 DEF Ended, Thread
  <2>2. TurnInv'
    BY <1>11 DEF TurnInv
  <2> QED BY <1>6, <1>7, <1>11, <2>1, <2>2 DEF Ended
<1> QED BY <1>8, <1>9, <1>10, <1>11

(* After an Error the bytes are anything, but the loader keeps its place   *)
(* in what it took for an object, and nothing counts as received.          *)
LEMMA AfterErrorInv ==
  ASSUME ExchangeInv, pc["loader"] = "call", refused,
         NEW n \in Nat, n <= Left, cursor' = cursor + n, UNCHANGED <<buf, objectW, log>>,
         UNCHANGED <<received, refused>>,
         rState' \in {"Ready", "LoadingHeader", "LoadingData", "Error"},
         rOffset' \in Nat, rBufSize' \in Nat, rHeader' \in Seq(Cell), rBuf' \in Seq(Cell),
         rState' = "LoadingHeader" => rOffset' < HeaderSize /\ rOffset' <= Len(rHeader'),
         rState' = "LoadingData" => rOffset' < rBufSize',
         \/ /\ rState' \in {"LoadingHeader", "LoadingData"}
            /\ UNCHANGED <<pc, mutex, bufReady>>
         \/ rState' \in {"LoadingHeader", "LoadingData"} /\ Ended("loader", "loop")
         \/ rState' \in {"Ready", "Error"} /\ Ended("loader", "idle")
  PROVE  ExchangeInv' /\ Loads
<1>1. /\ UNCHANGED <<buf, log, wState, wOffset>> /\ cursor' \in 0 .. Window /\ Window' = Window
      /\ Current' = Current /\ HeadSize' = HeadSize
  BY Types DEF objectW, Left, Window, Current, HeadSize
<1>2. pc["sender"] \notin {"loop", "call"} /\ bufReady = TRUE
  BY DEF ExchangeInv, TypeOK, ThreadInv, Thread
<1>3. /\ pc'["sender"] \notin {"loop", "call"}
      /\ pc'["sender"] # pc["sender"] => pc["sender"] = "waiting" /\ pc'["sender"] = "woken"
      /\ pc'["loader"] = "call" => bufReady' /\ rState' \in {"LoadingHeader", "LoadingData"}
      /\ pc'["loader"] = "idle" <=> rState' \in {"Ready", "Error"}
  <2>1. CASE UNCHANGED <<pc, mutex, bufReady>> /\ rState' \in {"LoadingHeader", "LoadingData"}
    BY <1>2, <2>1
  <2>2. CASE rState' \in {"LoadingHeader", "LoadingData"} /\ Ended("loader", "loop")
    BY <1>2, <2>2 DEF Ended, Thread
  <2>3. CASE rState' \in {"Ready", "Error"} /\ Ended("loader", "idle")
    BY <1>2, <2>3 DEF Ended, Thread
  <2> QED BY <2>1, <2>2, <2>3
<1>4. TypeOK'
  <2>1. /\ pc' \in [Thread -> {"idle", "loop", "waiting", "woken", "call"}]
        /\ mutex' \in Thread \cup {"none"} /\ bufReady' \in BOOLEAN
        /\ \A u \in Thread : pc'[u] \in {"loop", "call"} <=> mutex' = u
    BY DEF ExchangeInv, TypeOK, Ended
  <2> QED BY <1>1, <2>1 DEF ExchangeInv, TypeOK
<1>5. ThreadInv' /\ SenderInv'
  BY <1>1, <1>2, <1>3 DEF ExchangeInv, ThreadInv, SenderInv
<1>6. LoaderInv' /\ TurnInv'
  BY <1>3 DEF LoaderInv, TurnInv
<1> QED BY <1>1, <1>4, <1>5, <1>6 DEF ExchangeInv, Loads

LEMMA BeginLoadInv ==
  ASSUME ExchangeInv, BeginLoad
  PROVE  ExchangeInv'
<1>1. /\ pc["loader"] = "call" /\ rState' = "LoadingHeader" /\ rOffset' = 0
      /\ rBuf' = << >> /\ rBufSize' = 0
      /\ UNCHANGED <<pc, mutex, bufReady, buf, cursor, objectW, log, rHeader, received, refused>>
  BY DEF BeginLoad, history
<1>2. cursor' = cursor + 0 /\ 0 <= Left
  BY <1>1, Types DEF Left
<1>3. rState = "Ready" /\ RPlace' = RPlace + 0
  BY <1>1 DEF BeginLoad, ExchangeInv, ThreadInv, RPlace, Place
<1>4. /\ rHeader' \in Seq(Cell) /\ rBuf' \in Seq(Cell)
      /\ rOffset' < HeaderSize /\ rOffset' <= Len(rHeader') /\ 0 \in Nat
  BY <1>1, Types DEF ExchangeInv
<1>5. CASE ~refused
  BY <1>1, <1>2, <1>3, <1>4, <1>5, LoaderStepInv
<1>6. CASE refused
  BY <1>1, <1>2, <1>4, <1>6, AfterErrorInv
<1> QED BY <1>5, <1>6

(* A header names its object: they differ in their first byte.             *)
LEMMA HeaderNamesObject ==
  ASSUME NEW m \in Message
  PROVE  SizesIn(Piece(m, 0, HeaderSize)) = {DataSize[m]}
<1>1. ASSUME NEW x \in Message, Piece(m, 0, HeaderSize) = Piece(x, 0, HeaderSize)
      PROVE  x = m
  <2>1. 1 \in 1 .. HeaderSize
    BY ExchangeAssumption
  <2>2. \A y \in Message : Piece(y, 0, HeaderSize)[1] = <<y, 0>>
    BY <2>1 DEF Piece, Byte
  <2>3. <<m, 0>> = <<x, 0>>
    BY <1>1, <2>2
  <2> QED BY <2>3
<1>2. {x \in Message : Piece(m, 0, HeaderSize) = Piece(x, 0, HeaderSize)} = {m}
  BY <1>1
<1> QED BY <1>2 DEF SizesIn

(* Appending the bytes taken to those loaded before.                       *)
IsPiece(s, m, from, n) ==
  s \in Seq(Cell) /\ Len(s) = n /\ \A i \in 1 .. n : s[i] = Byte(m, from + i - 1)

LEMMA PieceGrows ==
  ASSUME NEW m \in Message, NEW from \in Nat, NEW k \in Nat, NEW n \in Nat,
         NEW s, IsPiece(s, m, from, k), NEW b, b = from + k, NEW t, IsPiece(t, m, b, n)
  PROVE  IsPiece(s \o t, m, from, k + n) /\ s \o t = Piece(m, from, k + n)
<1> SUFFICES ASSUME NEW r, r = s \o t
             PROVE  IsPiece(r, m, from, k + n) /\ r = Piece(m, from, k + n)
  OBVIOUS
<1>1. /\ r \in Seq(Cell) /\ Len(r) = k + n
      /\ \A i \in 1 .. k + n : r[i] = IF i <= k THEN s[i] ELSE t[i - k]
  BY ConcatProperties DEF IsPiece
<1>2. ASSUME NEW i \in 1 .. k + n
      PROVE  r[i] = Byte(m, from + i - 1)
  <2>1. CASE i <= k
    BY <1>1, <1>2, <2>1 DEF IsPiece
  <2>2. CASE i > k
    <3>1. i - k \in 1 .. n /\ r[i] = t[i - k]
      BY <1>1, <1>2, <2>2
    <3>2. b + (i - k) - 1 = from + i - 1
      BY <1>2
    <3>3. t[i - k] = Byte(m, b + (i - k) - 1)
      BY <3>1, Zenon DEF IsPiece
    <3> QED BY <3>1, <3>2, <3>3, Zenon
  <2>3. i <= k \/ i > k
    BY <1>2
  <2> QED BY <2>1, <2>2, <2>3, Zenon
<1>3. r = [i \in 1 .. k + n |-> r[i]]
  BY <1>1, LenProperties
<1> QED BY <1>1, <1>2, <1>3 DEF Piece, IsPiece

LEMMA LoadHeaderBefore ==
  ASSUME ExchangeInv, ~refused, LoadHeader
  PROVE  ExchangeInv' /\ Loads
<1>1. /\ pc["loader"] = "call" /\ rState = "LoadingHeader"
      /\ UNCHANGED <<buf, objectW, log>> /\ rBuf' = rBuf
  BY DEF LoadHeader
<1>2. /\ Coming \in Message /\ DataSize[Coming] \in Nat /\ Total(Coming) = HeaderSize + DataSize[Coming]
  BY <1>1, LoaderBusy DEF Total
<1>3. /\ RPlace = rOffset /\ rOffset \in Nat /\ HeaderSize \in Nat \ {0} /\ Left \in Nat
      /\ rOffset < HeaderSize /\ rOffset <= Len(rHeader) /\ rBuf = << >>
      /\ \A i \in 1 .. rOffset : rHeader[i] = Byte(Coming, i - 1)
      /\ rHeader \in Seq(Cell) /\ rBuf \in Seq(Cell) /\ rBufSize \in Nat
  BY <1>1, Types DEF RPlace, Place, ExchangeInv, LoaderInv, Beginning, TypeOK, Left
<1> DEFINE n == Least(Left, HeaderSize - rOffset)
<1>4. /\ n \in Nat /\ n <= Left /\ n <= HeaderSize - rOffset
      /\ n < HeaderSize - rOffset => n = Left
  <2>1. HeaderSize - rOffset \in Nat
    BY <1>3
  <2> QED BY <1>3, <2>1, LeastOf
<1>5. rHeader' = SubSeq(rHeader, 1, rOffset) \o Taken(n) /\ cursor' = cursor + n
  BY DEF LoadHeader
<1>6. \/ /\ rOffset + n < HeaderSize /\ rOffset' = rOffset + n /\ Answer("loader", "InProcess")
         /\ UNCHANGED <<rState, rBufSize, received, refused>>
      \/ /\ rOffset + n = HeaderSize
         /\ \E size \in SizesIn(rHeader') : HeaderLoaded(size, n)
  BY DEF LoadHeader, history
<1> HIDE DEF n
<1>7. /\ rHeader' \in Seq(Cell) /\ Len(rHeader') = rOffset + n
      /\ rHeader' = Piece(Coming, 0, rOffset + n)
  <2>1. IsPiece(Taken(n), Coming, RPlace, n)
    <3>1. RPlace + n <= Total(Coming)
      BY <1>2, <1>3, <1>4
    <3> QED BY <1>1, <1>4, <3>1, WindowTaken DEF IsPiece
  <2>2. IsPiece(SubSeq(rHeader, 1, rOffset), Coming, 0, rOffset)
    <3>1. /\ SubSeq(rHeader, 1, rOffset) \in Seq(Cell) /\ Len(SubSeq(rHeader, 1, rOffset)) = rOffset
          /\ \A i \in 1 .. rOffset : SubSeq(rHeader, 1, rOffset)[i] = rHeader[i]
      BY <1>3
    <3> QED BY <1>3, <3>1 DEF IsPiece
  <2>3. RPlace = 0 + rOffset /\ 0 \in Nat
    BY <1>3
  <2>4. IsPiece(rHeader', Coming, 0, rOffset + n) /\ rHeader' = Piece(Coming, 0, rOffset + n)
    <3>1. Coming \in Message /\ rOffset \in Nat /\ n \in Nat
      BY <1>2, <1>3, <1>4
    <3> DEFINE h == SubSeq(rHeader, 1, rOffset)
    <3>2. IsPiece(h, Coming, 0, rOffset) /\ rHeader' = h \o Taken(n)
      BY <1>5, <2>2
    <3> HIDE DEF h
    <3>3. LET r == h \o Taken(n)
          IN  IsPiece(r, Coming, 0, rOffset + n) /\ r = Piece(Coming, 0, rOffset + n)
      BY <2>1, <2>3, <3>1, <3>2, PieceGrows
    <3> QED BY <3>2, <3>3
  <2> QED BY <2>4 DEF IsPiece
<1>8. TypeOK
  BY DEF ExchangeInv
<1>9. CASE /\ rOffset + n < HeaderSize /\ rOffset' = rOffset + n /\ Answer("loader", "InProcess")
           /\ UNCHANGED <<rState, rBufSize, received, refused>>
  <2>1. Ended("loader", "loop")
    BY <1>1, <1>8, <1>9, Answered DEF Thread
  <2>2. /\ rState' = "LoadingHeader" /\ RPlace' = RPlace + n /\ n = Left
        /\ RPlace + n < Total(Coming) /\ rOffset' \in Nat
    BY <1>1, <1>2, <1>3, <1>4, <1>9 DEF RPlace, Place
  <2>3. \A i \in 1 .. rOffset' : rHeader'[i] = Byte(Coming, i - 1)
    BY <1>7, <1>9, <2>2 DEF Piece
  <2>4. rOffset' <= Len(rHeader')
    BY <1>7, <1>9, <2>2
  <2> QED BY <1>1, <1>3, <1>4, <1>5, <1>7, <1>9, <2>1, <2>2, <2>3, <2>4, LoaderStepInv
<1>10. CASE /\ rOffset + n = HeaderSize
            /\ \E size \in SizesIn(rHeader') : HeaderLoaded(size, n)
  <2> DEFINE size == DataSize[Coming]
  <2>1. HeaderLoaded(size, n) /\ rHeader' = Piece(Coming, 0, HeaderSize)
    BY <1>2, <1>7, <1>10, HeaderNamesObject
  <2>2. CASE Refuse
    <3>1. rState' = "Error" /\ rOffset' = HeaderSize /\ UNCHANGED <<rBufSize, received>>
          /\ refused' = TRUE /\ Ended("loader", "idle")
      BY <1>1, <1>8, <2>2, Answered DEF Refuse, Thread
    <3> QED BY <1>1, <1>3, <1>4, <1>5, <1>7, <3>1, LoaderStepInv
  <2>3. CASE /\ size = 0
             /\ rState' = "Ready" /\ rOffset' = HeaderSize
             /\ received' = Append(received, [header |-> rHeader', data |-> << >>])
             /\ UNCHANGED <<rBufSize, refused>>
             /\ Answer("loader", "Ready")
    <3>1. Ended("loader", "idle")
      BY <1>1, <1>8, <2>3, Answered DEF Thread
    <3>2. RPlace + n = Total(Coming)
      BY <1>2, <1>3, <1>10, <2>3
    <3>3. Wire(Coming) = [header |-> rHeader', data |-> << >>]
      <4>1. Piece(Coming, HeaderSize, 0) = << >>
        BY DEF Piece
      <4> QED BY <2>1, <2>3, <4>1 DEF Wire
    <3> QED BY <1>1, <1>3, <1>4, <1>5, <1>7, <2>3, <3>1, <3>2, <3>3, LoaderStepInv
  <2>4. CASE /\ 0 < size /\ rBufSize' = size /\ rOffset' = 0 /\ rState' = "LoadingData"
             /\ UNCHANGED <<received, refused>>
             /\ IF Left = n THEN Answer("loader", "InProcess")
                            ELSE UNCHANGED <<pc, mutex, bufReady>>
    <3>1. RPlace' = RPlace + n /\ RPlace + n < Total(Coming)
      BY <1>2, <1>3, <1>10, <2>4 DEF RPlace, Place
    <3>2. rBuf' = Piece(Coming, HeaderSize, rOffset') /\ rBuf' \in Seq(Cell)
      <4>1. Piece(Coming, HeaderSize, 0) = << >>
        BY DEF Piece
      <4> QED BY <1>1, <1>3, <2>4, <4>1
    <3>3. CASE Left = n
      <4>1. Ended("loader", "loop")
        BY <1>1, <1>8, <2>4, <3>3, Answered DEF Thread
      <4> QED BY <1>1, <1>2, <1>3, <1>4, <1>5, <1>7, <2>1, <2>4, <3>1, <3>2, <3>3, <4>1, LoaderStepInv
    <3>4. CASE Left # n
      BY <1>1, <1>2, <1>3, <1>4, <1>5, <1>7, <2>1, <2>4, <3>1, <3>2, <3>4, LoaderStepInv
    <3> QED BY <3>3, <3>4
  <2> QED BY <2>1, <2>2, <2>3, <2>4 DEF HeaderLoaded, Receive, history
<1> QED BY <1>6, <1>9, <1>10

LEMMA LoadDataBefore ==
  ASSUME ExchangeInv, ~refused, LoadData
  PROVE  ExchangeInv' /\ Loads
<1>1. /\ pc["loader"] = "call" /\ rState = "LoadingData"
      /\ UNCHANGED <<buf, objectW, log>> /\ UNCHANGED <<rHeader, rBufSize>>
  BY DEF LoadData
<1>2. /\ Coming \in Message /\ DataSize[Coming] \in Nat /\ Total(Coming) = HeaderSize + DataSize[Coming]
  BY <1>1, LoaderBusy DEF Total
<1>3. /\ RPlace = HeaderSize + rOffset /\ rOffset \in Nat /\ HeaderSize \in Nat \ {0} /\ Left \in Nat
      /\ rHeader = Piece(Coming, 0, HeaderSize) /\ rBufSize = DataSize[Coming]
      /\ rOffset < rBufSize /\ rBuf = Piece(Coming, HeaderSize, rOffset)
      /\ rHeader \in Seq(Cell) /\ rBuf \in Seq(Cell)
  BY <1>1, Types DEF RPlace, Place, ExchangeInv, LoaderInv, Beginning, Left
<1> DEFINE n == Least(Left, rBufSize - rOffset)
<1>4. n \in Nat /\ n <= Left /\ n <= rBufSize - rOffset /\ (n < rBufSize - rOffset => n = Left)
  <2>1. rBufSize - rOffset \in Nat
    BY <1>2, <1>3
  <2> QED BY <1>3, <2>1, LeastOf
<1>5. rBuf' = rBuf \o Taken(n) /\ cursor' = cursor + n /\ rOffset' = rOffset + n
  BY DEF LoadData
<1>6. IF rOffset + n = rBufSize
        THEN /\ rState' = "Ready"
             /\ received' = Append(received, [header |-> rHeader, data |-> rBuf'])
             /\ Answer("loader", "Ready")
        ELSE Answer("loader", "InProcess") /\ UNCHANGED <<rState, received>>
  BY DEF LoadData, Receive, history
<1>11. UNCHANGED refused
  BY DEF LoadData, Receive, history
<1> HIDE DEF n
<1>7. rBuf' \in Seq(Cell) /\ rBuf' = Piece(Coming, HeaderSize, rOffset + n)
  <2>1. IsPiece(Taken(n), Coming, RPlace, n)
    <3>1. RPlace + n <= Total(Coming)
      BY <1>2, <1>3, <1>4
    <3> QED BY <1>1, <1>4, <3>1, WindowTaken DEF IsPiece
  <2>2. IsPiece(rBuf, Coming, HeaderSize, rOffset)
    BY <1>3 DEF Piece, IsPiece
  <2>3. IsPiece(rBuf', Coming, HeaderSize, rOffset + n) /\ rBuf' = Piece(Coming, HeaderSize, rOffset + n)
    <3>1. RPlace = HeaderSize + rOffset /\ HeaderSize \in Nat
      BY <1>3
    <3>2. Coming \in Message /\ rOffset \in Nat /\ n \in Nat
      BY <1>2, <1>3, <1>4
    <3>3. LET r == rBuf \o Taken(n)
          IN  /\ IsPiece(r, Coming, HeaderSize, rOffset + n)
              /\ r = Piece(Coming, HeaderSize, rOffset + n)
      BY <2>1, <2>2, <3>1, <3>2, PieceGrows
    <3> QED BY <1>5, <3>3
  <2> QED BY <2>3 DEF IsPiece
<1>8. TypeOK
  BY DEF ExchangeInv
<1>9. CASE rOffset + n = rBufSize
  <2>1. /\ rState' = "Ready" /\ Ended("loader", "idle")
        /\ received' = Append(received, [header |-> rHeader, data |-> rBuf'])
    BY <1>1, <1>6, <1>8, <1>9, Answered DEF Thread
  <2>2. RPlace + n = Total(Coming) /\ rOffset' \in Nat /\ rBufSize' \in Nat
    BY <1>1, <1>2, <1>3, <1>4, <1>5, <1>9
  <2>3. Wire(Coming) = [header |-> rHeader, data |-> rBuf']
    BY <1>3, <1>7, <1>9 DEF Wire
  <2> QED BY <1>1, <1>3, <1>4, <1>5, <1>7, <1>11, <2>1, <2>2, <2>3, LoaderStepInv
<1>10. CASE rOffset + n # rBufSize
  <2>1. rState' = "LoadingData" /\ Ended("loader", "loop") /\ UNCHANGED received
    BY <1>1, <1>6, <1>8, <1>10, Answered DEF Thread
  <2>2. /\ RPlace' = RPlace + n /\ RPlace + n < Total(Coming) /\ n = Left
        /\ rOffset' \in Nat /\ rBufSize' \in Nat /\ rOffset' < rBufSize'
    <3>1. RPlace' = HeaderSize + rOffset'
      BY <2>1 DEF RPlace, Place
    <3>2. rBufSize' = rBufSize /\ rOffset' = rOffset + n
      BY <1>1, <1>5
    <3> QED BY <1>2, <1>3, <1>4, <1>10, <3>1, <3>2
  <2> QED BY <1>1, <1>3, <1>4, <1>5, <1>7, <1>11, <2>1, <2>2, LoaderStepInv
<1> QED BY <1>9, <1>10

(* The same two steps after an Error.                                      *)
LEMMA LoadHeaderInv ==
  ASSUME ExchangeInv, LoadHeader
  PROVE  ExchangeInv' /\ Loads
<1> SUFFICES ASSUME refused PROVE ExchangeInv' /\ Loads
  BY LoadHeaderBefore
<1>1. /\ pc["loader"] = "call" /\ rState = "LoadingHeader" /\ TypeOK
      /\ UNCHANGED <<buf, objectW, log>> /\ rBuf' = rBuf
  BY DEF LoadHeader, ExchangeInv
<1>2. /\ rOffset \in Nat /\ HeaderSize \in Nat \ {0} /\ Left \in Nat /\ rBufSize \in Nat
      /\ rOffset < HeaderSize /\ rOffset <= Len(rHeader)
      /\ rHeader \in Seq(Cell) /\ rBuf \in Seq(Cell)
  BY <1>1, Types DEF ExchangeInv, LoaderInv, TypeOK, Left
<1> DEFINE n == Least(Left, HeaderSize - rOffset)
<1>3. n \in Nat /\ n <= Left /\ n <= HeaderSize - rOffset
  <2>1. HeaderSize - rOffset \in Nat /\ Left \in Nat
    BY <1>2
  <2> QED BY <2>1, LeastOf
<1>4. rHeader' = SubSeq(rHeader, 1, rOffset) \o Taken(n) /\ cursor' = cursor + n
  BY DEF LoadHeader
<1>5. \/ /\ rOffset + n < HeaderSize /\ rOffset' = rOffset + n /\ Answer("loader", "InProcess")
         /\ UNCHANGED <<rState, rBufSize, received, refused>>
      \/ \E size \in SizesIn(rHeader') : HeaderLoaded(size, n)
  BY DEF LoadHeader, history
<1> HIDE DEF n
<1>6. rHeader' \in Seq(Cell) /\ Len(rHeader') = rOffset + n
  <2>1. Taken(n) \in Seq(Cell) /\ Len(Taken(n)) = n
    BY <1>3, WindowCells
  <2>2. SubSeq(rHeader, 1, rOffset) \in Seq(Cell) /\ Len(SubSeq(rHeader, 1, rOffset)) = rOffset
    BY <1>2
  <2> QED BY <1>4, <2>1, <2>2, ConcatProperties
<1>7. CASE /\ rOffset + n < HeaderSize /\ rOffset' = rOffset + n /\ Answer("loader", "InProcess")
           /\ UNCHANGED <<rState, rBufSize, received, refused>>
  <2>1. Ended("loader", "loop")
    BY <1>1, <1>7, Answered DEF Thread
  <2>2. rOffset' \in Nat /\ rOffset' < HeaderSize /\ rOffset' <= Len(rHeader')
    BY <1>2, <1>3, <1>6, <1>7
  <2> QED BY <1>1, <1>2, <1>3, <1>4, <1>6, <1>7, <2>1, <2>2, AfterErrorInv
<1>8. CASE \E size \in SizesIn(rHeader') : HeaderLoaded(size, n)
  <2>1. PICK size \in SizesIn(rHeader') : HeaderLoaded(size, n)
    BY <1>8
  <2>2. size \in Int
    BY Types, ExchangeAssumption DEF SizesIn
  <2>3. CASE Refuse
    <3>1. /\ rState' = "Error" /\ rOffset' = HeaderSize /\ UNCHANGED <<rBufSize, received, refused>>
          /\ Ended("loader", "idle")
      BY <1>1, <2>3, Answered DEF Refuse, Thread, TypeOK
    <3> QED BY <1>1, <1>2, <1>3, <1>4, <1>6, <3>1, AfterErrorInv
  <2>4. CASE /\ rState' = "Ready" /\ rOffset' = HeaderSize /\ Receive(rHeader', << >>)
             /\ UNCHANGED rBufSize /\ Answer("loader", "Ready")
    <3>1. Ended("loader", "idle") /\ UNCHANGED <<received, refused>>
      BY <1>1, <2>4, Answered DEF Receive, Thread
    <3> QED BY <1>1, <1>2, <1>3, <1>4, <1>6, <2>4, <3>1, AfterErrorInv
  <2>5. CASE /\ 0 < size /\ rBufSize' = size /\ rOffset' = 0 /\ rState' = "LoadingData"
             /\ UNCHANGED <<received, refused>>
             /\ IF Left = n THEN Answer("loader", "InProcess")
                            ELSE UNCHANGED <<pc, mutex, bufReady>>
    <3>1. rOffset' \in Nat /\ rBufSize' \in Nat /\ rOffset' < rBufSize' /\ rBuf' \in Seq(Cell)
      BY <1>1, <1>2, <2>2, <2>5
    <3>2. UNCHANGED <<pc, mutex, bufReady>> \/ Ended("loader", "loop")
      BY <1>1, <2>5, Answered DEF Thread
    <3> QED BY <1>1, <1>2, <1>3, <1>4, <1>6, <2>5, <3>1, <3>2, AfterErrorInv
  <2> QED BY <2>1, <2>3, <2>4, <2>5 DEF HeaderLoaded, history
<1> QED BY <1>5, <1>7, <1>8

LEMMA LoadDataInv ==
  ASSUME ExchangeInv, LoadData
  PROVE  ExchangeInv' /\ Loads
<1> SUFFICES ASSUME refused PROVE ExchangeInv' /\ Loads
  BY LoadDataBefore
<1>1. /\ pc["loader"] = "call" /\ rState = "LoadingData" /\ TypeOK
      /\ UNCHANGED <<buf, objectW, log>> /\ UNCHANGED <<rHeader, rBufSize>>
      /\ UNCHANGED <<received, refused>>
  BY DEF LoadData, Receive, history, ExchangeInv
<1>2. /\ rOffset \in Nat /\ Left \in Nat /\ rBufSize \in Nat /\ rOffset < rBufSize
      /\ rHeader \in Seq(Cell) /\ rBuf \in Seq(Cell)
  BY <1>1, Types DEF ExchangeInv, LoaderInv, TypeOK, Left
<1> DEFINE n == Least(Left, rBufSize - rOffset)
<1>3. n \in Nat /\ n <= Left /\ n <= rBufSize - rOffset
  <2>1. rBufSize - rOffset \in Nat
    BY <1>2
  <2> QED BY <1>2, <2>1, LeastOf
<1>4. rBuf' = rBuf \o Taken(n) /\ cursor' = cursor + n /\ rOffset' = rOffset + n
  BY DEF LoadData
<1>5. IF rOffset + n = rBufSize THEN rState' = "Ready" /\ Answer("loader", "Ready")
                                ELSE Answer("loader", "InProcess") /\ UNCHANGED rState
  BY DEF LoadData
<1> HIDE DEF n
<1>6. rBuf' \in Seq(Cell) /\ rOffset' \in Nat
  BY <1>2, <1>3, <1>4, WindowCells, ConcatProperties
<1>7. CASE rOffset + n = rBufSize
  <2>1. rState' = "Ready" /\ Ended("loader", "idle")
    BY <1>1, <1>5, <1>7, Answered DEF Thread
  <2> QED BY <1>1, <1>2, <1>3, <1>4, <1>6, <2>1, AfterErrorInv
<1>8. CASE rOffset + n # rBufSize
  <2>1. rState' = "LoadingData" /\ Ended("loader", "loop")
    BY <1>1, <1>5, <1>8, Answered DEF Thread
  <2>2. rOffset' < rBufSize'
    BY <1>1, <1>2, <1>3, <1>4, <1>8
  <2> QED BY <1>1, <1>2, <1>3, <1>4, <1>6, <2>1, <2>2, AfterErrorInv
<1> QED BY <1>7, <1>8

-----------------------------------------------------------------------------
LEMMA NextInv == ExchangeInv /\ [Next]_vars => ExchangeInv'
<1> SUFFICES ASSUME ExchangeInv, [Next]_vars PROVE ExchangeInv'
  OBVIOUS
<1>1. CASE UNCHANGED vars
  <2>1. UNCHANGED <<pc, mutex, bufReady, buf, cursor, wState, wOffset, log,
                    rState, rOffset, rHeader, rBuf, rBufSize, received, refused>>
    BY <1>1 DEF vars
  <2>2. /\ WPlace' = WPlace /\ RPlace' = RPlace /\ Window' = Window /\ Base' = Base
        /\ Copied' = Copied /\ Coming' = Coming /\ Current' = Current /\ HeadSize' = HeadSize
    BY <2>1 DEF WPlace, RPlace, Window, Base, Copied, Coming, Current, HeadSize
  <2>3. TypeOK' /\ ThreadInv' /\ SenderInv' /\ LoaderInv'
    BY <2>1, <2>2 DEF ExchangeInv, TypeOK, ThreadInv, SenderInv, LoaderInv, Beginning
  <2>4. TurnInv'
    BY <2>1, <2>2 DEF ExchangeInv, TurnInv, SendersTurn, LoadersTurn
  <2> QED BY <2>1, <2>3, <2>4 DEF ExchangeInv
<1>2. CASE Next
  BY <1>2, SendDsonInv, LoopInv, BeginCopyInv, CopyHeaderInv, CopyDataInv, LoadDsonInv,
     BeginLoadInv, LoadHeaderInv, LoadDataInv DEF Next, SenderStep, LoaderStep
<1> QED BY <1>1, <1>2

(* The invariant that the safety properties follow from: the two threads   *)
(* are at the same byte of the same object, or the window is between them. *)
THEOREM ExchangeKept == Spec => []ExchangeInv
BY InitInv, NextInv, PTL DEF Spec

(* The variables of both threads keep their types, and a thread is in the  *)
(* body of its loop exactly when it holds the mutex.                       *)
THEOREM TypeCorrect == Spec => []TypeOK
<1>1. ExchangeInv => TypeOK
  BY DEF ExchangeInv
<1> QED BY <1>1, ExchangeKept, PTL

(* Between two calls of copy_to_buf_* and load_from_buf sender and loader  *)
(* are in step, whatever the size of the window and of the objects.        *)
THEOREM KeepsInStep == Spec => []InStep
<1>1. ExchangeInv => InStep
  <2> SUFFICES ASSUME ExchangeInv, \A t \in Thread : pc[t] # "call", ~refused
               PROVE  IF ~bufReady THEN WPlace = RPlace
                      ELSE \/ WPlace = RPlace + Window
                           \/ WPlace = 0 /\ RPlace + Window >= Total(Coming)
    BY DEF InStep, WPlace, RPlace, Total, Coming
  <2>1. pc["sender"] # "call" /\ pc["loader"] # "call" /\ Base = RPlace
    BY DEF Thread, Base
  <2>2. WPlace \in Nat /\ RPlace \in Nat
    BY Types
  <2>3. wState = "Ready" => WPlace = 0
    BY DEF WPlace, Place
  <2>4. CASE ~bufReady
    BY <2>1, <2>2, <2>4 DEF ExchangeInv, TurnInv, SendersTurn
  <2>5. CASE bufReady
    BY <2>1, <2>3, <2>5 DEF ExchangeInv, TurnInv, LoadersTurn
  <2> QED BY <2>4, <2>5
<1> QED BY <1>1, ExchangeKept, PTL

(* The assert(false) of the switches of copy_to_buf_internal and of        *)
(* load_from_buf are never reached.                                        *)
THEOREM AssertsDead == Spec => []AssertsHold
<1>1. ExchangeInv => AssertsHold
  BY DEF ExchangeInv, SenderInv, LoaderInv, AssertsHold
<1> QED BY <1>1, ExchangeKept, PTL

-----------------------------------------------------------------------------
(* The sender's side of the refinement: send_dson sends an object.         *)
LEMMA SendSends ==
  ASSUME ExchangeInv, NEW m \in Message, SendDson(m)
  PROVE  SentObjects' = Append(SentObjects, Wire(m)) /\ received' = received
<1> DEFINE n       == Len(log)
           Objects == {Wire(x) : x \in Message}
<1>1. log \in Seq(Message) /\ n \in Nat
  BY DEF ExchangeInv, TypeOK
<1>2. log' = Append(log, m) /\ received' = received
  BY DEF SendDson, history
<1>3. Len(log') = n + 1 /\ (\A k \in 1 .. n : log'[k] = log[k]) /\ log'[n + 1] = m
  BY <1>1, <1>2, AppendProperties
<1>4. SentObjects' = [k \in 1 .. n + 1 |-> Wire(log'[k])]
  BY <1>3 DEF SentObjects, Wire
<1>5. /\ SentObjects \in Seq(Objects) /\ Len(SentObjects) = n
      /\ \A k \in 1 .. n : SentObjects[k] = Wire(log[k])
  BY <1>1 DEF SentObjects
<1>6. Wire(m) \in Objects
  OBVIOUS
<1> DEFINE longer == Append(SentObjects, Wire(m))
<1>7. /\ longer \in Seq(Objects) /\ Len(longer) = n + 1
      /\ \A k \in 1 .. n : longer[k] = SentObjects[k]
      /\ longer[n + 1] = Wire(m)
  BY <1>5, <1>6, AppendProperties
<1> HIDE DEF longer
<1>8. longer = [k \in 1 .. n + 1 |-> longer[k]]
  BY <1>7
<1>9. ASSUME NEW k \in 1 .. n + 1 PROVE longer[k] = Wire(log'[k])
  <2>1. CASE k \in 1 .. n
    BY <2>1, <1>3, <1>5, <1>7
  <2>2. CASE k = n + 1
    BY <2>2, <1>3, <1>7
  <2> QED BY <2>1, <2>2, <1>1
<1>10. SentObjects' = longer
  BY <1>4, <1>8, <1>9
<1> QED BY <1>2, <1>10 DEF longer

(* Everything else than send_dson loads an object or changes neither end.  *)
LEMMA StepLoads ==
  ASSUME ExchangeInv, [Next]_vars
  PROVE  Loads \/ \E m \in Message : SendDson(m)
<1>1. ASSUME NEW t \in Thread, Loop(t) PROVE Loads
  BY <1>1 DEF Loop, ComeTurn, Wait, Timeout, Relock, Loads, history
<1>2. CASE SenderStep
  BY <1>2 DEF SenderStep, BeginCopy, CopyHeader, CopyData, Loads, history
<1>3. CASE LoadDson \/ BeginLoad
  BY <1>3 DEF LoadDson, BeginLoad, Loads, history
<1>4. CASE LoadHeader \/ LoadData
  BY <1>4, LoadHeaderInv, LoadDataInv
<1>5. CASE UNCHANGED vars
  BY <1>5 DEF vars, Loads
<1> QED BY <1>1, <1>2, <1>3, <1>4, <1>5 DEF Next, LoaderStep

(* Whatever the window, the timeouts and the failures of malloc, what      *)
(* load_from_buf answers Ready for is what was sent, whole and in order:   *)
(* the exchange implements the first-in first-out channel of objects.      *)
THEOREM Refinement == Spec => ImplementsChannel
<1>1. Init => Channel!Init
  BY DEF Init, Channel!Init, SentObjects
<1>2. ExchangeInv /\ [Next]_vars => [Channel!Next]_(Channel!vars)
  <2> SUFFICES ASSUME ExchangeInv, [Next]_vars
               PROVE  \/ \E o \in {Wire(m) : m \in Message} :
                           SentObjects' = Append(SentObjects, o) /\ received' = received
                      \/ /\ Len(received) < Len(SentObjects)
                         /\ received' = Append(received, SentObjects[Len(received) + 1])
                         /\ SentObjects' = SentObjects
                      \/ received' = received /\ SentObjects' = SentObjects
    BY DEF SentObjects, Channel!Next, Channel!Send, Channel!Receive, Channel!vars
  <2>1. CASE \E m \in Message : SendDson(m)
    BY <2>1, SendSends
  <2>2. CASE Loads
    <3>1. SentObjects' = SentObjects /\ Len(SentObjects) = Len(log)
      BY <2>2, Types DEF Loads, SentObjects, Wire
    <3>2. Len(received) < Len(log) => SentObjects[Len(received) + 1] = Wire(Coming)
      BY Types DEF SentObjects, Coming
    <3> QED BY <2>2, <3>1, <3>2 DEF Loads
  <2> QED BY <2>1, <2>2, StepLoads
<1> QED BY <1>1, <1>2, ExchangeKept, PTL DEF Spec, ImplementsChannel, Channel!Spec
=============================================================================

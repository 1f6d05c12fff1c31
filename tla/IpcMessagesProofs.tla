-------------------------- MODULE IpcMessagesProofs -------------------------
(***************************************************************************)
(* Proofs about IpcMessages, for headers and pipes of any size.            *)
(***************************************************************************)
EXTENDS IpcMessages, SequenceTheorems, TLAPS

(* What each thread sends in all, as the cases of the switches are run     *)
(* through.                                                                *)
Script(t) ==
  IF t = "server" THEN <<"IAmServer", "AttackEnemy", "GoShutdown">>
  ELSE <<"IAmClient", "AlarmEnemyDetected", "EnemyDestroyed", "WorkFinished">>

(* The points of their functions the threads come to: pc, sending, state,  *)
(* and how many messages were sent and loaded before.                      *)
Point(t, p, f, s, a, b) ==
  IF t = "server"
  THEN \/ p = "load" /\ ~f /\ s = "WaitClientAuth" /\ a = 0 /\ b = 0
       \/ p = "IAmClient" /\ ~f /\ s = "WaitClientAuth" /\ a = 0 /\ b = 1
       \/ p = "IAmClient" /\ f /\ s = "WaitClientAuth" /\ a = 1 /\ b = 1
       \/ p = "load" /\ ~f /\ s = "WaitEnemyDetection" /\ a = 1 /\ b = 1
       \/ p = "AlarmEnemyDetected" /\ ~f /\ s = "WaitEnemyDetection" /\ a = 1 /\ b = 2
       \/ p = "AlarmEnemyDetected" /\ f /\ s = "WaitEnemyDetection" /\ a = 2 /\ b = 2
       \/ p = "EnemyDestroyed" /\ ~f /\ s = "WaitEnemyDestroyed" /\ a = 2 /\ b = 2
       \/ p = "EnemyDestroyed" /\ f /\ s = "WaitEnemyDestroyed" /\ a = 3 /\ b = 2
       \/ p = "WorkFinished" /\ ~f /\ s = "WaitClientShutdowned" /\ a = 3 /\ b = 2
       \/ p = "return" /\ ~f /\ s = "WaitClientShutdowned" /\ a = 3 /\ b = 2
  ELSE \/ p = "start" /\ ~f /\ s = "start" /\ a = 0 /\ b = 0
       \/ p = "start" /\ f /\ s = "start" /\ a = 1 /\ b = 0
       \/ p = "load" /\ ~f /\ s = "WaitServerAuth" /\ a = 1 /\ b = 0
       \/ p = "IAmServer" /\ ~f /\ s = "WaitServerAuth" /\ a = 1 /\ b = 1
       \/ p = "IAmServer" /\ f /\ s = "WaitServerAuth" /\ a = 2 /\ b = 1
       \/ p = "load" /\ ~f /\ s = "WaitServerAtackOrder" /\ a = 2 /\ b = 1
       \/ p = "AttackEnemy" /\ ~f /\ s = "WaitServerAtackOrder" /\ a = 2 /\ b = 2
       \/ p = "AttackEnemy" /\ f /\ s = "WaitServerAtackOrder" /\ a = 3 /\ b = 2
       \/ p = "load" /\ ~f /\ s = "WaitServerShutdownOrder" /\ a = 3 /\ b = 2
       \/ p = "GoShutdown" /\ ~f /\ s = "WaitServerShutdownOrder" /\ a = 3 /\ b = 3
       \/ p = "GoShutdown" /\ f /\ s = "WaitServerShutdownOrder" /\ a = 4 /\ b = 3
       \/ p = "return" /\ ~f /\ s = "WaitServerShutdownOrder" /\ a = 4 /\ b = 3

AtPoint(t) == Point(t, pc[t], sending[t], state[t], Len(sent[t]), Len(loaded[t]))

(* The messages under way to t.                                            *)
Pending(t) == Len(sent[Other(t)]) - Len(loaded[t])

(* The message that byte i of those under way belongs to.                  *)
Due(t, i) == Script(Other(t))[Len(loaded[t]) + IF i <= HeaderSize THEN 1 ELSE 2]

(* How many bytes there are of p messages, the last of which is complete,  *)
(* or w bytes of it are out if it is being sent.                           *)
Count(p, isSending, w, bytes) ==
  /\ p \in 0 .. 2
  /\ isSending => w < HeaderSize /\ p > 0
  /\ p = 0 => bytes = 0
  /\ p = 1 => bytes = IF isSending THEN w ELSE HeaderSize
  /\ p = 2 => bytes = HeaderSize + IF isSending THEN w ELSE HeaderSize

(* At most two messages are under way to a thread, and the bytes that it   *)
(* has of the first and those in the pipe are all that was sent of them ...*)
CountInv(t) ==
  Count(Pending(t), sending[Other(t)], put[Other(t)], Len(got[t]) + Len(pipe[t]))

(* ... and each is a byte of the message that it should be.                *)
BytesInv(t) ==
  /\ \A i \in 1 .. Len(got[t]) : got[t][i].msg = Due(t, i)
  /\ \A i \in 1 .. Len(pipe[t]) : pipe[t][i].msg = Due(t, Len(got[t]) + i)

StreamInv(t) == CountInv(t) /\ BytesInv(t)

Line  == Message \cup {"start", "load", "return"}
State == {"WaitClientAuth", "WaitEnemyDetection", "WaitEnemyDestroyed", "WaitClientShutdowned",
          "start", "WaitServerAuth", "WaitServerAtackOrder", "WaitServerShutdownOrder"}
Cell  == [msg : Message, pos : Nat]

Typed ==
  /\ pc \in [Thread -> Line] /\ state \in [Thread -> State]
  /\ sending \in [Thread -> BOOLEAN] /\ put \in [Thread -> 0 .. HeaderSize]
  /\ got \in [Thread -> Seq(Cell)] /\ pipe \in [Thread -> Seq(Cell)]
  /\ sent \in [Thread -> Seq(Message)] /\ loaded \in [Thread -> Seq(Message)]
  /\ handled \in [Thread -> Seq(Message)]
  /\ main \in {"join client", "join server", "closed"}
  /\ broken = {}

ThreadInv(t) ==
  /\ Len(got[t]) < HeaderSize /\ Len(pipe[t]) <= Capacity
  /\ AtPoint(t)
  /\ \A k \in 1 .. Len(sent[t]) : sent[t][k] = Script(t)[k]
  /\ \A k \in 1 .. Len(loaded[t]) : loaded[t][k] = Script(Other(t))[k]

IpcInv == Typed /\ \A t \in Thread : ThreadInv(t) /\ StreamInv(t)

-----------------------------------------------------------------------------
LEMMA Others ==
  ASSUME NEW t \in Thread
  PROVE  /\ Other(t) \in Thread /\ Other(t) # t /\ Other(Other(t)) = t
         /\ Thread = {t, Other(t)}
BY DEF Thread, Other

(* The tables and the scripts, entry by entry.                             *)
LEMMA ServerTable ==
  /\ DOMAIN Cases("server") = {"IAmClient", "AlarmEnemyDetected", "EnemyDestroyed", "WorkFinished"}
  /\ Cases("server")["IAmClient"] =
       Does("WaitClientAuth", "IAmServer", "WaitEnemyDetection", "load")
  /\ Cases("server")["AlarmEnemyDetected"] =
       Does("WaitEnemyDetection", "AttackEnemy", "WaitEnemyDestroyed", "EnemyDestroyed")
  /\ Cases("server")["EnemyDestroyed"] =
       Does("WaitEnemyDestroyed", "GoShutdown", "WaitClientShutdowned", "WorkFinished")
  /\ Cases("server")["WorkFinished"] =
       Does("WaitClientShutdowned", "nothing", "WaitClientShutdowned", "return")
  /\ Len(Script("server")) = 3 /\ Script("server")[1] = "IAmServer"
  /\ Script("server")[2] = "AttackEnemy" /\ Script("server")[3] = "GoShutdown"
BY DEF Cases, ServerCase, Does, Script

LEMMA ClientTable ==
  /\ DOMAIN Cases("client") = {"start", "IAmServer", "AttackEnemy", "GoShutdown"}
  /\ Cases("client")["start"] = Does("start", "IAmClient", "WaitServerAuth", "load")
  /\ Cases("client")["IAmServer"] =
       Does("WaitServerAuth", "AlarmEnemyDetected", "WaitServerAtackOrder", "load")
  /\ Cases("client")["AttackEnemy"] =
       Does("WaitServerAtackOrder", "EnemyDestroyed", "WaitServerShutdownOrder", "load")
  /\ Cases("client")["GoShutdown"] =
       Does("WaitServerShutdownOrder", "WorkFinished", "WaitServerShutdownOrder", "return")
  /\ Len(Script("client")) = 4 /\ Script("client")[1] = "IAmClient"
  /\ Script("client")[2] = "AlarmEnemyDetected" /\ Script("client")[3] = "EnemyDestroyed"
  /\ Script("client")[4] = "WorkFinished"
BY DEF Cases, ClientCase, Does, Script

LEMMA DoesFields ==
  ASSUME NEW i, NEW s, NEW to, NEW th
  PROVE  /\ Does(i, s, to, th).in = i /\ Does(i, s, to, th).send = s
         /\ Does(i, s, to, th).to = to /\ Does(i, s, to, th).then = th
BY DEF Does

-----------------------------------------------------------------------------
(* From point to point.  A case begins ...                                 *)
LEMMA EnterPoint ==
  ASSUME NEW t \in Thread, NEW p \in DOMAIN Cases(t), NEW s, NEW a \in Nat, NEW b \in Nat,
         Point(t, p, FALSE, s, a, b)
  PROVE  /\ s = Cases(t)[p].in
         /\ Cases(t)[p].send = "nothing" => Point(t, Cases(t)[p].then, FALSE, s, a, b)
         /\ Cases(t)[p].send # "nothing" =>
              /\ Point(t, p, TRUE, s, a + 1, b)
              /\ Script(t)[a + 1] = Cases(t)[p].send /\ Cases(t)[p].send \in Message
         /\ p # "start" => p \in Message
<1>1. CASE t = "server"
  BY <1>1, ServerTable, DoesFields DEF Point, Message
<1>2. CASE t = "client"
  BY <1>2, ClientTable, DoesFields DEF Point, Message
<1> QED BY <1>1, <1>2 DEF Thread

(* ... and ends, the answer being sent ...                                 *)
LEMMA SendPoint ==
  ASSUME NEW t \in Thread, NEW p, NEW s, NEW a \in Nat, NEW b \in Nat,
         Point(t, p, TRUE, s, a, b)
  PROVE  /\ p \in DOMAIN Cases(t) /\ a >= 1 /\ Script(t)[a] = Cases(t)[p].send
         /\ Cases(t)[p].send \in Message
         /\ Point(t, Cases(t)[p].then, FALSE, Cases(t)[p].to, a, b)
<1>1. CASE t = "server"
  BY <1>1, ServerTable, DoesFields DEF Point, Message
<1>2. CASE t = "client"
  BY <1>2, ClientTable, DoesFields DEF Point, Message
<1> QED BY <1>1, <1>2 DEF Thread

(* ... and the message that is loaded next selects a case.                 *)
LEMMA LoadPoint ==
  ASSUME NEW t \in Thread, NEW f \in BOOLEAN, NEW s, NEW a \in Nat, NEW b \in Nat,
         Point(t, "load", f, s, a, b)
  PROVE  /\ Script(Other(t))[b + 1] \in DOMAIN Cases(t)
         /\ Script(Other(t))[b + 1] \in Message
         /\ Point(t, Script(Other(t))[b + 1], f, s, a, b + 1)
<1>1. CASE t = "server"
  <2>1. /\ f = FALSE
        /\ \/ s = "WaitClientAuth" /\ a = 0 /\ b = 0
           \/ s = "WaitEnemyDetection" /\ a = 1 /\ b = 1
    BY <1>1 DEF Point
  <2> QED BY <1>1, <2>1, ServerTable, ClientTable DEF Point, Message, Other
<1>2. CASE t = "client"
  <2>1. /\ f = FALSE
        /\ \/ s = "WaitServerAuth" /\ a = 1 /\ b = 0
           \/ s = "WaitServerAtackOrder" /\ a = 2 /\ b = 1
           \/ s = "WaitServerShutdownOrder" /\ a = 3 /\ b = 2
    BY <1>2 DEF Point
  <2> QED BY <1>2, <2>1, ServerTable, ClientTable DEF Point, Message, Other
<1> QED BY <1>1, <1>2 DEF Thread

(* As each waits for the other, no third message gets under way.           *)
LEMMA NoThird ==
  ASSUME NEW t \in Thread,
         NEW p, NEW s, NEW a \in Nat, NEW b \in Nat, Point(t, p, TRUE, s, a + 1, b),
         NEW q, NEW f \in BOOLEAN, NEW r, NEW c \in Nat, NEW d \in Nat, Point(Other(t), q, f, r, c, d),
         b <= c, d <= a
  PROVE  a + 1 - d \in 1 .. 2
<1>1. CASE t = "server"
  <2>1. a = 0 \/ (a = 1 /\ b = 2) \/ (a = 2 /\ b = 2)
    BY <1>1 DEF Point
  <2>2. c \in 0 .. 4 /\ (c >= 2 => d >= 1)
    BY <1>1 DEF Point, Other
  <2> QED BY <2>1, <2>2
<1>2. CASE t = "client"
  <2>1. a = 0 \/ (a = 1 /\ b = 1) \/ (a = 2 /\ b = 2) \/ (a = 3 /\ b = 3)
    BY <1>2 DEF Point
  <2>2. (c >= 1 => d >= 1) /\ (c >= 2 => d = 2) /\ d <= 2
    BY <1>2 DEF Point, Other
  <2> QED BY <2>1, <2>2
<1> QED BY <1>1, <1>2 DEF Thread

LEMMA PointTypes ==
  ASSUME NEW t \in Thread, AtPoint(t), Typed
  PROVE  pc[t] \in DOMAIN Cases(t) \cup {"load", "return"}
<1>1. CASE t = "server"
  BY <1>1, ServerTable DEF AtPoint, Point
<1>2. CASE t = "client"
  BY <1>2, ClientTable DEF AtPoint, Point
<1> QED BY <1>1, <1>2 DEF Thread

-----------------------------------------------------------------------------
LEMMA InitInv == Init => IpcInv
<1> SUFFICES ASSUME Init PROVE IpcInv
  OBVIOUS
<1>1. Typed
  <2>1. 0 \in 0 .. HeaderSize
    BY IpcAssumption
  <2>2. \A S : << >> \in Seq(S)
    OBVIOUS
  <2>3. /\ pc \in [Thread -> Line] /\ state \in [Thread -> State]
        /\ sending \in [Thread -> BOOLEAN]
    BY DEF Init, Line, State
  <2>4. /\ put \in [Thread -> 0 .. HeaderSize]
        /\ got \in [Thread -> Seq(Cell)] /\ pipe \in [Thread -> Seq(Cell)]
        /\ sent \in [Thread -> Seq(Message)] /\ loaded \in [Thread -> Seq(Message)]
        /\ handled \in [Thread -> Seq(Message)]
    BY <2>1, <2>2 DEF Init
  <2> QED BY <2>3, <2>4 DEF Init, Typed
<1>2. ASSUME NEW t \in Thread PROVE ThreadInv(t) /\ StreamInv(t)
  <2>1. /\ got[t] = << >> /\ pipe[t] = << >> /\ sent[t] = << >> /\ loaded[t] = << >>
        /\ sent[Other(t)] = << >> /\ sending[t] = FALSE /\ sending[Other(t)] = FALSE
    BY Others DEF Init
  <2>2. AtPoint(t)
    BY <2>1 DEF Init, AtPoint, Point, Thread
  <2>3. ThreadInv(t)
    BY <2>1, <2>2, IpcAssumption DEF ThreadInv
  <2>4. StreamInv(t)
    BY <2>1 DEF StreamInv, CountInv, BytesInv, Pending, Count
  <2> QED BY <2>3, <2>4
<1> QED BY <1>1, <1>2 DEF IpcInv

(* What a step of t leaves of the other thread's variables.                *)
SameAt(u) ==
  /\ pc'[u] = pc[u] /\ sending'[u] = sending[u] /\ state'[u] = state[u] /\ got'[u] = got[u]
  /\ put'[u] = put[u] /\ sent'[u] = sent[u] /\ loaded'[u] = loaded[u]

LEMMA ThreadSame ==
  ASSUME NEW u \in Thread, ThreadInv(u), SameAt(u), Len(pipe'[u]) <= Capacity
  PROVE  ThreadInv(u)'
<1>1. AtPoint(u)'
  BY DEF ThreadInv, SameAt, AtPoint
<1> QED BY <1>1 DEF ThreadInv, SameAt

LEMMA StreamSame ==
  ASSUME NEW u \in Thread, StreamInv(u), got'[u] = got[u], pipe'[u] = pipe[u],
         loaded'[u] = loaded[u], sent'[Other(u)] = sent[Other(u)],
         sending'[Other(u)] = sending[Other(u)], put'[Other(u)] = put[Other(u)]
  PROVE  StreamInv(u)'
<1>1. Pending(u)' = Pending(u)
  BY DEF Pending
<1>2. \A i : Due(u, i)' = Due(u, i)
  BY DEF Due
<1> QED BY <1>1, <1>2 DEF StreamInv, CountInv, BytesInv

LEMMA CountLoad ==
  ASSUME NEW p, NEW f \in BOOLEAN, NEW w \in 0 .. HeaderSize, NEW bytes \in Nat,
         Count(p, f, w, bytes), bytes >= HeaderSize
  PROVE  p > 0 /\ Count(p - 1, f, w, bytes - HeaderSize) /\ bytes - HeaderSize <= HeaderSize
BY IpcAssumption DEF Count

LEMMA CountEnter ==
  ASSUME NEW p \in Int, NEW w, NEW bytes \in Nat, Count(p, FALSE, w, bytes), p + 1 \in 1 .. 2
  PROVE  Count(p + 1, TRUE, 0, bytes)
BY IpcAssumption DEF Count

LEMMA CountSend ==
  ASSUME NEW p \in Int, NEW w \in Nat, NEW n \in Nat, NEW bytes \in Nat, Count(p, TRUE, w, bytes),
         w + n <= HeaderSize
  PROVE  /\ w + n < HeaderSize => Count(p, TRUE, w + n, bytes + n)
         /\ w + n = HeaderSize => Count(p, FALSE, w + n, bytes + n)
BY IpcAssumption DEF Count

(* The bytes of a read().                                                  *)
IsRead(g, q, n, b, r) == b = g \o SubSeq(q, 1, n) /\ r = SubSeq(q, n + 1, Len(q))
ReadGives(g, q, n, b, r) ==
  /\ b \in Seq(Cell) /\ Len(b) = Len(g) + n
  /\ \A i \in 1 .. Len(g) + n : b[i] = IF i <= Len(g) THEN g[i] ELSE q[i - Len(g)]
  /\ r \in Seq(Cell) /\ Len(r) = Len(q) - n
  /\ \A i \in 1 .. Len(q) - n : r[i] = q[n + i]

LEMMA ReadBytes ==
  ASSUME NEW g \in Seq(Cell), NEW q \in Seq(Cell), NEW n \in 1 .. Len(q),
         NEW b, NEW r, IsRead(g, q, n, b, r)
  PROVE  ReadGives(g, q, n, b, r)
<1>1. PICK h : h = SubSeq(q, 1, n)
  OBVIOUS
<1>2. h \in Seq(Cell) /\ Len(h) = n /\ \A i \in 1 .. n : h[i] = q[i]
  BY <1>1
<1>3. /\ g \o h \in Seq(Cell) /\ Len(g \o h) = Len(g) + Len(h)
      /\ \A i \in 1 .. Len(g) + Len(h) : (g \o h)[i] = IF i <= Len(g) THEN g[i] ELSE h[i - Len(g)]
  BY <1>2, ConcatProperties
<1>4. b = g \o h
  BY <1>1 DEF IsRead
<1>5. b \in Seq(Cell) /\ Len(b) = Len(g) + n
  BY <1>2, <1>3, <1>4
<1>6. \A i \in 1 .. Len(g) + n : b[i] = IF i <= Len(g) THEN g[i] ELSE h[i - Len(g)]
  BY <1>2, <1>3, <1>4
<1>7. \A i \in 1 .. Len(g) + n : b[i] = IF i <= Len(g) THEN g[i] ELSE q[i - Len(g)]
  BY <1>2, <1>6
<1>8. /\ r \in Seq(Cell) /\ Len(r) = Len(q) - n
      /\ \A i \in 1 .. Len(q) - n : r[i] = q[n + i]
  BY DEF IsRead
<1> QED BY <1>5, <1>7, <1>8 DEF ReadGives

LEMMA TypesAt ==
  ASSUME Typed, NEW t \in Thread
  PROVE  /\ got[t] \in Seq(Cell) /\ Len(got[t]) \in Nat
         /\ pipe[t] \in Seq(Cell) /\ Len(pipe[t]) \in Nat
         /\ sent[t] \in Seq(Message) /\ Len(sent[t]) \in Nat
         /\ loaded[t] \in Seq(Message) /\ Len(loaded[t]) \in Nat
         /\ handled[t] \in Seq(Message)
         /\ sending[t] \in BOOLEAN /\ put[t] \in 0 .. HeaderSize
         /\ HeaderSize \in Nat \ {0} /\ Capacity \in Nat \ {0}
<1>1. /\ got[t] \in Seq(Cell) /\ pipe[t] \in Seq(Cell) /\ sent[t] \in Seq(Message)
      /\ loaded[t] \in Seq(Message) /\ handled[t] \in Seq(Message)
      /\ sending[t] \in BOOLEAN /\ put[t] \in 0 .. HeaderSize
  BY Zenon DEF Typed
<1>2. \A x, S : x \in Seq(S) => Len(x) \in Nat
  OBVIOUS
<1> QED BY <1>1, <1>2, IpcAssumption

LEMMA LoadInv ==
  ASSUME IpcInv, NEW t \in Thread, NEW n \in 1 .. HeaderSize, Load(t, n)
  PROVE  /\ IpcInv'
         /\ sent' = sent
         /\ \/ loaded' = loaded
            \/ /\ Pending(t) > 0
               /\ loaded' = [loaded EXCEPT ![t] = Append(@, sent[Other(t)][Len(@) + 1])]
<1> DEFINE o == Other(t)
           L == Len(loaded[t])
           key == Script(o)[L + 1]
<1>0. PICK g, q, b, r : g = got[t] /\ q = pipe[t] /\ IsRead(g, q, n, b, r)
  BY DEF IsRead
<1>1. /\ Typed /\ ThreadInv(t) /\ ThreadInv(o) /\ StreamInv(t) /\ StreamInv(o)
      /\ o \in Thread /\ o # t /\ Other(o) = t /\ Thread = {t, o}
  BY Others DEF IpcInv
<1>2. /\ pc[t] = "load" /\ n \in 1 .. HeaderSize - Len(g) /\ n <= Len(q)
      /\ pipe' = [pipe EXCEPT ![t] = r]
      /\ UNCHANGED <<sending, state, put, main, broken, sent, handled>>
      /\ IF Len(b) < HeaderSize
           THEN got' = [got EXCEPT ![t] = b] /\ UNCHANGED <<pc, loaded>>
           ELSE /\ got' = [got EXCEPT ![t] = << >>]
                /\ loaded' = [loaded EXCEPT ![t] = Append(@, b[1].msg)]
                /\ pc' = [pc EXCEPT ![t] = IF b[1].msg \in DOMAIN Cases(t) THEN b[1].msg
                                           ELSE "load"]
  BY <1>0 DEF Load, IsRead
<1>3. /\ g \in Seq(Cell) /\ q \in Seq(Cell) /\ Len(g) \in Nat /\ Len(q) \in Nat
      /\ HeaderSize \in Nat \ {0} /\ Capacity \in Nat \ {0}
  BY <1>0, <1>1, TypesAt
<1>4. Len(g) < HeaderSize /\ n \in 1 .. Len(q) /\ Len(g) + n <= HeaderSize
  <2>1. Len(g) < HeaderSize
    BY <1>0, <1>1 DEF ThreadInv
  <2> QED BY <1>2, <1>3, <2>1
<1>5. /\ L \in Nat /\ Len(sent[o]) \in Nat /\ Len(sent[t]) \in Nat
      /\ put[o] \in 0 .. HeaderSize /\ sending[t] \in BOOLEAN /\ sending[o] \in BOOLEAN
      /\ loaded[t] \in Seq(Message)
  BY <1>1, TypesAt
<1>6. ReadGives(g, q, n, b, r)
  BY <1>0, <1>3, <1>4, ReadBytes
<1>7. b \in Seq(Cell) /\ Len(b) = Len(g) + n /\ r \in Seq(Cell) /\ Len(r) = Len(q) - n
  BY <1>6 DEF ReadGives
<1>8. /\ \A i \in 1 .. Len(g) : g[i].msg = Due(t, i)
      /\ \A i \in 1 .. Len(q) : q[i].msg = Due(t, Len(g) + i)
  BY <1>0, <1>1 DEF StreamInv, BytesInv
<1>9. ASSUME NEW i \in 1 .. Len(g) + n PROVE b[i].msg = Due(t, i)
  <2>0. b[i] = IF i <= Len(g) THEN g[i] ELSE q[i - Len(g)]
    BY <1>6 DEF ReadGives
  <2>1. CASE i <= Len(g)
    <3>1. i \in 1 .. Len(g)
      BY <1>3, <2>1
    <3> QED BY <1>8, <2>0, <2>1, <3>1
  <2>2. CASE ~(i <= Len(g))
    <3>1. i - Len(g) \in 1 .. Len(q) /\ Len(g) + (i - Len(g)) = i
      BY <1>3, <1>4, <2>2
    <3>2. q[i - Len(g)].msg = Due(t, Len(g) + (i - Len(g)))
      BY <1>8, <3>1, Zenon
    <3> QED BY <2>0, <2>2, <3>1, <3>2, Zenon
  <2> QED BY <2>1, <2>2
<1>10. ASSUME NEW i \in 1 .. Len(r) PROVE r[i].msg = Due(t, Len(g) + n + i)
  <2>1. n + i \in 1 .. Len(q) /\ Len(g) + (n + i) = Len(g) + n + i /\ i \in 1 .. Len(q) - n
    BY <1>3, <1>4, <1>7
  <2>2. r[i] = q[n + i]
    BY <1>6, <2>1 DEF ReadGives
  <2>3. q[n + i].msg = Due(t, Len(g) + (n + i))
    BY <1>8, <2>1, Zenon
  <2> QED BY <2>1, <2>2, <2>3, Zenon
<1>11. /\ pipe' \in [Thread -> Seq(Cell)] /\ pipe'[t] = r /\ pipe'[o] = pipe[o]
       /\ Len(pipe'[t]) <= Capacity /\ Len(pipe'[o]) <= Capacity
  <2>1. pipe' \in [Thread -> Seq(Cell)] /\ pipe'[t] = r /\ pipe'[o] = pipe[o]
    BY <1>1, <1>2, <1>7 DEF Typed
  <2>2. Len(q) <= Capacity /\ Len(pipe[o]) <= Capacity
    BY <1>0, <1>1 DEF ThreadInv
  <2>3. Len(r) <= Capacity
    BY <1>3, <1>4, <1>7, <2>2
  <2> QED BY <2>1, <2>2, <2>3
<1>12. Count(Pending(t), sending[o], put[o], Len(g) + Len(q)) /\ Pending(t) = Len(sent[o]) - L
  BY <1>0, <1>1 DEF StreamInv, CountInv, Pending
<1>13. Len(g) + Len(q) \in Nat /\ Pending(t) \in Int
  BY <1>3, <1>5, <1>12
<1>14. CASE Len(b) < HeaderSize
  <2>1. /\ got' \in [Thread -> Seq(Cell)] /\ got'[t] = b /\ got'[o] = got[o]
        /\ UNCHANGED <<pc, loaded>>
    BY <1>1, <1>2, <1>7, <1>14 DEF Typed
  <2>2. Typed'
    BY <1>1, <1>2, <1>11, <2>1 DEF Typed
  <2>3. ThreadInv(o)' /\ StreamInv(o)'
    <3>1. SameAt(o)
      BY <1>2, <2>1 DEF SameAt
    <3> QED BY <1>1, <1>2, <1>11, <2>1, <3>1, ThreadSame, StreamSame
  <2>4. ThreadInv(t)'
    BY <1>1, <1>2, <1>11, <1>14, <2>1 DEF ThreadInv, AtPoint
  <2>5. StreamInv(t)'
    <3>1. Pending(t)' = Pending(t)
      BY <1>2, <2>1 DEF Pending
    <3>2. \A i : Due(t, i)' = Due(t, i)
      BY <2>1 DEF Due
    <3>3. Len(b) + Len(r) = Len(g) + Len(q)
      BY <1>3, <1>4, <1>7
    <3>4. CountInv(t)'
      BY <1>2, <1>11, <1>12, <2>1, <3>1, <3>3 DEF CountInv
    <3>5. BytesInv(t)'
      BY <1>7, <1>9, <1>10, <1>11, <2>1, <3>2 DEF BytesInv
    <3> QED BY <3>4, <3>5 DEF StreamInv
  <2> QED BY <1>1, <1>2, <2>1, <2>2, <2>3, <2>4, <2>5 DEF IpcInv
<1>15. CASE ~(Len(b) < HeaderSize)
  <2>1. Len(b) = HeaderSize /\ Len(g) + n = HeaderSize
    <3>1. Len(b) = Len(g) + n
      BY <1>7
    <3> QED BY <1>3, <1>4, <1>15, <3>1
  <2>2. b[1].msg = key
    <3>1. 1 \in 1 .. Len(g) + n /\ 1 <= HeaderSize
      BY <1>3, <2>1
    <3> QED BY <1>9, <3>1 DEF Due
  <2>3. Point(t, "load", sending[t], state[t], Len(sent[t]), L)
    BY <1>1, <1>2 DEF ThreadInv, AtPoint
  <2>4. /\ key \in DOMAIN Cases(t) /\ key \in Message
        /\ Point(t, key, sending[t], state[t], Len(sent[t]), L + 1)
    BY <1>5, <2>3, LoadPoint
  <2> HIDE DEF key
  <2>5. /\ got' = [got EXCEPT ![t] = << >>]
        /\ loaded' = [loaded EXCEPT ![t] = Append(@, key)]
        /\ pc' = [pc EXCEPT ![t] = key]
    BY <1>2, <1>15, <2>2, <2>4
  <2>6. got' \in [Thread -> Seq(Cell)] /\ got'[t] = << >> /\ got'[o] = got[o]
    <3>1. << >> \in Seq(Cell)
      OBVIOUS
    <3> QED BY <1>1, <2>5, <3>1 DEF Typed
  <2>7. /\ loaded' \in [Thread -> Seq(Message)] /\ loaded'[t] = Append(loaded[t], key)
        /\ loaded'[o] = loaded[o]
    <3>1. Append(loaded[t], key) \in Seq(Message)
      BY <1>5, <2>4
    <3> QED BY <1>1, <2>5, <3>1 DEF Typed
  <2>8. pc' \in [Thread -> Line] /\ pc'[t] = key /\ pc'[o] = pc[o]
    BY <1>1, <2>4, <2>5 DEF Typed, Line
  <2>9. /\ Len(loaded'[t]) = L + 1 /\ loaded'[t][L + 1] = key
        /\ \A k \in 1 .. L : loaded'[t][k] = loaded[t][k]
    BY <1>5, <2>4, <2>7, AppendProperties
  <2>10. Typed'
    BY <1>1, <1>2, <1>11, <2>6, <2>7, <2>8 DEF Typed
  <2>11. ThreadInv(o)' /\ StreamInv(o)'
    <3>1. SameAt(o)
      BY <1>2, <2>6, <2>7, <2>8 DEF SameAt
    <3> QED BY <1>1, <1>2, <1>11, <2>6, <2>7, <3>1, ThreadSame, StreamSame
  <2>12. ThreadInv(t)'
    <3>1. AtPoint(t)'
      BY <1>2, <2>4, <2>8, <2>9 DEF AtPoint
    <3>2. ASSUME NEW k \in 1 .. L + 1 PROVE loaded'[t][k] = Script(o)[k]
      <4>1. CASE k = L + 1
        BY <2>9, <4>1 DEF key
      <4>2. CASE k # L + 1
        <5>1. k \in 1 .. L
          BY <1>5, <4>2
        <5> QED BY <1>1, <2>9, <5>1 DEF ThreadInv
      <4> QED BY <4>1, <4>2
    <3>3. Len(got'[t]) < HeaderSize
      BY <1>3, <2>6
    <3>4. \A k \in 1 .. Len(sent'[t]) : sent'[t][k] = Script(t)[k]
      BY <1>1, <1>2 DEF ThreadInv
    <3> QED BY <1>11, <2>9, <3>1, <3>2, <3>3, <3>4 DEF ThreadInv
  <2>13. Pending(t)' = Pending(t) - 1
    BY <1>2, <1>5, <1>12, <2>9 DEF Pending
  <2>14. /\ Pending(t) > 0 /\ Len(g) + Len(q) - HeaderSize <= HeaderSize
         /\ Count(Pending(t) - 1, sending[o], put[o], Len(g) + Len(q) - HeaderSize)
    <3>1. Len(g) + Len(q) >= HeaderSize
      BY <1>3, <1>4, <2>1
    <3>2. sending[o] \in BOOLEAN /\ put[o] \in 0 .. HeaderSize
      BY <1>5
    <3>3. PICK p, bytes : p = Pending(t) /\ bytes = Len(g) + Len(q)
      OBVIOUS
    <3>4. Count(p, sending[o], put[o], bytes) /\ bytes \in Nat /\ bytes >= HeaderSize
      BY <1>12, <1>13, <3>1, <3>3
    <3>5. p > 0 /\ Count(p - 1, sending[o], put[o], bytes - HeaderSize) /\ bytes - HeaderSize <= HeaderSize
      BY <3>2, <3>4, CountLoad
    <3>6. p - 1 = Pending(t) - 1 /\ bytes - HeaderSize = Len(g) + Len(q) - HeaderSize
      <4>1. p - 1 = Pending(t) - 1
        BY <3>3
      <4>2. bytes - HeaderSize = Len(g) + Len(q) - HeaderSize
        BY <1>3, <3>3
      <4> QED BY <4>1, <4>2
    <3>7. Count(Pending(t) - 1, sending[o], put[o], Len(g) + Len(q) - HeaderSize)
      BY <3>5, <3>6, Zenon
    <3>8. Pending(t) > 0 /\ Len(g) + Len(q) - HeaderSize <= HeaderSize
      BY <3>3, <3>5, <3>6, Zenon
    <3> QED BY <3>7, <3>8
  <2>15. StreamInv(t)'
    <3>1. Len(got'[t]) = 0 /\ Len(r) = Len(g) + Len(q) - HeaderSize
      <4>1. Len(r) = Len(q) - n
        BY <1>7
      <4>2. Len(got'[t]) = 0
        BY <2>6
      <4> QED BY <1>3, <1>4, <2>1, <4>1, <4>2
    <3>2. 0 + Len(r) = Len(r)
      BY <1>3, <3>1
    <3>3. CountInv(t)'
      BY <1>2, <1>11, <2>13, <2>14, <3>1, <3>2 DEF CountInv
    <3>4. ASSUME NEW i \in 1 .. Len(r) PROVE r[i].msg = Due(t, Len(got[t]) + i)'
      <4>1. i <= HeaderSize /\ ~(Len(g) + n + i <= HeaderSize)
        BY <1>3, <1>4, <2>1, <2>14, <3>1
      <4>2. r[i].msg = Script(o)[L + 2]
        BY <1>10, <4>1 DEF Due
      <4>3. 0 + i = i /\ (L + 1) + 1 = L + 2
        BY <1>5
      <4>4. Due(t, Len(got[t]) + i)' = Script(o)[Len(loaded'[t]) + 1]
        BY <3>1, <4>1, <4>3 DEF Due
      <4> QED BY <2>9, <4>2, <4>3, <4>4
    <3>5. BytesInv(t)'
      BY <1>11, <3>1, <3>4 DEF BytesInv
    <3> QED BY <3>3, <3>5 DEF StreamInv
  <2>16. sent[o][L + 1] = key
    <3>1. L + 1 \in 1 .. Len(sent[o])
      <4>1. Len(sent[o]) - L > 0
        BY <1>12, <2>14, Zenon
      <4>2. PICK s, l : s = Len(sent[o]) /\ l = L
        OBVIOUS
      <4>3. s \in Nat /\ l \in Nat /\ s - l > 0
        BY <1>5, <4>1, <4>2
      <4>4. l + 1 \in 1 .. s
        BY <4>3
      <4> QED BY <4>2, <4>4
    <3> QED BY <1>1, <3>1 DEF ThreadInv, key
  <2> QED BY <1>1, <1>2, <2>5, <2>10, <2>11, <2>12, <2>14, <2>15, <2>16 DEF IpcInv
<1> QED BY <1>14, <1>15

LEMMA EnterInv ==
  ASSUME IpcInv, NEW t \in Thread, Enter(t)
  PROVE  /\ IpcInv'
         /\ loaded' = loaded
         /\ \/ sent' = sent
            \/ \E m \in Message : sent' = [sent EXCEPT ![t] = Append(@, m)]
<1> DEFINE o == Other(t)
           do == Cases(t)[pc[t]]
           a == Len(sent[t])
           b == Len(loaded[t])
           h == IF pc[t] = "start" THEN handled[t] ELSE Append(handled[t], pc[t])
<1>1. /\ Typed /\ ThreadInv(t) /\ ThreadInv(o) /\ StreamInv(t) /\ StreamInv(o)
      /\ o \in Thread /\ o # t /\ Other(o) = t /\ Thread = {t, o}
  BY Others DEF IpcInv
<1>2. /\ sent[t] \in Seq(Message) /\ a \in Nat /\ b \in Nat /\ handled[t] \in Seq(Message)
      /\ Len(sent[o]) \in Nat /\ Len(loaded[o]) \in Nat /\ sending[o] \in BOOLEAN
      /\ Len(got[o]) + Len(pipe[o]) \in Nat /\ 0 \in 0 .. HeaderSize
  <2>1. Len(got[o]) \in Nat /\ Len(pipe[o]) \in Nat /\ HeaderSize \in Nat
    BY <1>1, TypesAt
  <2>2. Len(got[o]) + Len(pipe[o]) \in Nat /\ 0 \in 0 .. HeaderSize
    <3>1. \A x, y \in Nat : x + y \in Nat /\ 0 \in 0 .. x
      OBVIOUS
    <3> QED BY <2>1, <3>1, Zenon
  <2>3. /\ sent[t] \in Seq(Message) /\ a \in Nat /\ b \in Nat /\ handled[t] \in Seq(Message)
        /\ Len(sent[o]) \in Nat /\ Len(loaded[o]) \in Nat /\ sending[o] \in BOOLEAN
    BY <1>1, TypesAt
  <2> QED BY <2>2, <2>3
<1>3. pc[t] \in DOMAIN Cases(t) /\ sending[t] = FALSE
  BY <1>1 DEF Enter, Typed
<1>4. Point(t, pc[t], FALSE, state[t], a, b)
  BY <1>1, <1>3 DEF ThreadInv, AtPoint
<1>5. /\ state[t] = do.in
      /\ do.send = "nothing" => Point(t, do.then, FALSE, state[t], a, b)
      /\ do.send # "nothing" => /\ Point(t, pc[t], TRUE, state[t], a + 1, b)
                                /\ Script(t)[a + 1] = do.send /\ do.send \in Message
      /\ pc[t] # "start" => pc[t] \in Message
  BY <1>2, <1>3, <1>4, EnterPoint
<1>6. /\ handled' = [handled EXCEPT ![t] = h] /\ UNCHANGED <<broken, state, got, pipe, main, loaded>>
      /\ IF do.send = "nothing"
           THEN pc' = [pc EXCEPT ![t] = do.then] /\ UNCHANGED <<sending, put, sent>>
           ELSE /\ sending' = [sending EXCEPT ![t] = TRUE] /\ put' = [put EXCEPT ![t] = 0]
                /\ sent' = [sent EXCEPT ![t] = Append(@, do.send)] /\ UNCHANGED pc
  BY <1>1, <1>5 DEF Enter, Typed
<1>7. handled' \in [Thread -> Seq(Message)]
  <2>1. h \in Seq(Message)
    <3>1. CASE pc[t] = "start"
      BY <1>2, <3>1
    <3>2. CASE pc[t] # "start"
      BY <1>2, <1>5, <3>2
    <3> QED BY <3>1, <3>2
  <2> HIDE DEF h
  <2> QED BY <1>1, <1>6, <2>1 DEF Typed
<1> HIDE DEF h, do
<1>8. CASE do.send = "nothing"
  <2>1. /\ pc' = [pc EXCEPT ![t] = do.then]
        /\ UNCHANGED <<sending, put, sent>>
    BY <1>6, <1>8
  <2>2. do.then \in Line
    <3>1. CASE t = "server"
      BY <1>5, <1>8, <3>1 DEF Point, Line, Message
    <3>2. CASE t = "client"
      BY <1>5, <1>8, <3>2 DEF Point, Line, Message
    <3> QED BY <3>1, <3>2 DEF Thread
  <2>3. pc' \in [Thread -> Line] /\ pc'[t] = do.then /\ pc'[o] = pc[o]
    BY <1>1, <2>1, <2>2 DEF Typed
  <2>4. Typed'
    BY <1>1, <1>6, <1>7, <2>1, <2>3 DEF Typed
  <2>5. ThreadInv(o)' /\ StreamInv(o)' /\ StreamInv(t)'
    <3>1. SameAt(o) /\ Len(pipe'[o]) <= Capacity
      BY <1>1, <1>6, <2>1, <2>3 DEF SameAt, ThreadInv
    <3> QED BY <1>1, <1>6, <2>1, <3>1, ThreadSame, StreamSame
  <2>6. ThreadInv(t)'
    <3>1. AtPoint(t)'
      BY <1>3, <1>5, <1>6, <1>8, <2>1, <2>3 DEF AtPoint
    <3> QED BY <1>1, <1>6, <2>1, <3>1 DEF ThreadInv
  <2> QED BY <1>1, <1>6, <2>1, <2>4, <2>5, <2>6 DEF IpcInv
<1>9. CASE do.send # "nothing"
  <2>1. /\ sending' = [sending EXCEPT ![t] = TRUE] /\ put' = [put EXCEPT ![t] = 0]
        /\ sent' = [sent EXCEPT ![t] = Append(@, do.send)] /\ UNCHANGED pc
    BY <1>6, <1>9
  <2>2. do.send \in Message /\ Script(t)[a + 1] = do.send /\ Point(t, pc[t], TRUE, state[t], a + 1, b)
    BY <1>5, <1>9
  <2>3. sending' \in [Thread -> BOOLEAN] /\ sending'[t] = TRUE /\ sending'[o] = sending[o]
    BY <1>1, <2>1 DEF Typed
  <2>4. put' \in [Thread -> 0 .. HeaderSize] /\ put'[t] = 0 /\ put'[o] = put[o]
    BY <1>1, <1>2, <2>1 DEF Typed
  <2>5. /\ sent' \in [Thread -> Seq(Message)] /\ sent'[t] = Append(sent[t], do.send)
        /\ sent'[o] = sent[o]
    <3>1. Append(sent[t], do.send) \in Seq(Message)
      BY <1>2, <2>2
    <3> QED BY <1>1, <2>1, <3>1 DEF Typed
  <2>6. /\ Len(sent'[t]) = a + 1 /\ sent'[t][a + 1] = do.send
        /\ \A k \in 1 .. a : sent'[t][k] = sent[t][k]
    BY <1>2, <2>2, <2>5, AppendProperties
  <2>7. Typed'
    BY <1>1, <1>6, <1>7, <2>1, <2>3, <2>4, <2>5 DEF Typed
  <2>8. ThreadInv(o)' /\ StreamInv(t)'
    <3>1. SameAt(o) /\ Len(pipe'[o]) <= Capacity
      BY <1>1, <1>6, <2>1, <2>3, <2>4, <2>5 DEF SameAt, ThreadInv
    <3> QED BY <1>1, <1>6, <2>3, <2>4, <2>5, <3>1, ThreadSame, StreamSame
  <2>9. ThreadInv(t)'
    <3>1. AtPoint(t)'
      BY <1>6, <2>1, <2>2, <2>3, <2>6 DEF AtPoint
    <3>2. ASSUME NEW k \in 1 .. a + 1 PROVE sent'[t][k] = Script(t)[k]
      <4>1. CASE k = a + 1
        BY <2>2, <2>6, <4>1
      <4>2. CASE k # a + 1
        <5>1. k \in 1 .. a
          BY <1>2, <4>2
        <5> QED BY <1>1, <2>6, <5>1 DEF ThreadInv
      <4> QED BY <4>1, <4>2
    <3>3. \A k \in 1 .. Len(sent'[t]) : sent'[t][k] = Script(t)[k]
      BY <2>6, <3>2
    <3> QED BY <1>1, <1>6, <3>1, <3>3 DEF ThreadInv
  <2>10. PICK p : p = Pending(o)
    OBVIOUS
  <2>11. /\ Count(p, FALSE, put[t], Len(got[o]) + Len(pipe[o])) /\ p = a - Len(loaded[o])
    BY <1>1, <1>3, <2>10 DEF StreamInv, CountInv, Pending
  <2>12. p + 1 \in 1 .. 2
    <3>1. b <= Len(sent[o])
      <4>1. Len(sent[o]) - b \in 0 .. 2
        BY <1>1 DEF StreamInv, CountInv, Count, Pending
      <4> QED BY <1>2, <4>1
    <3>2. Len(loaded[o]) <= a
      <4>1. p \in 0 .. 2
        BY <2>11 DEF Count
      <4> QED BY <1>2, <2>11, <4>1
    <3>3. Point(o, pc[o], sending[o], state[o], Len(sent[o]), Len(loaded[o]))
      BY <1>1 DEF ThreadInv, AtPoint
    <3>4. a + 1 - Len(loaded[o]) \in 1 .. 2
      BY <1>2, <2>2, <3>1, <3>2, <3>3, NoThird
    <3> QED BY <1>2, <2>11, <3>4
  <2>13. Count(p + 1, TRUE, 0, Len(got[o]) + Len(pipe[o]))
    <3>1. p \in Int
      BY <1>2, <2>11
    <3> QED BY <1>2, <2>11, <2>12, <3>1, CountEnter
  <2>14. StreamInv(o)'
    <3>1. Pending(o)' = p + 1
      BY <1>1, <1>2, <1>6, <2>6, <2>11 DEF Pending
    <3>2. CountInv(o)'
      BY <1>1, <1>6, <2>3, <2>4, <2>13, <3>1 DEF CountInv
    <3>3. \A i : Due(o, i)' = Due(o, i)
      BY <1>6 DEF Due
    <3>4. BytesInv(o)'
      BY <1>1, <1>6, <3>3 DEF StreamInv, BytesInv
    <3> QED BY <3>2, <3>4 DEF StreamInv
  <2> QED BY <1>1, <1>6, <2>1, <2>2, <2>7, <2>8, <2>9, <2>14 DEF IpcInv
<1> QED BY <1>8, <1>9

(* The bytes of a write().                                                 *)
IsWrite(q, m, w, n, r) == r = q \o Bytes(m, w, n)
WriteGives(q, m, n, r) ==
  /\ r \in Seq(Cell) /\ Len(r) = Len(q) + n
  /\ \A i \in 1 .. Len(q) : r[i] = q[i]
  /\ \A i \in 1 .. Len(q) + n : i > Len(q) => r[i].msg = m

LEMMA WriteBytes ==
  ASSUME NEW q \in Seq(Cell), NEW m \in Message, NEW w \in Nat, NEW n \in Nat, NEW r,
         IsWrite(q, m, w, n, r)
  PROVE  WriteGives(q, m, n, r)
<1>1. PICK h : h = Bytes(m, w, n)
  OBVIOUS
<1>2. h \in Seq(Cell) /\ Len(h) = n /\ \A i \in 1 .. n : h[i].msg = m
  <2>1. \A i \in 1 .. n : h[i] = [msg |-> m, pos |-> w + i - 1]
    BY <1>1 DEF Bytes
  <2>2. \A i \in 1 .. n : w + i - 1 \in Nat
    OBVIOUS
  <2>3. \A i \in 1 .. n : h[i] \in Cell /\ h[i].msg = m
    <3>1. \A k \in Nat : [msg |-> m, pos |-> k] \in Cell /\ [msg |-> m, pos |-> k].msg = m
      BY DEF Cell
    <3> QED BY <2>1, <2>2, <3>1, Zenon
  <2>4. h \in [1 .. n -> Cell]
    BY <1>1, <2>3 DEF Bytes
  <2> QED BY <2>3, <2>4
<1>3. /\ q \o h \in Seq(Cell) /\ Len(q \o h) = Len(q) + Len(h)
      /\ \A i \in 1 .. Len(q) + Len(h) : (q \o h)[i] = IF i <= Len(q) THEN q[i] ELSE h[i - Len(q)]
  BY <1>2, ConcatProperties
<1>4. r = q \o h
  BY <1>1 DEF IsWrite
<1>5. r \in Seq(Cell) /\ Len(r) = Len(q) + n
  BY <1>2, <1>3, <1>4
<1>6. \A i \in 1 .. Len(q) + n : r[i] = IF i <= Len(q) THEN q[i] ELSE h[i - Len(q)]
  BY <1>2, <1>3, <1>4
<1>7. Len(q) \in Nat
  OBVIOUS
<1>8. ASSUME NEW i \in 1 .. Len(q) PROVE r[i] = q[i]
  <2>1. i \in 1 .. Len(q) + n /\ i <= Len(q)
    BY <1>7
  <2> QED BY <1>6, <2>1
<1>9. ASSUME NEW i \in 1 .. Len(q) + n, i > Len(q) PROVE r[i].msg = m
  <2>1. i - Len(q) \in 1 .. n /\ ~(i <= Len(q))
    BY <1>7, <1>9
  <2>2. r[i] = h[i - Len(q)]
    BY <1>6, <2>1
  <2> QED BY <1>2, <2>1, <2>2
<1> QED BY <1>5, <1>8, <1>9 DEF WriteGives

LEMMA SendInv ==
  ASSUME IpcInv, NEW t \in Thread, NEW n \in 1 .. HeaderSize, Send(t, n)
  PROVE  IpcInv' /\ sent' = sent /\ loaded' = loaded
<1> DEFINE o == Other(t)
           do == Cases(t)[pc[t]]
           a == Len(sent[t])
           b == Len(loaded[t])
<1>0. PICK g, q, w, r : g = got[o] /\ q = pipe[o] /\ w = put[t] /\ IsWrite(q, do.send, w, n, r)
  BY DEF IsWrite
<1>1. /\ Typed /\ ThreadInv(t) /\ ThreadInv(o) /\ StreamInv(t) /\ StreamInv(o)
      /\ o \in Thread /\ o # t /\ Other(o) = t /\ Thread = {t, o}
  BY Others DEF IpcInv
<1>2. /\ g \in Seq(Cell) /\ q \in Seq(Cell) /\ Len(g) \in Nat /\ Len(q) \in Nat
      /\ w \in 0 .. HeaderSize /\ HeaderSize \in Nat \ {0} /\ Capacity \in Nat \ {0}
      /\ a \in Nat /\ b \in Nat /\ Len(loaded[o]) \in Nat /\ Len(sent[o]) \in Nat
  BY <1>0, <1>1, TypesAt
<1>3. /\ sending[t] = TRUE /\ n \in 1 .. HeaderSize - w /\ Len(q) + n <= Capacity
      /\ pipe' = [pipe EXCEPT ![o] = r]
      /\ put' = [put EXCEPT ![t] = w + n]
      /\ IF w + n < HeaderSize
           THEN UNCHANGED <<pc, sending, state>>
           ELSE /\ sending' = [sending EXCEPT ![t] = FALSE]
                /\ state' = [state EXCEPT ![t] = do.to]
                /\ pc' = [pc EXCEPT ![t] = do.then]
      /\ UNCHANGED <<got, main, broken, sent, loaded, handled>>
  BY <1>0, <1>1 DEF Send, Typed, IsWrite
<1>4. w + n \in 0 .. HeaderSize /\ w + n <= HeaderSize /\ w \in Nat /\ n \in Nat /\ Len(g) + Len(q) \in Nat
  BY <1>2, <1>3
<1>5. Point(t, pc[t], TRUE, state[t], a, b)
  BY <1>1, <1>3 DEF ThreadInv, AtPoint
<1>6. /\ pc[t] \in DOMAIN Cases(t) /\ a >= 1 /\ Script(t)[a] = do.send
      /\ do.send \in Message /\ Point(t, do.then, FALSE, do.to, a, b)
  BY <1>2, <1>5, SendPoint
<1> HIDE DEF do
<1>7. WriteGives(q, do.send, n, r)
  BY <1>0, <1>2, <1>4, <1>6, WriteBytes
<1>8. /\ r \in Seq(Cell) /\ Len(r) = Len(q) + n
  BY <1>7 DEF WriteGives
<1>9. pipe' \in [Thread -> Seq(Cell)] /\ pipe'[o] = r /\ pipe'[t] = pipe[t]
  BY <1>1, <1>3, <1>8 DEF Typed
<1>10. put' \in [Thread -> 0 .. HeaderSize] /\ put'[t] = w + n /\ put'[o] = put[o]
  BY <1>1, <1>3, <1>4 DEF Typed
<1>11. /\ pc' \in [Thread -> Line] /\ state' \in [Thread -> State] /\ sending' \in [Thread -> BOOLEAN]
       /\ pc'[o] = pc[o] /\ state'[o] = state[o] /\ sending'[o] = sending[o]
       /\ Point(t, pc'[t], sending'[t], state'[t], a, b)
       /\ w + n < HeaderSize => sending'[t] = TRUE
       /\ ~(w + n < HeaderSize) => sending'[t] = FALSE
  <2>1. CASE w + n < HeaderSize
    <3>1. UNCHANGED <<pc, sending, state>>
      BY <1>3, <2>1
    <3> QED BY <1>1, <1>3, <1>5, <2>1, <3>1 DEF Typed
  <2>2. CASE ~(w + n < HeaderSize)
    <3>1. /\ sending' = [sending EXCEPT ![t] = FALSE]
          /\ state' = [state EXCEPT ![t] = do.to]
          /\ pc' = [pc EXCEPT ![t] = do.then]
      BY <1>3, <2>2
    <3>2. do.to \in State /\ do.then \in Line
      <4>1. CASE t = "server"
        BY <1>6, <4>1 DEF Point, Line, Message, State
      <4>2. CASE t = "client"
        BY <1>6, <4>2 DEF Point, Line, Message, State
      <4> QED BY <4>1, <4>2 DEF Thread
    <3>3. /\ pc' \in [Thread -> Line] /\ pc'[o] = pc[o] /\ pc'[t] = do.then
      BY <1>1, <3>1, <3>2 DEF Typed
    <3>4. /\ state' \in [Thread -> State] /\ state'[o] = state[o] /\ state'[t] = do.to
      BY <1>1, <3>1, <3>2 DEF Typed
    <3>5. /\ sending' \in [Thread -> BOOLEAN] /\ sending'[o] = sending[o] /\ sending'[t] = FALSE
      BY <1>1, <3>1 DEF Typed
    <3> QED BY <1>6, <2>2, <3>3, <3>4, <3>5
  <2> QED BY <2>1, <2>2
<1>12. Typed'
  BY <1>1, <1>3, <1>9, <1>10, <1>11 DEF Typed
<1>13. ThreadInv(t)' /\ StreamInv(t)'
  <2>1. AtPoint(t)'
    BY <1>3, <1>11 DEF AtPoint
  <2>2. ThreadInv(t)'
    BY <1>1, <1>3, <1>9, <2>1 DEF ThreadInv
  <2> QED BY <1>1, <1>3, <1>9, <1>10, <1>11, <2>2, StreamSame
<1>14. ThreadInv(o)'
  <2>1. SameAt(o)
    BY <1>3, <1>10, <1>11 DEF SameAt
  <2>2. Len(pipe'[o]) <= Capacity
    BY <1>3, <1>8, <1>9
  <2> QED BY <1>1, <2>1, <2>2, ThreadSame
<1>15. PICK p, c : p = Pending(o) /\ c = Len(g) + Len(q)
  OBVIOUS
<1>16. Count(p, TRUE, w, c) /\ p = a - Len(loaded[o]) /\ c \in Nat /\ p \in Int
  <2>1. Count(p, TRUE, w, c) /\ p = a - Len(loaded[o])
    BY <1>0, <1>1, <1>3, <1>15 DEF StreamInv, CountInv, Pending
  <2>2. c \in Nat
    BY <1>4, <1>15, Zenon
  <2>3. \A x, y \in Nat : x - y \in Int
    OBVIOUS
  <2>4. p \in Int
    BY <1>2, <2>1, <2>3, Zenon
  <2> QED BY <2>1, <2>2, <2>4
<1>17. CountInv(o)'
  <2>1. Pending(o)' = p
    BY <1>3, <1>15 DEF Pending
  <2>2. Count(p, sending'[t], w + n, c + n)
    <3>1. CASE w + n < HeaderSize
      <4>1. sending'[t] = TRUE
        BY <1>11, <3>1
      <4>2. Count(p, TRUE, w + n, c + n)
        BY <1>4, <1>16, <3>1, CountSend
      <4> QED BY <4>1, <4>2
    <3>2. CASE ~(w + n < HeaderSize)
      <4>1. sending'[t] = FALSE /\ w + n = HeaderSize
        BY <1>2, <1>4, <1>11, <3>2
      <4>2. Count(p, FALSE, w + n, c + n)
        BY <1>4, <1>16, <4>1, CountSend
      <4> QED BY <4>1, <4>2
    <3> QED BY <3>1, <3>2
  <2>3. Len(g) + Len(r) = c + n
    <3>1. PICK l : l = Len(r) /\ l = Len(q) + n
      BY <1>8
    <3> QED BY <1>2, <1>15, <3>1
  <2> QED BY <1>0, <1>1, <1>3, <1>9, <1>10, <2>1, <2>2, <2>3 DEF CountInv
<1>18. \A i : Due(o, i)' = Due(o, i)
  BY <1>3 DEF Due
<1>19. ASSUME NEW i \in 1 .. Len(q) + n PROVE r[i].msg = Due(o, Len(g) + i)
  <2>1. CASE i <= Len(q)
    <3>1. i \in 1 .. Len(q)
      BY <1>2, <2>1
    <3>2. r[i] = q[i]
      BY <1>7, <3>1 DEF WriteGives
    <3>3. q[i].msg = Due(o, Len(g) + i)
      BY <1>0, <1>1, <3>1 DEF StreamInv, BytesInv
    <3> QED BY <3>2, <3>3
  <2>2. CASE i > Len(q)
    <3>1. r[i].msg = do.send
      BY <1>7, <2>2 DEF WriteGives
    <3>2. Due(o, Len(g) + i) = Script(t)[a]
      <4>1. PICK j, l : j = Len(g) + i /\ l = Len(loaded[o])
        OBVIOUS
      <4>2. j \in Nat /\ l \in Nat /\ j > c /\ j <= c + n /\ p = a - l
        BY <1>2, <1>15, <1>16, <2>2, <4>1
      <4>3. (l + IF j <= HeaderSize THEN 1 ELSE 2) = a
        <5>1. w < HeaderSize /\ w + n <= HeaderSize /\ p \in 1 .. 2
          <6>1. w < HeaderSize /\ p > 0 /\ p \in 0 .. 2
            BY <1>16 DEF Count
          <6> QED BY <1>4, <6>1
        <5>2. CASE p = 1
          BY <1>2, <1>4, <1>16, <4>2, <5>1, <5>2 DEF Count
        <5>3. CASE p = 2
          BY <1>2, <1>4, <1>16, <4>2, <5>1, <5>3 DEF Count
        <5> QED BY <5>1, <5>2, <5>3
      <4> QED BY <1>1, <4>1, <4>3 DEF Due
    <3> QED BY <1>6, <3>1, <3>2
  <2> QED BY <1>2, <2>1, <2>2
<1>20. BytesInv(o)'
  <2>1. \A i \in 1 .. Len(got'[o]) : got'[o][i].msg = Due(o, i)'
    BY <1>1, <1>3, <1>18 DEF StreamInv, BytesInv
  <2>2. \A i \in 1 .. Len(pipe'[o]) : pipe'[o][i].msg = Due(o, Len(got[o]) + i)'
    BY <1>0, <1>3, <1>8, <1>9, <1>18, <1>19
  <2> QED BY <2>1, <2>2 DEF BytesInv
<1> QED BY <1>1, <1>3, <1>12, <1>13, <1>14, <1>17, <1>20 DEF IpcInv, StreamInv

-----------------------------------------------------------------------------
(* What a step is for the pipe that leads to u.                            *)
Sends(u, m) == sent'[Other(u)] = Append(sent[Other(u)], m) /\ loaded'[u] = loaded[u]
Receives(u) ==
  /\ Len(loaded[u]) < Len(sent[Other(u)])
  /\ loaded'[u] = Append(loaded[u], sent[Other(u)][Len(loaded[u]) + 1])
  /\ sent'[Other(u)] = sent[Other(u)]
Rests(u) == sent'[Other(u)] = sent[Other(u)] /\ loaded'[u] = loaded[u]
ChannelStep(u) == (\E m \in Message : Sends(u, m)) \/ Receives(u) \/ Rests(u)

LEMMA EnterStep ==
  ASSUME IpcInv, NEW t \in Thread, Enter(t), NEW u \in Thread
  PROVE  ChannelStep(u)
<1>1. /\ loaded' = loaded
      /\ \/ sent' = sent
         \/ \E m \in Message : sent' = [sent EXCEPT ![t] = Append(@, m)]
  BY EnterInv
<1>2. sent \in [Thread -> Seq(Message)] /\ Other(u) \in Thread
  BY Others DEF IpcInv, Typed
<1>3. ASSUME NEW m \in Message, sent' = [sent EXCEPT ![t] = Append(@, m)]
      PROVE  Sends(u, m) \/ Rests(u)
  BY <1>1, <1>2, <1>3 DEF Sends, Rests
<1>4. CASE sent' = sent
  BY <1>1, <1>4 DEF ChannelStep, Rests
<1> QED BY <1>1, <1>3, <1>4 DEF ChannelStep

LEMMA LoadStep ==
  ASSUME IpcInv, NEW t \in Thread, NEW n \in 1 .. HeaderSize, Load(t, n), NEW u \in Thread
  PROVE  ChannelStep(u)
<1>1. /\ sent' = sent
      /\ \/ loaded' = loaded
         \/ /\ Pending(t) > 0
            /\ loaded' = [loaded EXCEPT ![t] = Append(@, sent[Other(t)][Len(@) + 1])]
  BY LoadInv
<1>2. loaded \in [Thread -> Seq(Message)] /\ Other(t) \in Thread /\ Typed
  BY Others DEF IpcInv, Typed
<1>3. CASE loaded' = loaded
  BY <1>1, <1>3 DEF ChannelStep, Rests
<1>4. CASE /\ Pending(t) > 0
           /\ loaded' = [loaded EXCEPT ![t] = Append(@, sent[Other(t)][Len(@) + 1])]
  <2>1. CASE u = t
    <3>1. loaded'[t] = Append(loaded[t], sent[Other(t)][Len(loaded[t]) + 1])
      BY <1>2, <1>4
    <3>2. PICK s, l : s = Len(sent[Other(t)]) /\ l = Len(loaded[t])
      OBVIOUS
    <3>3. s \in Nat /\ l \in Nat
      BY <1>2, <3>2, TypesAt
    <3>4. s - l > 0
      BY <1>4, <3>2 DEF Pending
    <3>5. l < s
      BY <3>3, <3>4
    <3> QED BY <1>1, <2>1, <3>1, <3>2, <3>5 DEF ChannelStep, Receives
  <2>2. CASE u # t
    <3>1. loaded'[u] = loaded[u]
      BY <1>2, <1>4, <2>2
    <3> QED BY <1>1, <3>1 DEF ChannelStep, Rests
  <2> QED BY <2>1, <2>2
<1> QED BY <1>1, <1>3, <1>4

LEMMA IdleStep ==
  ASSUME IpcInv, Join \/ UNCHANGED vars
  PROVE  IpcInv' /\ sent' = sent /\ loaded' = loaded
<1>1. /\ UNCHANGED <<pc, sending, state, got, put, pipe, broken, sent, loaded, handled>>
      /\ main' = main \/ main' \in {"join server", "closed"}
  BY DEF Join, vars
<1>2. Typed'
  BY <1>1 DEF IpcInv, Typed
<1>3. ASSUME NEW u \in Thread PROVE ThreadInv(u)' /\ StreamInv(u)'
  <2>1. ThreadInv(u) /\ StreamInv(u) /\ SameAt(u) /\ Len(pipe'[u]) <= Capacity
    BY <1>1 DEF IpcInv, SameAt, ThreadInv
  <2> QED BY <1>1, <2>1, ThreadSame, StreamSame
<1> QED BY <1>1, <1>2, <1>3 DEF IpcInv

LEMMA NextInv ==
  ASSUME IpcInv, [Next]_vars
  PROVE  IpcInv' /\ \A u \in Thread : ChannelStep(u)
<1>1. ASSUME NEW t \in Thread, ThreadStep(t)
      PROVE  IpcInv' /\ \A u \in Thread : ChannelStep(u)
  <2>1. CASE Enter(t)
    BY <2>1, EnterInv, EnterStep
  <2>2. ASSUME NEW n \in 1 .. HeaderSize, Load(t, n)
        PROVE  IpcInv' /\ \A u \in Thread : ChannelStep(u)
    BY <2>2, LoadInv, LoadStep
  <2>3. ASSUME NEW n \in 1 .. HeaderSize, Send(t, n)
        PROVE  IpcInv' /\ \A u \in Thread : ChannelStep(u)
    BY <2>3, SendInv DEF ChannelStep, Rests
  <2> QED BY <1>1, <2>1, <2>2, <2>3 DEF ThreadStep
<1>2. ASSUME Join \/ UNCHANGED vars
      PROVE  IpcInv' /\ \A u \in Thread : ChannelStep(u)
  BY <1>2, IdleStep DEF ChannelStep, Rests
<1> QED BY <1>1, <1>2 DEF Next

(* Server and client walk through their scripts in step: the points that   *)
(* each thread comes to, and the bytes under way between them, are those   *)
(* of IpcInv, whatever pieces the system calls move.                       *)
THEOREM ScriptKept == Spec => []IpcInv
<1>1. IpcInv /\ [Next]_vars => IpcInv'
  BY NextInv
<1> QED BY <1>1, InitInv, PTL DEF Spec

(* Every variable keeps its type: the pipes never hold more than they can, *)
(* load_dson never has a whole message left over.                          *)
THEOREM TypeCorrect == Spec => []TypeOK
<1>1. IpcInv => TypeOK
  <2> SUFFICES ASSUME IpcInv PROVE TypeOK
    OBVIOUS
  <2>1. Typed
    BY DEF IpcInv
  <2>2. ASSUME NEW t \in Thread
        PROVE  /\ pc[t] \in DOMAIN Cases(t) \cup {"load", "return"}
               /\ put[t] \in 0 .. HeaderSize
               /\ Len(got[t]) < HeaderSize /\ Len(pipe[t]) <= Capacity
               /\ sent[t] \in Seq(Message) /\ loaded[t] \in Seq(Message)
               /\ handled[t] \in Seq(Message)
    <3>1. ThreadInv(t)
      BY DEF IpcInv
    <3>2. AtPoint(t) /\ Len(got[t]) < HeaderSize /\ Len(pipe[t]) <= Capacity
      BY <3>1 DEF ThreadInv
    <3>3. pc[t] \in DOMAIN Cases(t) \cup {"load", "return"}
      BY <2>1, <3>2, PointTypes
    <3> QED BY <2>1, <3>2, <3>3, TypesAt
  <2>3. /\ sending \in [Thread -> BOOLEAN]
        /\ main \in {"join client", "join server", "closed"} /\ broken \subseteq Thread
    BY <2>1 DEF Typed
  <2> QED BY <2>2, <2>3 DEF TypeOK
<1> QED BY <1>1, ScriptKept, PTL

(* Neither thread ever reaches a case of its switch in a state_ that the   *)
(* case does not accept: "state sequence is broken" is never printed, even *)
(* though the server's switch falls through into the cases that follow.    *)
THEOREM SequenceNeverBroken == Spec => []NeverBroken
<1>1. IpcInv => NeverBroken
  BY DEF IpcInv, Typed, NeverBroken
<1> QED BY <1>1, ScriptKept, PTL

(* Each pipe, with send_dson at one end and load_dson at the other, is the *)
(* reliable channel of whole messages.                                     *)
THEOREM Refinement == Spec => PipesDeliver
<1>1. Init => ToServer!Init /\ ToClient!Init
  BY DEF Init, ToServer!Init, ToClient!Init, Thread
<1>2. IpcInv /\ [Next]_vars => [ToServer!Next]_(ToServer!vars) /\ [ToClient!Next]_(ToClient!vars)
  <2> SUFFICES ASSUME IpcInv, [Next]_vars
               PROVE  [ToServer!Next]_(ToServer!vars) /\ [ToClient!Next]_(ToClient!vars)
    OBVIOUS
  <2>1. ChannelStep("server") /\ ChannelStep("client")
    BY NextInv DEF Thread
  <2>2. Other("server") = "client" /\ Other("client") = "server"
    BY DEF Other
  <2>3. [ToServer!Next]_(ToServer!vars)
    BY <2>1, <2>2 DEF ChannelStep, Sends, Receives, Rests, ToServer!Next, ToServer!Send,
      ToServer!Receive, ToServer!vars
  <2>4. [ToClient!Next]_(ToClient!vars)
    BY <2>1, <2>2 DEF ChannelStep, Sends, Receives, Rests, ToClient!Next, ToClient!Send,
      ToClient!Receive, ToClient!vars
  <2> QED BY <2>3, <2>4
<1> QED BY <1>1, <1>2, ScriptKept, PTL DEF Spec, PipesDeliver, ToServer!Spec, ToClient!Spec
=============================================================================

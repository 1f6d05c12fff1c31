---------------------------- MODULE StarRouting ----------------------------
(***************************************************************************)
(* star_routing() of examples/network.  A client sends requests over a     *)
(* non-blocking socket to services that live in the server's process; the  *)
(* server's only thread loads a request, lets the router call the service, *)
(* and the service's answer is routed back to the queue of the socket.     *)
(*                                                                         *)
(* Nobody blocks: the client repeats copy_to_fd until its message is gone  *)
(* but calls load_from_fd once per request, and the server takes turns     *)
(* between one load_from_fd and what it can write of its queue.            *)
(*                                                                         *)
(* A message moves in Pieces (its header, its objects); FdTransfer shows   *)
(* what happens at every byte.  The socket may fail while it is set up,    *)
(* which throws and ends the program, or later, and then every read() and  *)
(* write() on it fails.                                                    *)
(***************************************************************************)
EXTENDS Naturals, Sequences, FiniteSets

CONSTANTS
  Service,     (* The ids the services register in the router.             *)
  Requests,    (* The client asks service ids 0 .. Requests - 1.           *)
  Client,      (* client_certificate_id.                                   *)
  Pieces,      (* Pieces a message may be cut into.                        *)
  Capacity,    (* Pieces a direction of the socket holds.                  *)
  Faults       (* May the socket fail?                                     *)

ASSUME StarAssumption ==
  /\ Requests \in Nat /\ Service \subseteq Nat
  /\ Client \in Nat \ Service /\ Client >= Requests
  /\ Pieces \in Nat \ {0} /\ Capacity \in Nat \ {0}
  /\ Faults \in BOOLEAN

VARIABLES
  cPc,       (* Where the client is in the logic given to execute().       *)
  service,   (* service_id of the next request.                            *)
  answered,  (* was_answers, and can_finish_promise has its value.         *)
  cOut,      (* The message the client is sending ...                      *)
  cPut,      (* ... and how many pieces of it are sent.                    *)
  cGot,      (* Pieces of answer_dson.                                     *)
  sPc,       (* Where the server is in server_loop.                        *)
  keepRun,   (* keep_run_.                                                 *)
  sGot,      (* Pieces of the server's dson.                               *)
  routes,    (* The keys of route_table_.                                  *)
  chunk,     (* chunk_id of each service.                                  *)
  queue,     (* write_deque ...                                            *)
  sPut,      (* ... and how many pieces of its front are sent.             *)
  up, down,  (* The two directions of the socket.                          *)
  sock,      (* The socket: none, listening, connected or accepted.        *)
  broken,    (* It fails.                                                  *)
  main,      (* Where star_routing() is.                                   *)
  asked,     (* Messages the client began to send.                         *)
  got        (* Messages the client loaded.                                *)

clientVars == <<cPc, service, answered, cOut, cPut, cGot, asked, got>>
serverVars == <<sPc, sGot, routes, chunk, queue, sPut>>
vars == <<cPc, service, answered, cOut, cPut, cGot, sPc, keepRun, sGot,
          routes, chunk, queue, sPut, up, down, sock, broken, main, asked, got>>
socket == <<sock, broken>>

-----------------------------------------------------------------------------
Dson(key, from, to, id) == [key |-> key, from |-> from, to |-> to, chunk |-> id]

Cut(m, from, n) == [i \in 1 .. n |-> [msg |-> m, piece |-> from + i]]
Rest(s, n)      == SubSeq(s, n + 1, Len(s))

(* What one call moves: nothing only if there is nothing to move.          *)
Moves(possible, wanted) ==
  {n \in 0 .. wanted : n <= possible /\ (n = 0 => possible = 0)}

(* What a service answers, with the address reversed.                      *)
Answer(m, id) ==
  Dson(IF m.key = "WantAuth" THEN "Authed" ELSE "SimpleData",
       m.to, m.from, IF m.key = "WantAuth" THEN 0 ELSE id)

NoMessage == Dson("none", 0, 0, 0)

-----------------------------------------------------------------------------
Init ==
  /\ cPc = "idle" /\ service = 0 /\ answered = FALSE
  /\ cOut = NoMessage /\ cPut = 0 /\ cGot = << >>
  /\ sPc = "idle" /\ keepRun = TRUE /\ sGot = << >>
  /\ routes = Service /\ chunk = [s \in Service |-> 0]
  /\ queue = << >> /\ sPut = 0
  /\ up = << >> /\ down = << >> /\ sock = "none" /\ broken = FALSE
  /\ main = "create" /\ asked = << >> /\ got = << >>

(***************************************************************************)
(* Setting up the socket.  What fails throws, and nobody catches.          *)
(***************************************************************************)
CreateSocket ==
  /\ main = "create"
  /\ \/ sock' = "listening" /\ main' = "connect" /\ sPc' = "accept"
     \/ Faults /\ main' = "aborted" /\ UNCHANGED <<sock, sPc>>
  /\ UNCHANGED <<clientVars, keepRun, sGot, routes, chunk, queue, sPut, up, down, broken>>

(* connect() does not wait for accept(), and what the client sends before  *)
(* is kept for it.                                                         *)
CreateConnection ==
  /\ main = "connect" /\ sock = "listening"
  /\ \/ sock' = "connected" /\ main' = "execute" /\ cPc' = "next"
     \/ Faults /\ main' = "aborted" /\ UNCHANGED <<sock, cPc>>
  /\ UNCHANGED <<service, answered, cOut, cPut, cGot, asked, got, serverVars, keepRun, up, down, broken>>

AcceptConnection ==
  /\ sPc = "accept" /\ sock = "connected"
  /\ \/ sock' = "accepted" /\ sPc' = "load" /\ UNCHANGED main
     \/ Faults /\ main' = "aborted" /\ UNCHANGED <<sock, sPc>>
  /\ UNCHANGED <<clientVars, keepRun, sGot, routes, chunk, queue, sPut, up, down, broken>>

Break ==
  /\ Faults
  /\ sock = "accepted" /\ ~broken
  /\ broken' = TRUE
  /\ UNCHANGED <<clientVars, serverVars, keepRun, up, down, sock, main>>

-----------------------------------------------------------------------------
Starts(m) ==
  /\ cOut' = m /\ cPut' = 0
  /\ asked' = Append(asked, m)

(* The for loop over the services; after it the client goes on polling     *)
(* until there was an answer.                                              *)
NextRequest ==
  /\ cPc = "next"
  /\ \/ /\ service < Requests
        /\ Starts(Dson("WantAuth", Client, service, 0))
        /\ service' = service + 1
        /\ cPc' = "send"
     \/ /\ service = Requests
        /\ cPc' = IF answered THEN "done" ELSE "load"
        /\ UNCHANGED <<service, cOut, cPut, asked>>
  /\ UNCHANGED <<answered, cGot, serverVars, keepRun, up, down, socket, main, got>>

(* send_dson: one more copy_to_fd, until Ready.                            *)
ClientSend(n) ==
  /\ cPc \in {"send", "reply"} /\ ~broken
  /\ n \in 1 .. Pieces - cPut /\ Len(up) + n <= Capacity
  /\ up' = up \o Cut(cOut, cPut, n)
  /\ cPut' = cPut + n
  /\ cPc' = IF cPut + n < Pieces THEN cPc ELSE IF cPc = "send" THEN "load" ELSE "note"
  /\ UNCHANGED <<service, answered, cOut, cGot, serverVars, keepRun, down, socket, main, asked, got>>

(* A request that cannot be sent ends the client, the promise set or not;  *)
(* what becomes of the client's answer to an answer is not looked at.      *)
ClientSendFails ==
  /\ cPc \in {"send", "reply"} /\ broken
  /\ cPc' = IF cPc = "send" THEN "done" ELSE "note"
  /\ UNCHANGED <<service, answered, cOut, cPut, cGot, serverVars, keepRun, up, down, socket, main, asked, got>>

(* Error is no more to the client than InProcess.                          *)
ClientLoadFails ==
  /\ cPc = "load" /\ broken
  /\ cGot' = << >> /\ cPc' = "next"
  /\ UNCHANGED <<service, answered, cOut, cPut, serverVars, keepRun, up, down, socket, main, asked, got>>

(* One load_from_fd, which is Ready or InProcess.                          *)
ClientLoad(n) ==
  /\ cPc = "load" /\ ~broken
  /\ n \in Moves(Len(down), Pieces - Len(cGot))
  /\ down' = Rest(down, n)
  /\ LET pieces == cGot \o SubSeq(down, 1, n)
     IN  IF Len(pieces) < Pieces
           THEN cGot' = pieces /\ cPc' = "next" /\ UNCHANGED got
           ELSE /\ cGot' = << >> /\ cPc' = "callback"
                /\ got' = Append(got, pieces[1].msg)
  /\ UNCHANGED <<service, answered, cOut, cPut, serverVars, keepRun, up, socket, main, asked>>

(* client_callback: to the service that let it in the client sends data.   *)
ClientCallback ==
  /\ cPc = "callback"
  /\ LET m == got[Len(got)]
     IN  IF m.key = "Authed"
           THEN Starts(Dson("SimpleData", Client, m.from, 0)) /\ cPc' = "reply"
           ELSE cPc' = "note" /\ UNCHANGED <<cOut, cPut, asked>>
  /\ UNCHANGED <<service, answered, cGot, serverVars, keepRun, up, down, socket, main, got>>

(* was_answers = true, and the promise gets its value.                     *)
NoteAnswer ==
  /\ cPc = "note"
  /\ answered' = TRUE
  /\ cPc' = "next"
  /\ UNCHANGED <<service, cOut, cPut, cGot, serverVars, keepRun, up, down, socket, main, asked, got>>

-----------------------------------------------------------------------------
(* server_loop while keep_run_: one load_from_fd.                          *)
ServerLoad(n) ==
  /\ sPc = "load" /\ keepRun /\ ~broken
  /\ n \in Moves(Len(up), Pieces - Len(sGot))
  /\ up' = Rest(up, n)
  /\ sGot' = sGot \o SubSeq(up, 1, n)
  /\ sPc' = IF Len(sGot') < Pieces THEN "flush" ELSE "route"
  /\ UNCHANGED <<clientVars, keepRun, routes, chunk, queue, sPut, down, socket, main>>

(* After Error the thread returns at once.                                 *)
ServerLoadFails ==
  /\ sPc = "load" /\ keepRun /\ broken
  /\ sPc' = "finished"
  /\ UNCHANGED <<clientVars, keepRun, sGot, routes, chunk, queue, sPut, up, down, socket, main>>

ServerStops ==
  /\ sPc = "load" /\ ~keepRun
  /\ sPc' = "finished"
  /\ UNCHANGED <<clientVars, keepRun, sGot, routes, chunk, queue, sPut, up, down, socket, main>>

(* Variants of Route: the answer goes to the front of the queue; its       *)
(* address is not reversed, so that the service is sent its own answer.    *)
RouteToFront ==
  /\ sPc = "route"
  /\ LET m == sGot[1].msg IN
     /\ routes' = routes \cup {m.from}
     /\ IF m.to \in Service
          THEN /\ chunk' = [chunk EXCEPT ![m.to] = @ + 1]
               /\ queue' = <<Answer(m, chunk[m.to] + 1)>> \o queue
               /\ sPc' = "answer"
          ELSE UNCHANGED <<chunk, queue>> /\ sPc' = "flush"
  /\ sGot' = << >>
  /\ UNCHANGED <<clientVars, keepRun, sPut, up, down, socket, main>>

RouteNotReversed ==
  /\ sPc = "route"
  /\ LET m == sGot[1].msg IN
     /\ routes' = routes \cup {m.from}
     /\ IF m.to \in Service
          THEN chunk' = [chunk EXCEPT ![m.to] = @ + 1]
          ELSE UNCHANGED chunk
  /\ sPc' = "flush"
  /\ sGot' = << >>
  /\ UNCHANGED <<clientVars, keepRun, queue, sPut, up, down, socket, main>>

(* The request is complete.  The sender of the first one becomes a route   *)
(* to this socket; the router calls the service asked for, if there is     *)
(* one; the service counts the request, and the router finds the route of  *)
(* its answer, which joins write_deque and may be written at once.         *)
Route ==
  /\ sPc = "route"
  /\ LET m == sGot[1].msg IN
     /\ routes' = IF Client \in routes THEN routes ELSE routes \cup {m.from}
     /\ chunk' = IF m.to \in Service THEN [chunk EXCEPT ![m.to] = @ + 1] ELSE chunk
     /\ IF m.to \in Service /\ m.from \in routes'
          THEN queue' = Append(queue, Answer(m, chunk'[m.to])) /\ sPc' = "answer"
          ELSE sPc' = "flush" /\ UNCHANGED queue
  /\ sGot' = << >>
  /\ UNCHANGED <<clientVars, keepRun, sPut, up, down, socket, main>>

(* send_dson_from_deque, called by the route's callback and again at the   *)
(* end of the loop: one copy_to_fd of the front.  Ready pops it and the    *)
(* while goes on, InProcess ends it.                                       *)
Flush(n) ==
  /\ sPc \in {"answer", "flush"} /\ queue # << >> /\ ~broken
  /\ n \in Moves(Capacity - Len(down), Pieces - sPut)
  /\ down' = down \o Cut(Head(queue), sPut, n)
  /\ \/ /\ sPut + n = Pieces
        /\ queue' = Tail(queue) /\ sPut' = 0
        /\ UNCHANGED sPc
     \/ /\ sPut + n < Pieces
        /\ sPut' = sPut + n
        /\ sPc' = IF sPc = "answer" THEN "flush" ELSE "load"
        /\ UNCHANGED queue
  /\ UNCHANGED <<clientVars, keepRun, sGot, routes, chunk, up, socket, main>>

(* After Error the loop ends at its next test of keep_run_, but only after *)
(* another try.                                                            *)
FlushFails ==
  /\ sPc \in {"answer", "flush"} /\ queue # << >> /\ broken
  /\ keepRun' = FALSE /\ sPut' = 0
  /\ sPc' = IF sPc = "answer" THEN "flush" ELSE "load"
  /\ UNCHANGED <<clientVars, sGot, routes, chunk, queue, up, down, socket, main>>

Flushed ==
  /\ sPc \in {"answer", "flush"} /\ queue = << >>
  /\ sPc' = IF sPc = "answer" THEN "flush" ELSE "load"
  /\ UNCHANGED <<clientVars, keepRun, sGot, routes, chunk, queue, sPut, up, down, socket, main>>

-----------------------------------------------------------------------------
(* can_finish_future.wait(), then server.stop(): keep_run_ = false, join.  *)
Stop ==
  /\ main = "execute" /\ cPc = "done" /\ answered
  /\ keepRun' = FALSE
  /\ main' = "join"
  /\ UNCHANGED <<clientVars, serverVars, up, down, socket>>

Join ==
  /\ main = "join" /\ sPc = "finished"
  /\ main' = "finished"
  /\ UNCHANGED <<clientVars, serverVars, keepRun, up, down, socket>>

-----------------------------------------------------------------------------
ClientStep ==
  \/ NextRequest \/ ClientSendFails \/ ClientLoadFails
  \/ \E n \in 1 .. Pieces : ClientSend(n)
  \/ \E n \in 0 .. Pieces : ClientLoad(n)
  \/ ClientCallback
  \/ NoteAnswer

ServerStep ==
  \/ AcceptConnection \/ ServerLoadFails \/ FlushFails
  \/ \E n \in 0 .. Pieces : ServerLoad(n)
  \/ ServerStops
  \/ Route
  \/ \E n \in 0 .. Pieces : Flush(n)
  \/ Flushed

MainStep == CreateSocket \/ CreateConnection \/ Stop \/ Join

Next == main # "aborted" /\ (ClientStep \/ ServerStep \/ MainStep \/ Break)

(* The scheduler runs both threads: each polls, and none ever blocks but   *)
(* in accept(), wait() and join().                                         *)
Spec ==
  /\ Init /\ [][Next]_vars
  /\ WF_vars(Next /\ ClientStep) /\ WF_vars(Next /\ ServerStep) /\ WF_vars(Next /\ MainStep)

-----------------------------------------------------------------------------
(***************************************************************************)
(* Properties                                                              *)
(***************************************************************************)
(* What each request of the client must be answered: a request to no       *)
(* service nothing, the k-th one to a service its chunk k.                 *)
Expected ==
  LET count(i) == Cardinality({j \in 1 .. i : asked[j].to = asked[i].to})
      answers[i \in 0 .. Len(asked)] ==
        IF i = 0 THEN << >>
        ELSE IF asked[i].to \in Service
          THEN Append(answers[i - 1], Answer(asked[i], count(i)))
          ELSE answers[i - 1]
  IN  answers[Len(asked)]

(* From the client's side socket, router and services together are the     *)
(* first-in first-out channel of MessageChannel: answers arrive whole, one *)
(* for each request that has a service, in the order of the requests.      *)
Answers == {Dson(k, s, Client, id) :
              k \in {"Authed", "SimpleData"}, s \in Service, id \in 0 .. 2 * Requests}

Replies == INSTANCE MessageChannel
             WITH Object <- Answers, sent <- Expected, received <- got
ImplementsChannel == Replies!Spec

(* However much is waiting in the two directions of the socket, client and *)
(* server do not wait for each other for ever: the example ends, the       *)
(* connection lost or not.  Only if it is lost before the first answer the *)
(* promise is never set (dson_network.cpp:149), and the example hangs.     *)
Ends ==
  <>(main \in {"finished", "aborted"}) \/ <>[](broken /\ ~answered)
=============================================================================

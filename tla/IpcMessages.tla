---------------------------- MODULE IpcMessages ----------------------------
(***************************************************************************)
(* empty_messages() of examples/ipc: a server thread and a client thread   *)
(* exchange Dson objects that are a key and no data over two pipes, and    *)
(* main() joins both.                                                      *)
(*                                                                         *)
(* Each thread loops: load_dson, then the switch on the key of what it     *)
(* loaded.  A case checks the thread's state_, sends the answer with       *)
(* send_dson and sets the next state_.  A message is the bytes of its      *)
(* header, moved by as many system calls as the pipes make of it.          *)
(***************************************************************************)
EXTENDS Integers, Sequences

CONSTANTS
  HeaderSize,   (* header_size: the bytes of a message.      *)
  Capacity      (* Bytes a pipe holds before a write blocks. *)

ASSUME IpcAssumption ==
  /\ HeaderSize \in Nat \ {0}
  /\ Capacity \in Nat \ {0}

Thread  == {"server", "client"}
Message == {"IAmClient", "IAmServer", "AlarmEnemyDetected", "AttackEnemy",
            "EnemyDestroyed", "GoShutdown", "WorkFinished"}

VARIABLES
  pc,       (* "load", "return", or the case of the switch being executed. *)
  sending,  (* Is that case in send_dson?                                  *)
  state,    (* state_ of each thread.                                      *)
  got,      (* The bytes load_dson has so far.                             *)
  put,      (* How many bytes send_dson has written.                       *)
  pipe,     (* The bytes in the pipe that leads to each thread.            *)
  main,     (* Where main() is.                                            *)
  broken,   (* Threads that printed "state sequence is broken".            *)
  sent,     (* Messages each thread began to send.                         *)
  loaded,   (* Messages each thread loaded.                                *)
  handled   (* Messages each thread printed as received.                   *)

vars == <<pc, sending, state, got, put, pipe, main, broken, sent, loaded, handled>>

Other(t) == IF t = "server" THEN "client" ELSE "server"

(***************************************************************************)
(* The switches.  A case requires state_ to be "in", sends "send", sets    *)
(* state_ to "to" and goes on at "then": "load" after a break, "return",   *)
(* or the next case where the source has no break.                         *)
(***************************************************************************)
Does(in, send, to, then) == [in |-> in, send |-> send, to |-> to, then |-> then]

(* Variants a slip of the pen would give, each caught by a property below. *)
ClientCaseStateKept ==
  [start       |-> Does("start", "IAmClient", "WaitServerAuth", "load"),
   IAmServer   |-> Does("WaitServerAuth", "AlarmEnemyDetected",
                        "WaitServerAtackOrder", "load"),
   AttackEnemy |-> Does("WaitServerAtackOrder", "EnemyDestroyed",
                        "WaitServerAtackOrder", "load"),
   GoShutdown  |-> Does("WaitServerShutdownOrder", "WorkFinished",
                        "WaitServerShutdownOrder", "return")]

ServerCaseNoAnswer ==
  [IAmClient          |-> Does("WaitClientAuth", "nothing",
                               "WaitEnemyDetection", "load"),
   AlarmEnemyDetected |-> Does("WaitEnemyDetection", "AttackEnemy",
                               "WaitEnemyDestroyed", "EnemyDestroyed"),
   EnemyDestroyed     |-> Does("WaitEnemyDestroyed", "GoShutdown",
                               "WaitClientShutdowned", "WorkFinished"),
   WorkFinished       |-> Does("WaitClientShutdowned", "nothing",
                               "WaitClientShutdowned", "return")]

ServerCase ==
  [IAmClient          |-> Does("WaitClientAuth", "IAmServer",
                               "WaitEnemyDetection", "load"),
   AlarmEnemyDetected |-> Does("WaitEnemyDetection", "AttackEnemy",
                               "WaitEnemyDestroyed", "EnemyDestroyed"),
   EnemyDestroyed     |-> Does("WaitEnemyDestroyed", "GoShutdown",
                               "WaitClientShutdowned", "WorkFinished"),
   WorkFinished       |-> Does("WaitClientShutdowned", "nothing",
                               "WaitClientShutdowned", "return")]

(* start: what the client does before its loop.                            *)
ClientCase ==
  [start       |-> Does("start", "IAmClient", "WaitServerAuth", "load"),
   IAmServer   |-> Does("WaitServerAuth", "AlarmEnemyDetected",
                        "WaitServerAtackOrder", "load"),
   AttackEnemy |-> Does("WaitServerAtackOrder", "EnemyDestroyed",
                        "WaitServerShutdownOrder", "load"),
   GoShutdown  |-> Does("WaitServerShutdownOrder", "WorkFinished",
                        "WaitServerShutdownOrder", "return")]

Cases(t) == IF t = "server" THEN ServerCase ELSE ClientCase

Bytes(m, from, n) == [i \in 1 .. n |-> [msg |-> m, pos |-> from + i - 1]]

-----------------------------------------------------------------------------
Init ==
  /\ pc = [t \in Thread |-> IF t = "server" THEN "load" ELSE "start"]
  /\ sending = [t \in Thread |-> FALSE]
  /\ state = [t \in Thread |-> IF t = "server" THEN "WaitClientAuth" ELSE "start"]
  /\ got = [t \in Thread |-> << >>] /\ put = [t \in Thread |-> 0]
  /\ pipe = [t \in Thread |-> << >>]
  /\ main = "join client" /\ broken = {}
  /\ sent = [t \in Thread |-> << >>]
  /\ loaded = [t \in Thread |-> << >>]
  /\ handled = [t \in Thread |-> << >>]

LoadPastHeader(t, n) ==
  /\ pc[t] = "load"
  /\ n \in 1 .. HeaderSize /\ n <= Len(pipe[t])
  /\ pipe' = [pipe EXCEPT ![t] = SubSeq(@, n + 1, Len(@))]
  /\ LET bytes == got[t] \o SubSeq(pipe[t], 1, n) IN
       IF Len(bytes) # HeaderSize
         THEN got' = [got EXCEPT ![t] = bytes] /\ UNCHANGED <<pc, loaded>>
         ELSE /\ got' = [got EXCEPT ![t] = << >>]
              /\ loaded' = [loaded EXCEPT ![t] = Append(@, bytes[1].msg)]
              /\ pc' = [pc EXCEPT ![t] = bytes[1].msg]
  /\ UNCHANGED <<sending, state, put, main, broken, sent, handled>>

LoadAnyPiece(t, n) ==
  /\ pc[t] = "load"
  /\ n \in 1 .. HeaderSize - Len(got[t]) /\ n <= Len(pipe[t])
  /\ pipe' = [pipe EXCEPT ![t] = SubSeq(@, n + 1, Len(@))]
  /\ got' = [got EXCEPT ![t] = << >>]
  /\ loaded' = [loaded EXCEPT ![t] = Append(@, pipe[t][1].msg)]
  /\ UNCHANGED <<pc, sending, state, put, main, broken, sent, handled>>

(* load_dson: read() yields n more bytes; the last one completes a message *)
(* and the switch selects its case, or default, which only prints.         *)
Load(t, n) ==
  /\ pc[t] = "load"
  /\ n \in 1 .. HeaderSize - Len(got[t]) /\ n <= Len(pipe[t])
  /\ pipe' = [pipe EXCEPT ![t] = SubSeq(@, n + 1, Len(@))]
  /\ LET bytes == got[t] \o SubSeq(pipe[t], 1, n)
         key   == bytes[1].msg
     IN  IF Len(bytes) < HeaderSize
           THEN /\ got' = [got EXCEPT ![t] = bytes]
                /\ UNCHANGED <<pc, loaded>>
           ELSE /\ got' = [got EXCEPT ![t] = << >>]
                /\ loaded' = [loaded EXCEPT ![t] = Append(@, key)]
                /\ pc' = [pc EXCEPT ![t] = IF key \in DOMAIN Cases(t) THEN key ELSE "load"]
  /\ UNCHANGED <<sending, state, put, main, broken, sent, handled>>

(* A case begins: it checks the state and starts the answer.               *)
Enter(t) ==
  /\ pc[t] \in DOMAIN Cases(t) /\ ~sending[t]
  /\ LET do == Cases(t)[pc[t]] IN
     IF state[t] # do.in
       THEN /\ broken' = broken \cup {t}
            /\ pc' = [pc EXCEPT ![t] = "return"]
            /\ UNCHANGED <<sending, put, sent, handled>>
       ELSE /\ handled' = [handled EXCEPT ![t] =
                             IF pc[t] = "start" THEN @ ELSE Append(@, pc[t])]
            /\ IF do.send = "nothing"
                 THEN /\ pc' = [pc EXCEPT ![t] = do.then]
                      /\ UNCHANGED <<sending, put, sent>>
                 ELSE /\ sending' = [sending EXCEPT ![t] = TRUE]
                      /\ put' = [put EXCEPT ![t] = 0]
                      /\ sent' = [sent EXCEPT ![t] = Append(@, do.send)]
                      /\ UNCHANGED pc
            /\ UNCHANGED broken
  /\ UNCHANGED <<state, got, pipe, main, loaded>>

(* send_dson: write() takes n more bytes; after the last one the case sets *)
(* state_ and ends.                                                        *)
Send(t, n) ==
  /\ sending[t]
  /\ n \in 1 .. HeaderSize - put[t] /\ Len(pipe[Other(t)]) + n <= Capacity
  /\ LET do == Cases(t)[pc[t]] IN
     /\ pipe' = [pipe EXCEPT ![Other(t)] = @ \o Bytes(do.send, put[t], n)]
     /\ put' = [put EXCEPT ![t] = @ + n]
     /\ IF put[t] + n < HeaderSize
          THEN UNCHANGED <<pc, sending, state>>
          ELSE /\ sending' = [sending EXCEPT ![t] = FALSE]
               /\ state' = [state EXCEPT ![t] = do.to]
               /\ pc' = [pc EXCEPT ![t] = do.then]
  /\ UNCHANGED <<got, main, broken, sent, loaded, handled>>

(* main() joins the client, then the server, then closes the pipes.        *)
Join ==
  /\ \/ main = "join client" /\ pc["client"] = "return" /\ main' = "join server"
     \/ main = "join server" /\ pc["server"] = "return" /\ main' = "closed"
  /\ UNCHANGED <<pc, sending, state, got, put, pipe, broken, sent, loaded, handled>>

ThreadStep(t) ==
  \/ Enter(t)
  \/ \E n \in 1 .. HeaderSize : Load(t, n)
  \/ \E n \in 1 .. HeaderSize : Send(t, n)

Next == (\E t \in Thread : ThreadStep(t)) \/ Join

(* The scheduler runs every thread; a blocked system call returns once it  *)
(* can move a byte.                                                        *)
Spec ==
  /\ Init /\ [][Next]_vars
  /\ \A t \in Thread : WF_vars(ThreadStep(t))
  /\ WF_vars(Join)

-----------------------------------------------------------------------------
(* Every variable keeps its type.                                          *)
TypeOK ==
  /\ \A t \in Thread :
       /\ pc[t] \in DOMAIN Cases(t) \cup {"load", "return"}
       /\ put[t] \in 0 .. HeaderSize
       /\ Len(got[t]) < HeaderSize
       /\ Len(pipe[t]) <= Capacity
       /\ sent[t] \in Seq(Message) /\ loaded[t] \in Seq(Message)
       /\ handled[t] \in Seq(Message)
  /\ sending \in [Thread -> BOOLEAN]
  /\ main \in {"join client", "join server", "closed"}
  /\ broken \subseteq Thread

(* Neither thread ever prints "state sequence is broken": every message    *)
(* finds the state_ it is meant for.                                       *)
NeverBroken == broken = {}

(* Each pipe is the reliable channel of whole messages that MessageChannel *)
(* describes, whatever pieces the two threads move them in.                *)
ToServer == INSTANCE MessageChannel
              WITH Object <- Message, sent <- sent["client"], received <- loaded["server"]
ToClient == INSTANCE MessageChannel
              WITH Object <- Message, sent <- sent["server"], received <- loaded["client"]
PipesDeliver == ToServer!Spec /\ ToClient!Spec

(* Both threads return and main() closes the pipes.                        *)
Finishes == <>(main = "closed")

(* The server's state_ is the "guarantor of the order of messages": what   *)
(* it prints as received are messages it loaded, in the order it loaded    *)
(* them.                                                                   *)
HandlesWhatItLoaded ==
  /\ Len(handled["server"]) <= Len(loaded["server"])
  /\ \A i \in 1 .. Len(handled["server"]) : handled["server"][i] = loaded["server"][i]
=============================================================================

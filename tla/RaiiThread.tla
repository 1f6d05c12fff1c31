----------------------------- MODULE RaiiThread -----------------------------
(***************************************************************************)
(* RAIIthread: an owner of a std::thread that several threads may join and *)
(* move.  The mutex of an object protects its bundle_; a move assignment   *)
(* joins what the target owns, locks the target, and inside takes the      *)
(* bundle of the source under the mutex of the source.  What the target    *)
(* got in between is joined by the destructor of its Bundle.               *)
(*                                                                         *)
(* The mutex of a Bundle is left out: a Bundle has one unique_ptr, and who *)
(* joins it holds the mutex of the object or has the Bundle in hand.       *)
(***************************************************************************)
EXTENDS Naturals, FiniteSets

CONSTANTS
  Object,      (* The RAIIthreads.                                         *)
  Caller,      (* The threads that use them.                               *)
  Worker,      (* The std::threads they own.                               *)
  None,        (* No thread: the value of an empty bundle_, a free mutex.  *)
  Moves,       (* The assignments <<target, source>> the program has.      *)
  MaxCalls     (* Bound on the calls of one caller.                        *)

ASSUME RaiiAssumption ==
  /\ IsFiniteSet(Object) /\ IsFiniteSet(Caller)
  /\ None \notin Caller \cup Worker
  /\ Moves \subseteq Object \X Object
  /\ MaxCalls \in Nat

VARIABLES
  bundle,      (* The worker each object owns.                             *)
  mutex,       (* The caller that holds the mutex of each object.          *)
  running,     (* The workers that have not ended.                         *)
  joined,      (* How often thread_.join() was called for each worker.     *)
  pc,          (* Where each caller is in its call ...                     *)
  target,      (* ... on this object ...                                   *)
  source,      (* ... assigned from this one; itself: a call of join().    *)
  hand,        (* The bundle move_bundle returned to it.                   *)
  calls        (* Calls each caller began.                                 *)

vars == <<bundle, mutex, running, joined, pc, target, source, hand, calls>>

-----------------------------------------------------------------------------
(* Each worker was put in one object by its constructor.                   *)
Init ==
  /\ bundle \in [Object -> Worker \cup {None}]
  /\ \A w \in Worker : Cardinality({o \in Object : bundle[o] = w}) = 1
  /\ mutex = [o \in Object |-> None]
  /\ running = Worker
  /\ joined = [w \in Worker |-> 0]
  /\ pc = [c \in Caller |-> "idle"]
  /\ target \in {[c \in Caller |-> o] : o \in Object} /\ source = target
  /\ hand = [c \in Caller |-> None]
  /\ calls = [c \in Caller |-> 0]

Goes(c, place) == pc' = [pc EXCEPT ![c] = place]
Holds(c)       == mutex[target[c]] = c
Frees(c)       == mutex' = [mutex EXCEPT ![target[c]] = None]

(* A call of join(), of the destructor, or of a move assignment (one from  *)
(* the object to itself returns at once).                                  *)
Call(c, o, s) ==
  /\ pc[c] = "idle" /\ calls[c] < MaxCalls
  /\ o = s \/ <<o, s>> \in Moves
  /\ target' = [target EXCEPT ![c] = o]
  /\ source' = [source EXCEPT ![c] = s]
  /\ calls' = [calls EXCEPT ![c] = @ + 1]
  /\ Goes(c, "join")
  /\ UNCHANGED <<bundle, mutex, running, joined, hand>>

(* A variant in which join() does not lock.                                *)
JoinLockFree(c) ==
  /\ pc[c] = "join"
  /\ Goes(c, "joining")
  /\ UNCHANGED <<bundle, mutex, running, joined, target, source, hand, calls>>

JoinLock(c) ==
  /\ pc[c] = "join" /\ mutex[target[c]] = None
  /\ mutex' = [mutex EXCEPT ![target[c]] = c]
  /\ Goes(c, "joining")
  /\ UNCHANGED <<bundle, running, joined, target, source, hand, calls>>

(* What the worker of an object, if it has one, needs to be joined.        *)
Joins(w) ==
  /\ w \notin running
  /\ joined' = IF w = None THEN joined ELSE [joined EXCEPT ![w] = @ + 1]

(* bundle_->join(), reset(), and the end of the lock_guard.                *)
JoinDone(c) ==
  /\ pc[c] = "joining"
  /\ Joins(bundle[target[c]])
  /\ bundle' = [bundle EXCEPT ![target[c]] = None]
  /\ Frees(c)
  /\ Goes(c, IF source[c] = target[c] THEN "idle" ELSE "assign")
  /\ UNCHANGED <<running, target, source, hand, calls>>

AssignLock(c) ==
  /\ pc[c] = "assign" /\ mutex[target[c]] = None
  /\ mutex' = [mutex EXCEPT ![target[c]] = c]
  /\ Goes(c, "take")
  /\ UNCHANGED <<bundle, running, joined, target, source, hand, calls>>

(* A variant that keeps the mutex of the source.                           *)
TakeKeepsLock(c) ==
  /\ pc[c] = "take" /\ mutex[source[c]] = None
  /\ hand' = [hand EXCEPT ![c] = bundle[source[c]]]
  /\ bundle' = [bundle EXCEPT ![source[c]] = None]
  /\ mutex' = [mutex EXCEPT ![source[c]] = c]
  /\ Goes(c, "store")
  /\ UNCHANGED <<running, joined, target, source, calls>>

(* other.move_bundle(), which locks and unlocks the mutex of other.        *)
Take(c) ==
  /\ pc[c] = "take" /\ mutex[source[c]] = None
  /\ hand' = [hand EXCEPT ![c] = bundle[source[c]]]
  /\ bundle' = [bundle EXCEPT ![source[c]] = None]
  /\ Goes(c, "store")
  /\ UNCHANGED <<mutex, running, joined, target, source, calls>>

(* A variant that forgets what the target owns by now.                     *)
StoreForgets(c) ==
  /\ pc[c] = "store"
  /\ bundle' = [bundle EXCEPT ![target[c]] = hand[c]]
  /\ hand' = [hand EXCEPT ![c] = None]
  /\ Frees(c)
  /\ Goes(c, "idle")
  /\ UNCHANGED <<running, joined, target, source, calls>>

(* bundle_ = ...: the Bundle that is replaced is destroyed, and so joined. *)
Store(c) ==
  /\ pc[c] = "store"
  /\ Joins(bundle[target[c]])
  /\ bundle' = [bundle EXCEPT ![target[c]] = hand[c]]
  /\ hand' = [hand EXCEPT ![c] = None]
  /\ Frees(c)
  /\ Goes(c, "idle")
  /\ UNCHANGED <<running, target, source, calls>>

WorkerEnds(w) ==
  /\ w \in running
  /\ running' = running \ {w}
  /\ UNCHANGED <<bundle, mutex, joined, pc, target, source, hand, calls>>

CallerStep(c) == JoinLock(c) \/ JoinDone(c) \/ AssignLock(c) \/ Take(c) \/ Store(c)

Next ==
  \/ \E c \in Caller :
       \/ \E o, s \in Object : Call(c, o, s)
       \/ CallerStep(c)
  \/ \E w \in Worker : WorkerEnds(w)

(* Callers run, and workers end, as server_loop does when keep_run_ is     *)
(* false.  Calls are bounded, so that no caller is overtaken for ever at a *)
(* mutex.                                                                  *)
Spec ==
  /\ Init /\ [][Next]_vars
  /\ \A c \in Caller : WF_vars(CallerStep(c))
  /\ \A w \in Worker : WF_vars(WorkerEnds(w))

-----------------------------------------------------------------------------
(***************************************************************************)
(* Properties                                                              *)
(***************************************************************************)
(* Every variable keeps its type, and who is inside has the mutex.         *)
TypeOK ==
  /\ bundle \in [Object -> Worker \cup {None}]
  /\ mutex \in [Object -> Caller \cup {None}]
  /\ running \subseteq Worker
  /\ joined \in [Worker -> Nat]
  /\ pc \in [Caller -> {"idle", "join", "joining", "assign", "take", "store"}]
  /\ \A c \in Caller : pc[c] \in {"joining", "take", "store"} => Holds(c)
  /\ target \in [Caller -> Object] /\ source \in [Caller -> Object]
  /\ hand \in [Caller -> Worker \cup {None}]
  /\ calls \in [Caller -> 0 .. MaxCalls]

(* However joins and moves interleave, a worker has one owner until it is  *)
(* joined, and is joined at most once: joinable() does not change before   *)
(* join() (raii_thread.h:19), and no std::thread is destroyed unjoined.    *)
Owners(w) ==
  Cardinality({o \in Object : bundle[o] = w}) + Cardinality({c \in Caller : hand[c] = w})

OwnedOrJoined == \A w \in Worker : Owners(w) + joined[w] = 1

(* No call waits for ever, if the assignments of the program go in one     *)
(* direction: Moves has no cycle.                                          *)
CallsReturn == \A c \in Caller : pc[c] # "idle" ~> pc[c] = "idle"
=============================================================================

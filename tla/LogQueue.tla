------------------------------ MODULE LogQueue ------------------------------
(***************************************************************************)
(* What the log ring of src/common/logger.c promises to its callers: a     *)
(* bounded, lossy, first-in first-out queue shared by many logging threads *)
(* and a few draining threads.                                             *)
(*                                                                         *)
(* A logging thread first claims the next place in the queue and publishes *)
(* its entry a little later; the entry at the front can be taken only once *)
(* it is published, so an unpublished entry holds back the ones behind it. *)
(* An entry that finds no room is dropped, never queued twice.             *)
(***************************************************************************)
EXTENDS Integers, Sequences

CONSTANTS
  Producers,  (* threads that call logger_write                            *)
  Consumers,  (* threads that take entries out: flush thread, logger_flush *)
  Size,       (* capacity of the ring (LOG_RING_SIZE)                      *)
  MaxWrites,  (* bound: log calls made by one producer                     *)
  NoEntry     (* no entry: an idle consumer, a slot never written          *)

ASSUME LogQueueAssumption ==
  /\ Size \in Nat \ {0}
  /\ MaxWrites \in Nat
  /\ NoEntry \notin Producers \X Nat

VARIABLES
  queue,   (* claimed entries, oldest first, each with its published flag  *)
  count,   (* count[p]: log calls of p that were claimed or dropped        *)
  held     (* held[c]: the entry consumer c has taken and not yet written  *)

vars == <<queue, count, held>>

Entry == Producers \X Nat

Place == [entry : Entry, published : BOOLEAN]

TypeOK ==
  /\ queue \in Seq(Place)
  /\ Len(queue) <= Size
  /\ count \in [Producers -> Nat]
  /\ held \in [Consumers -> Entry \cup {NoEntry}]

Init ==
  /\ queue = <<>>
  /\ count = [p \in Producers |-> 0]
  /\ held = [c \in Consumers |-> NoEntry]

(* p's next entry is given the place behind all earlier claims. *)
Claim(p) ==
  /\ Len(queue) < Size
  /\ queue' = Append(queue, [entry |-> <<p, count[p]>>, published |-> FALSE])
  /\ count' = [count EXCEPT ![p] = @ + 1]
  /\ UNCHANGED held

(* p's next entry is lost: the queue looked full to p. *)
Drop(p) ==
  /\ count' = [count EXCEPT ![p] = @ + 1]
  /\ UNCHANGED <<queue, held>>

(* p's claimed entry becomes visible at the place it was given. *)
Publish(p) ==
  \E i \in DOMAIN queue :
    /\ queue[i].entry[1] = p
    /\ ~ queue[i].published
    /\ queue' = [queue EXCEPT ![i].published = TRUE]
    /\ UNCHANGED <<count, held>>

(* c takes the oldest entry, provided that it is published. *)
Take(c) ==
  /\ held[c] = NoEntry
  /\ queue # <<>>
  /\ Head(queue).published
  /\ held' = [held EXCEPT ![c] = Head(queue).entry]
  /\ queue' = Tail(queue)
  /\ UNCHANGED count

(* c is done with the entry it took. *)
Release(c) ==
  /\ held[c] # NoEntry
  /\ held' = [held EXCEPT ![c] = NoEntry]
  /\ UNCHANGED <<queue, count>>

Next ==
  \/ \E p \in Producers : Claim(p) \/ Drop(p) \/ Publish(p)
  \/ \E c \in Consumers : Take(c) \/ Release(c)

Spec == Init /\ [][Next]_vars

=============================================================================

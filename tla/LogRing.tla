------------------------------ MODULE LogRing -------------------------------
(***************************************************************************)
(* The lock-free log ring of src/common/logger.c, one action per atomic    *)
(* access.  Many threads run ring_push at once and are serialised only by  *)
(* the compare-and-swap on head; ring_pop is serialised by a trylock on    *)
(* pop_mtx, because the crash path calls it as well as the flush thread.   *)
(*                                                                         *)
(* head and tail are the monotonic 64-bit counters of log_ring_t.  The     *)
(* "full" test subtracts a freshly read tail from an older head in         *)
(* unsigned arithmetic: when tail has overtaken that head the difference   *)
(* is huge, which the code takes for "full" (see LooksFull).               *)
(***************************************************************************)
EXTENDS Integers, Sequences, FiniteSets

CONSTANTS
  Producers,  (* threads inside logger_write                               *)
  Consumers,  (* threads inside ring_pop: flush thread, logger_flush       *)
  Size,       (* number of slots, LOG_RING_SIZE rounded up                 *)
  MaxWrites,  (* bound: log calls made by one producer                     *)
  NoEntry,    (* content of a slot never written                           *)
  NoThread    (* pop_mtx is not held                                       *)

ASSUME LogRingAssumption ==
  /\ Size \in Nat \ {0}
  /\ MaxWrites \in Nat
  /\ NoEntry \notin Producers \X Nat
  /\ NoThread \notin Consumers

VARIABLES
  head,    (* next position to claim                                       *)
  tail,    (* next position to pop                                         *)
  ring,    (* ring[s]: entry stored in slot s                              *)
  ready,   (* ready[s] = 1: the entry of slot s may be read                *)
  ppc,     (* ppc[p]: where producer p is inside ring_push                 *)
  phead,   (* phead[p]: p's local copy of head                             *)
  calls,   (* calls[p]: log calls p has completed; numbers p's entries     *)
  popMtx,  (* holder of pop_mtx                                            *)
  cpc,     (* cpc[c]: where consumer c is inside ring_pop                  *)
  out      (* out[c]: the caller's log_entry_t that ring_pop fills         *)

pushVars == <<ppc, phead, calls>>
popVars == <<popMtx, cpc, out>>
vars == <<head, tail, ring, ready, pushVars, popVars>>

Slots == 0 .. (Size - 1)
Entry == Producers \X Nat
Slot(pos) == pos % Size

(* The entry that producer p is logging now. *)
EntryOf(p) == <<p, calls[p]>>

TypeOK ==
  /\ head \in Nat
  /\ tail \in Nat
  /\ ring \in [Slots -> Entry \cup {NoEntry}]
  /\ ready \in [Slots -> {0, 1}]
  /\ ppc \in [Producers -> {"idle", "load", "check", "cas", "copy", "publish"}]
  /\ phead \in [Producers -> Nat]
  /\ calls \in [Producers -> Nat]
  /\ popMtx \in Consumers \cup {NoThread}
  /\ cpc \in [Consumers -> {"idle", "locked", "copy", "clear", "advance", "got"}]
  /\ out \in [Consumers -> Entry \cup {NoEntry}]

Init ==
  /\ head = 0
  /\ tail = 0
  /\ ring = [s \in Slots |-> NoEntry]
  /\ ready = [s \in Slots |-> 0]
  /\ ppc = [p \in Producers |-> "idle"]
  /\ phead = [p \in Producers |-> 0]
  /\ calls = [p \in Producers |-> 0]
  /\ popMtx = NoThread
  /\ cpc = [c \in Consumers |-> "idle"]
  /\ out = [c \in Consumers |-> NoEntry]

-----------------------------------------------------------------------------
(* ring_push, called by logger_write. *)

PushStart(p) ==
  /\ ppc[p] = "idle"
  /\ calls[p] < MaxWrites
  /\ ppc' = [ppc EXCEPT ![p] = "load"]
  /\ UNCHANGED <<head, tail, ring, ready, phead, calls, popVars>>

PushLoadHead(p) ==
  /\ ppc[p] = "load"
  /\ phead' = [phead EXCEPT ![p] = head]
  /\ ppc' = [ppc EXCEPT ![p] = "check"]
  /\ UNCHANGED <<head, tail, ring, ready, calls, popVars>>

(* head - tail >= size, on uint64_t. *)
LooksFull(h, t) == t > h \/ h - t >= Size

PushFull(p) ==
  /\ ppc[p] = "check"
  /\ LooksFull(phead[p], tail)
  /\ ppc' = [ppc EXCEPT ![p] = "idle"]
  /\ calls' = [calls EXCEPT ![p] = @ + 1]
  /\ UNCHANGED <<head, tail, ring, ready, phead, popVars>>

PushHasRoom(p) ==
  /\ ppc[p] = "check"
  /\ ~ LooksFull(phead[p], tail)
  /\ ppc' = [ppc EXCEPT ![p] = "cas"]
  /\ UNCHANGED <<head, tail, ring, ready, phead, calls, popVars>>

PushCasWins(p) ==
  /\ ppc[p] = "cas"
  /\ head = phead[p]
  /\ head' = phead[p] + 1
  /\ ppc' = [ppc EXCEPT ![p] = "copy"]
  /\ UNCHANGED <<tail, ring, ready, phead, calls, popVars>>

PushCasLoses(p) ==
  /\ ppc[p] = "cas"
  /\ head # phead[p]
  /\ ppc' = [ppc EXCEPT ![p] = "load"]
  /\ UNCHANGED <<head, tail, ring, ready, phead, calls, popVars>>

(* While p is at "copy" its memcpy may be under way. *)
PushCopy(p) ==
  /\ ppc[p] = "copy"
  /\ ring' = [ring EXCEPT ![Slot(phead[p])] = EntryOf(p)]
  /\ ppc' = [ppc EXCEPT ![p] = "publish"]
  /\ UNCHANGED <<head, tail, ready, phead, calls, popVars>>

PushPublish(p) ==
  /\ ppc[p] = "publish"
  /\ ready' = [ready EXCEPT ![Slot(phead[p])] = 1]
  /\ ppc' = [ppc EXCEPT ![p] = "idle"]
  /\ calls' = [calls EXCEPT ![p] = @ + 1]
  /\ UNCHANGED <<head, tail, ring, phead, popVars>>

-----------------------------------------------------------------------------
(* ring_pop.  A trylock that fails returns -1 and changes nothing. *)

(* Mutant: ring_pop runs without taking pop_mtx. *)
PopWithoutLock(c) ==
  /\ cpc[c] = "idle"
  /\ popMtx' = c
  /\ cpc' = [cpc EXCEPT ![c] = "locked"]
  /\ UNCHANGED <<head, tail, ring, ready, pushVars, out>>

PopLock(c) ==
  /\ cpc[c] = "idle"
  /\ popMtx = NoThread
  /\ popMtx' = c
  /\ cpc' = [cpc EXCEPT ![c] = "locked"]
  /\ UNCHANGED <<head, tail, ring, ready, pushVars, out>>

(* Empty, or the front slot is not ready yet: unlock and return -1. *)
PopNothing(c) ==
  /\ cpc[c] = "locked"
  /\ tail = head \/ ready[Slot(tail)] # 1
  /\ popMtx' = NoThread
  /\ cpc' = [cpc EXCEPT ![c] = "idle"]
  /\ UNCHANGED <<head, tail, ring, ready, pushVars, out>>

(* Mutant: the ready flag of the front slot is not looked at. *)
PopFoundUnready(c) ==
  /\ cpc[c] = "locked"
  /\ tail # head
  /\ cpc' = [cpc EXCEPT ![c] = "copy"]
  /\ UNCHANGED <<head, tail, ring, ready, pushVars, popMtx, out>>

PopFound(c) ==
  /\ cpc[c] = "locked"
  /\ tail # head
  /\ ready[Slot(tail)] = 1
  /\ cpc' = [cpc EXCEPT ![c] = "copy"]
  /\ UNCHANGED <<head, tail, ring, ready, pushVars, popMtx, out>>

PopCopy(c) ==
  /\ cpc[c] = "copy"
  /\ out' = [out EXCEPT ![c] = ring[Slot(tail)]]
  /\ cpc' = [cpc EXCEPT ![c] = "clear"]
  /\ UNCHANGED <<head, tail, ring, ready, pushVars, popMtx>>

PopClear(c) ==
  /\ cpc[c] = "clear"
  /\ ready' = [ready EXCEPT ![Slot(tail)] = 0]
  /\ cpc' = [cpc EXCEPT ![c] = "advance"]
  /\ UNCHANGED <<head, tail, ring, pushVars, popMtx, out>>

PopAdvance(c) ==
  /\ cpc[c] = "advance"
  /\ tail' = tail + 1
  /\ popMtx' = NoThread
  /\ cpc' = [cpc EXCEPT ![c] = "got"]
  /\ UNCHANGED <<head, ring, ready, pushVars, out>>

(* The caller is done with the entry and may pop again. *)
Consume(c) ==
  /\ cpc[c] = "got"
  /\ cpc' = [cpc EXCEPT ![c] = "idle"]
  /\ UNCHANGED <<head, tail, ring, ready, pushVars, popMtx, out>>

-----------------------------------------------------------------------------

Push(p) ==
  \/ PushStart(p) \/ PushLoadHead(p) \/ PushFull(p) \/ PushHasRoom(p)
  \/ PushCasWins(p) \/ PushCasLoses(p) \/ PushCopy(p) \/ PushPublish(p)

Pop(c) ==
  \/ PopLock(c) \/ PopNothing(c) \/ PopFound(c) \/ PopCopy(c)
  \/ PopClear(c) \/ PopAdvance(c) \/ Consume(c)

Next ==
  \/ \E p \in Producers : Push(p)
  \/ \E c \in Consumers : Pop(c)

Spec == Init /\ [][Next]_vars

(* A thread inside ring_push or ring_pop is scheduled again and again; a    *)
(* thread need not log a further entry.                                     *)
PushGoesOn(p) == Push(p) /\ ppc[p] # "idle"

FairSpec ==
  /\ Spec
  /\ \A p \in Producers : WF_vars(PushGoesOn(p))
  /\ \A c \in Consumers : WF_vars(Pop(c))

-----------------------------------------------------------------------------
(* Properties. *)

(* p has claimed position pos by its compare-and-swap and not yet published *)
(* the entry there.                                                         *)
Writing(p, pos) == ppc[p] \in {"copy", "publish"} /\ phead[p] = pos

Reading(c) == cpc[c] \in {"copy", "clear", "advance"}

(* tail never passes head and head never laps tail: the ring holds at most  *)
(* Size claimed positions.  This is the comment at logger.c:47-49: a stale  *)
(* tail errs towards "full", never towards "not full".                      *)
RingBounds == tail <= head /\ head <= tail + Size

(* The comment at logger.c:55-56: the slot a producer writes is its own.    *)
(* No other producer writes it and no consumer is copying out of it.        *)
SlotIsExclusive ==
  \A p \in Producers : \A pos \in tail .. head :
    Writing(p, pos) =>
      /\ \A q \in Producers \ {p} : \A r \in tail .. head :
           Writing(q, r) => Slot(r) # Slot(pos)
      /\ \A c \in Consumers : Reading(c) => Slot(tail) # Slot(pos)
      /\ ready[Slot(pos)] = 0

(* Every claimed position is popped after a while: a producer preempted     *)
(* between its claim and its publication delays the entries behind it, and  *)
(* a draining thread that backs off on the trylock never blocks the drain.  *)
ClaimedIsPopped ==
  \A k \in 0 .. (MaxWrites * Cardinality(Producers) - 1) : head > k ~> tail > k

-----------------------------------------------------------------------------
(* The inductive invariant behind the two invariants above. *)

(* A producer past its loads knows a head that is not newer than the real   *)
(* one; once it has seen room, that room can only grow.                     *)
LocalHeads ==
  \A p \in Producers :
    /\ ppc[p] \in {"check", "cas"} => phead[p] <= head
    /\ ppc[p] = "cas" => phead[p] < tail + Size

(* Claimed positions lie between tail and head, are not ready, and differ. *)
Claims ==
  \A p \in Producers : ppc[p] \in {"copy", "publish"} =>
    /\ tail <= phead[p] /\ phead[p] < head
    /\ ready[Slot(phead[p])] = 0
    /\ \A q \in Producers \ {p} :
         ppc[q] \in {"copy", "publish"} => phead[q] # phead[p]

(* The slots that head has not reached yet are not ready. *)
FreeSlots == \A pos \in head .. (tail + Size - 1) : ready[Slot(pos)] = 0

(* pop_mtx is held exactly inside the critical section of ring_pop, and     *)
(* what the holder saw about the front slot stays true.                     *)
PopSection ==
  \A c \in Consumers :
    /\ cpc[c] \in {"locked", "copy", "clear", "advance"} <=> popMtx = c
    /\ cpc[c] \in {"copy", "clear"} => tail < head /\ ready[Slot(tail)] = 1
    /\ cpc[c] = "advance" =>
         /\ tail < head
         /\ ready[Slot(tail)] = 0
         /\ \A p \in Producers : ~ Writing(p, tail)

PositionsInv ==
  TypeOK /\ RingBounds /\ LocalHeads /\ Claims /\ FreeSlots /\ PopSection

(* What a slot and an output hold once an entry was copied there: a copied  *)
(* entry stays in its slot until it is popped, and ready slots hold one.    *)
StoredEntries ==
  /\ \A p \in Producers : ppc[p] = "publish" => ring[Slot(phead[p])] = EntryOf(p)
  /\ \A s \in Slots : ready[s] = 1 => ring[s] \in Entry
  /\ \A c \in Consumers :
       /\ cpc[c] \in {"clear", "advance"} => out[c] = ring[Slot(tail)]
       /\ cpc[c] \in {"clear", "advance", "got"} => out[c] \in Entry

RingInv == PositionsInv /\ StoredEntries

-----------------------------------------------------------------------------
(* The ring implements the bounded queue of LogQueue. *)

EntryAt(pos) ==
  IF \E p \in Producers : Writing(p, pos)
    THEN EntryOf(CHOOSE p \in Producers : Writing(p, pos))
    ELSE ring[Slot(pos)]

PublishedAt(pos) ==
  \/ ready[Slot(pos)] = 1
  \/ pos = tail /\ \E c \in Consumers : cpc[c] = "advance"

queueBar ==
  [i \in 1 .. (head - tail) |->
     [entry |-> EntryAt(tail + i - 1), published |-> PublishedAt(tail + i - 1)]]

countBar ==
  [p \in Producers |->
     IF ppc[p] \in {"copy", "publish"} THEN calls[p] + 1 ELSE calls[p]]

heldBar ==
  [c \in Consumers |-> IF cpc[c] = "got" THEN out[c] ELSE NoEntry]

Queue == INSTANCE LogQueue
           WITH queue <- queueBar, count <- countBar, held <- heldBar

(* Entries leave the ring exactly once, complete, in the order in which     *)
(* they were claimed, and an entry is either claimed or dropped: each step  *)
(* of ring_push and ring_pop is a step of the queue or invisible to it.     *)
ImplementsQueue == Queue!Spec

=============================================================================

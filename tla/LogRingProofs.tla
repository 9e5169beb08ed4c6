--------------------------- MODULE LogRingProofs ----------------------------
(***************************************************************************)
(* Proofs about LogRing for every number of producers, consumers and slots.*)
(***************************************************************************)
EXTENDS LogRing, SequenceTheorems, TLAPS

(* Arithmetic of slots: x % Size is a slot, positions less than Size apart  *)
(* have different slots, and positions Size apart share one.                *)
LEMMA SlotType ==
  ASSUME NEW a \in Nat
  PROVE  Slot(a) \in Slots
  BY LogRingAssumption DEF Slot, Slots

(* Positions less than Size apart have different slots.                     *)
LEMMA SlotsDiffer ==
  ASSUME NEW a \in Nat, NEW b \in Nat, a < b, b < a + Size
  PROVE  Slot(a) # Slot(b)
<1> SUFFICES ASSUME a % Size = b % Size
             PROVE  FALSE
  BY DEF Slot
<1> DEFINE qa == a \div Size
           qb == b \div Size
           r == a % Size
<1>1. /\ a = Size * qa + r
      /\ b = Size * qb + r
      /\ qa \in Int /\ qb \in Int /\ r \in Int /\ Size \in Int
  BY LogRingAssumption
<1> DEFINE k == qb - qa
<1> HIDE DEF qa, qb, r
<1>2. b - a = Size * k /\ k \in Int
  BY <1>1
<1> HIDE DEF k
<1>3. ASSUME k <= 0 PROVE FALSE
  <2>1. Size * k <= 0
    BY <1>2, <1>3, LogRingAssumption
  <2> QED BY <2>1, <1>2
<1>4. ASSUME k >= 1 PROVE FALSE
  <2>1. Size * k >= Size
    BY <1>2, <1>4, LogRingAssumption
  <2> QED BY <2>1, <1>1, <1>2
<1> QED
  BY <1>2, <1>3, <1>4

(* Positions Size apart share a slot.                                       *)
LEMMA SlotWraps ==
  ASSUME NEW a \in Nat
  PROVE  Slot(a + Size) = Slot(a)
<1> DEFINE q == a \div Size
           r == a % Size
           q2 == (a + Size) \div Size
           r2 == (a + Size) % Size
<1>1. /\ a = Size * q + r
      /\ a + Size = Size * q2 + r2
      /\ q \in Int /\ q2 \in Int /\ Size \in Int
      /\ r \in 0 .. (Size - 1)
      /\ r2 \in 0 .. (Size - 1)
  BY LogRingAssumption
<1> DEFINE k == q + 1 - q2
<1> HIDE DEF q, r, q2, r2
<1>2. r2 - r = Size * k /\ k \in Int
  BY <1>1
<1> HIDE DEF k
<1>3. k = 0
  <2>1. ASSUME k >= 1 PROVE FALSE
    <3>1. Size * k >= Size
      BY <2>1, <1>1, <1>2, LogRingAssumption
    <3> QED BY <3>1, <1>1, <1>2
  <2>2. ASSUME k <= -1 PROVE FALSE
    <3>1. Size * k <= -Size
      BY <2>2, <1>1, <1>2, LogRingAssumption
    <3> QED BY <3>1, <1>1, <1>2
  <2> QED BY <2>1, <2>2, <1>2
<1>4. r2 = r
  BY <1>2, <1>3, <1>1
<1> QED
  BY <1>4 DEF r, r2, Slot

(***************************************************************************)
(* Type correctness.                                                       *)
(***************************************************************************)
LEMMA TypeStep == TypeOK /\ [Next]_vars => TypeOK'
<1> SUFFICES ASSUME TypeOK, [Next]_vars
             PROVE  TypeOK'
  OBVIOUS
<1> USE DEF TypeOK, pushVars, popVars
<1>1. ASSUME NEW p \in Producers, Push(p)
      PROVE  TypeOK'
  <2> USE SlotType, <1>1
  <2>1. CASE PushStart(p) BY <2>1 DEF PushStart
  <2>2. CASE PushLoadHead(p) BY <2>2 DEF PushLoadHead
  <2>3. CASE PushFull(p) BY <2>3 DEF PushFull
  <2>4. CASE PushHasRoom(p) BY <2>4 DEF PushHasRoom
  <2>5. CASE PushCasWins(p) BY <2>5 DEF PushCasWins
  <2>6. CASE PushCasLoses(p) BY <2>6 DEF PushCasLoses
  <2>7. CASE PushCopy(p) BY <2>7 DEF PushCopy, EntryOf, Entry
  <2>8. CASE PushPublish(p) BY <2>8 DEF PushPublish
  <2> QED BY <2>1, <2>2, <2>3, <2>4, <2>5, <2>6, <2>7, <2>8 DEF Push
<1>2. ASSUME NEW c \in Consumers, Pop(c)
      PROVE  TypeOK'
  <2> USE SlotType, <1>2
  <2>1. CASE PopLock(c) BY <2>1 DEF PopLock
  <2>2. CASE PopNothing(c) BY <2>2 DEF PopNothing
  <2>3. CASE PopFound(c) BY <2>3 DEF PopFound
  <2>4. CASE PopCopy(c) BY <2>4 DEF PopCopy
  <2>5. CASE PopClear(c) BY <2>5 DEF PopClear
  <2>6. CASE PopAdvance(c) BY <2>6 DEF PopAdvance
  <2>7. CASE Consume(c) BY <2>7 DEF Consume
  <2> QED BY <2>1, <2>2, <2>3, <2>4, <2>5, <2>6, <2>7 DEF Pop
<1>3. CASE UNCHANGED vars
  BY <1>3 DEF vars
<1> QED
  BY <1>1, <1>2, <1>3 DEF Next

(* Every variable keeps its type, for any number of threads and slots.     *)
THEOREM TypeCorrect == Spec => []TypeOK
<1>1. Init => TypeOK
  BY LogRingAssumption DEF Init, TypeOK, Slots
<1> QED
  BY <1>1, TypeStep, PTL DEF Spec

(***************************************************************************)
(* The inductive invariant.  Positions from tail to tail + Size - 1 have    *)
(* different slots, so what happens to one of them leaves the others alone. *)
(***************************************************************************)
LEMMA WindowSlots ==
  ASSUME NEW t \in Nat, NEW a \in Nat, NEW b \in Nat, a # b,
         t <= a, a < t + Size, t <= b, b < t + Size
  PROVE  Slot(a) # Slot(b)
<1>1. CASE a < b
  BY <1>1, SlotsDiffer, LogRingAssumption
<1>2. CASE b < a
  BY <1>2, SlotsDiffer, LogRingAssumption
<1> QED
  BY <1>1, <1>2

(* The bookkeeping of positions holds at the start.                         *)
LEMMA InitPositions == Init => PositionsInv
<1> SUFFICES ASSUME Init
             PROVE  PositionsInv
  OBVIOUS
<1>1. TypeOK
  BY LogRingAssumption DEF Init, TypeOK, Slots
<1>2. FreeSlots
  BY SlotType, LogRingAssumption DEF Init, FreeSlots
<1> QED
  BY <1>1, <1>2, LogRingAssumption
  DEF Init, PositionsInv, RingBounds, LocalHeads, Claims, PopSection

(* The steps of ring_push. *)
LEMMA PushPositions ==
  ASSUME PositionsInv, NEW p \in Producers, Push(p), TypeOK'
  PROVE  PositionsInv'
<1> USE LogRingAssumption DEF PositionsInv, TypeOK, pushVars, popVars
<1>1. CASE PushStart(p)
  BY <1>1 DEF PushStart, RingBounds, LocalHeads, Claims, FreeSlots, PopSection,
              Writing
<1>2. CASE PushLoadHead(p)
  BY <1>2 DEF PushLoadHead, RingBounds, LocalHeads, Claims, FreeSlots,
              PopSection, Writing
<1>3. CASE PushFull(p)
  BY <1>3 DEF PushFull, RingBounds, LocalHeads, Claims, FreeSlots, PopSection,
              Writing
<1>4. CASE PushHasRoom(p)
  <2>1. phead[p] < tail + Size
    BY <1>4 DEF PushHasRoom, LooksFull
  <2> QED
    BY <1>4, <2>1 DEF PushHasRoom, RingBounds, LocalHeads, Claims, FreeSlots,
                      PopSection, Writing
<1>5. CASE PushCasWins(p)
  <2> USE <1>5 DEF PushCasWins
  <2>1. head < tail + Size /\ ready[Slot(head)] = 0
    BY DEF LocalHeads, FreeSlots, RingBounds
  <2>2. RingBounds' /\ LocalHeads'
    BY <2>1 DEF RingBounds, LocalHeads
  <2>3. Claims'
    BY <2>1 DEF Claims, RingBounds
  <2>4. FreeSlots'
    BY DEF FreeSlots
  <2>5. PopSection'
    BY DEF PopSection, Writing
  <2> QED BY <2>2, <2>3, <2>4, <2>5
<1>6. CASE PushCasLoses(p)
  BY <1>6 DEF PushCasLoses, RingBounds, LocalHeads, Claims, FreeSlots,
              PopSection, Writing
<1>7. CASE PushCopy(p)
  BY <1>7 DEF PushCopy, RingBounds, LocalHeads, Claims, FreeSlots, PopSection,
              Writing
<1>8. CASE PushPublish(p)
  <2> USE <1>8 DEF PushPublish
  <2>1. tail <= phead[p] /\ phead[p] < head /\ head <= tail + Size
    BY DEF Claims, RingBounds
  <2>2. \A pos \in Nat : /\ tail <= pos /\ pos < tail + Size
                         /\ pos # phead[p]
                         => ready'[Slot(pos)] = ready[Slot(pos)]
    BY <2>1, WindowSlots, SlotType
  <2>3. RingBounds' /\ LocalHeads'
    BY DEF RingBounds, LocalHeads
  <2>4. Claims'
    BY <2>1, <2>2 DEF Claims
  <2>5. FreeSlots'
    BY <2>1, <2>2 DEF FreeSlots
  <2>6. PopSection'
    <3> SUFFICES ASSUME NEW c \in Consumers
                 PROVE  /\ cpc[c] \in {"copy", "clear"} =>
                             ready'[Slot(tail)] = 1
                        /\ cpc[c] = "advance" =>
                             /\ ready'[Slot(tail)] = 0
                             /\ \A q \in Producers : ~ Writing(q, tail)'
      BY DEF PopSection
    <3>1. ASSUME cpc[c] \in {"copy", "clear"}
          PROVE  ready'[Slot(tail)] = 1
      BY <3>1, <2>1, <2>2 DEF PopSection, Claims
    <3>2. ASSUME cpc[c] = "advance"
          PROVE  /\ ready'[Slot(tail)] = 0
                 /\ \A q \in Producers : ~ Writing(q, tail)'
      <4>1. phead[p] # tail
        BY <3>2 DEF PopSection, Writing
      <4> QED
        BY <4>1, <3>2, <2>1, <2>2 DEF PopSection, Writing
    <3> QED BY <3>1, <3>2
  <2> QED BY <2>3, <2>4, <2>5, <2>6
<1> QED
  BY <1>1, <1>2, <1>3, <1>4, <1>5, <1>6, <1>7, <1>8 DEF Push

(* The steps of ring_pop. *)
LEMMA PopPositions ==
  ASSUME PositionsInv, NEW c \in Consumers, Pop(c), TypeOK'
  PROVE  PositionsInv'
<1> USE LogRingAssumption DEF PositionsInv, TypeOK, pushVars, popVars
<1>1. CASE PopLock(c)
  BY <1>1 DEF PopLock, RingBounds, LocalHeads, Claims, FreeSlots, PopSection,
              Writing
<1>2. CASE PopNothing(c)
  BY <1>2 DEF PopNothing, RingBounds, LocalHeads, Claims, FreeSlots,
              PopSection, Writing
<1>3. CASE PopFound(c)
  BY <1>3 DEF PopFound, RingBounds, LocalHeads, Claims, FreeSlots, PopSection,
              Writing
<1>4. CASE PopCopy(c)
  BY <1>4 DEF PopCopy, RingBounds, LocalHeads, Claims, FreeSlots, PopSection,
              Writing
<1>5. CASE PopClear(c)
  <2> USE <1>5 DEF PopClear
  <2>1. tail < head /\ ready[Slot(tail)] = 1 /\ popMtx = c
    BY DEF PopSection
  <2>2. \A pos \in Nat : ready[Slot(pos)] = 0 => ready'[Slot(pos)] = 0
    BY SlotType
  <2>3. ready'[Slot(tail)] = 0
    BY SlotType
  <2>4. RingBounds' /\ LocalHeads'
    BY DEF RingBounds, LocalHeads
  <2>5. Claims'
    BY <2>2 DEF Claims
  <2>6. FreeSlots'
    BY <2>2 DEF FreeSlots
  <2>7. \A p \in Producers : ~ Writing(p, tail)
    BY <2>1 DEF Claims, Writing
  <2>8. \A d \in Consumers \ {c} :
          cpc[d] \notin {"locked", "copy", "clear", "advance"}
    BY <2>1 DEF PopSection
  <2>9. PopSection'
    BY <2>1, <2>3, <2>7, <2>8 DEF PopSection, Writing
  <2> QED BY <2>4, <2>5, <2>6, <2>9
<1>6. CASE PopAdvance(c)
  <2> USE <1>6 DEF PopAdvance
  <2>1. /\ tail < head /\ ready[Slot(tail)] = 0 /\ popMtx = c
        /\ \A p \in Producers : ~ Writing(p, tail)
    BY DEF PopSection
  <2>2. RingBounds' /\ LocalHeads'
    BY <2>1 DEF RingBounds, LocalHeads
  <2>3. Claims'
    BY <2>1 DEF Claims, Writing
  <2>4. ready[Slot(tail + Size)] = 0
    BY <2>1, SlotWraps
  <2>5. FreeSlots'
    BY <2>4 DEF FreeSlots
  <2>6. \A d \in Consumers \ {c} :
          cpc[d] \notin {"locked", "copy", "clear", "advance"}
    BY <2>1 DEF PopSection
  <2>7. PopSection'
    BY <2>6 DEF PopSection
  <2> QED BY <2>2, <2>3, <2>5, <2>7
<1>7. CASE Consume(c)
  BY <1>7 DEF Consume, RingBounds, LocalHeads, Claims, FreeSlots, PopSection,
              Writing
<1> QED
  BY <1>1, <1>2, <1>3, <1>4, <1>5, <1>6, <1>7 DEF Pop

(* Every step of the ring keeps the bookkeeping of positions.               *)
LEMMA PositionsStep == PositionsInv /\ [Next]_vars => PositionsInv'
<1> SUFFICES ASSUME PositionsInv, [Next]_vars
             PROVE  PositionsInv'
  OBVIOUS
<1>1. TypeOK'
  BY TypeStep DEF PositionsInv
<1>2. CASE UNCHANGED vars
  BY <1>1, <1>2 DEF vars, pushVars, popVars, PositionsInv, RingBounds, LocalHeads,
                    Claims, FreeSlots, PopSection, Writing
<1> QED
  BY <1>1, <1>2, PushPositions, PopPositions DEF Next

(***************************************************************************)
(* What the slots and the outputs hold.                                    *)
(***************************************************************************)
LEMMA InitStored == Init => StoredEntries
BY LogRingAssumption DEF Init, StoredEntries, Slots

(* A producer between claim and publication has no slot in common with      *)
(* another one, nor with a slot that is ready or being popped.              *)
LEMMA WriterAlone ==
  ASSUME PositionsInv, NEW p \in Producers, ppc[p] \in {"copy", "publish"}
  PROVE  /\ \A q \in Producers \ {p} :
              ppc[q] \in {"copy", "publish"} => Slot(phead[q]) # Slot(phead[p])
         /\ ready[Slot(phead[p])] = 0 /\ Slot(phead[p]) \in Slots
         /\ \A c \in Consumers :
              cpc[c] \in {"clear", "advance"} => Slot(tail) # Slot(phead[p])
<1> USE LogRingAssumption DEF PositionsInv, TypeOK
<1>1. /\ tail <= phead[p] /\ phead[p] < head /\ head <= tail + Size
      /\ ready[Slot(phead[p])] = 0 /\ Slot(phead[p]) \in Slots
  BY SlotType DEF Claims, RingBounds
<1>2. ASSUME NEW q \in Producers \ {p}, ppc[q] \in {"copy", "publish"}
      PROVE  Slot(phead[q]) # Slot(phead[p])
  <2>1. phead[q] # phead[p] /\ tail <= phead[q] /\ phead[q] < head
    BY <1>2 DEF Claims
  <2> QED BY <2>1, <1>1, WindowSlots
<1>3. ASSUME NEW c \in Consumers, cpc[c] \in {"clear", "advance"}
      PROVE  Slot(tail) # Slot(phead[p])
  <2>1. CASE cpc[c] = "clear"
    BY <2>1, <1>1 DEF PopSection
  <2>2. CASE cpc[c] = "advance"
    <3>1. phead[p] # tail
      BY <2>2 DEF PopSection, Writing
    <3>2. /\ tail \in Nat /\ phead[p] \in Nat
          /\ tail < phead[p] /\ phead[p] < tail + Size
      BY <3>1, <1>1
    <3> QED BY <3>2, SlotsDiffer
  <2> QED BY <1>3, <2>1, <2>2
<1> QED BY <1>1, <1>2, <1>3

(* A stored entry stays until its position is released.                     *)
LEMMA StoredStep == RingInv /\ [Next]_vars => StoredEntries'
<1> SUFFICES ASSUME PositionsInv, StoredEntries, [Next]_vars
             PROVE  StoredEntries'
  BY DEF RingInv
<1> USE LogRingAssumption DEF PositionsInv, TypeOK, pushVars, popVars
<1>1. ASSUME NEW p \in Producers, Push(p)
      PROVE  StoredEntries'
  <2>1. CASE \/ PushStart(p) \/ PushLoadHead(p) \/ PushFull(p) \/ PushHasRoom(p)
             \/ PushCasWins(p) \/ PushCasLoses(p)
    BY <2>1 DEF PushStart, PushLoadHead, PushFull, PushHasRoom, PushCasWins,
                PushCasLoses, StoredEntries, EntryOf
  <2>2. CASE PushCopy(p)
    <3>1. /\ ppc[p] = "copy" /\ ppc' = [ppc EXCEPT ![p] = "publish"]
          /\ ring' = [ring EXCEPT ![Slot(phead[p])] = EntryOf(p)]
          /\ UNCHANGED <<tail, ready, phead, calls, cpc, out>>
      BY <2>2 DEF PushCopy
    <3>2. /\ \A q \in Producers \ {p} :
               ppc[q] \in {"copy", "publish"} => Slot(phead[q]) # Slot(phead[p])
          /\ ready[Slot(phead[p])] = 0 /\ Slot(phead[p]) \in Slots
          /\ \A c \in Consumers :
               cpc[c] \in {"clear", "advance"} => Slot(tail) # Slot(phead[p])
      BY <3>1, WriterAlone
    <3>3. \A q \in Producers :
            ppc'[q] = "publish" => ring'[Slot(phead[q])] = EntryOf(q)
      BY <3>1, <3>2 DEF StoredEntries
    <3>4. \A s \in Slots : ready'[s] = 1 => ring'[s] \in Entry
      BY <3>1, <3>2 DEF StoredEntries
    <3>5. ring'[Slot(tail)] = ring[Slot(tail)]
          \/ \A c \in Consumers : cpc[c] \notin {"clear", "advance"}
      BY <3>1, <3>2
    <3> QED
      BY <3>1, <3>3, <3>4, <3>5 DEF StoredEntries, EntryOf
  <2>3. CASE PushPublish(p)
    <3>1. ring[Slot(phead[p])] = EntryOf(p)
      BY <2>3 DEF PushPublish, StoredEntries
    <3>2. EntryOf(p) \in Entry
      BY DEF EntryOf, Entry
    <3> QED
      BY <2>3, <3>1, <3>2 DEF PushPublish, StoredEntries, EntryOf
  <2> QED BY <1>1, <2>1, <2>2, <2>3 DEF Push
<1>2. ASSUME NEW c \in Consumers, Pop(c)
      PROVE  StoredEntries'
  <2>1. CASE PopLock(c) \/ PopNothing(c) \/ PopFound(c) \/ Consume(c)
    BY <2>1 DEF PopLock, PopNothing, PopFound, Consume, StoredEntries, EntryOf
  <2>2. CASE PopCopy(c)
    <3>1. ready[Slot(tail)] = 1 /\ Slot(tail) \in Slots
      BY <2>2, SlotType DEF PopCopy, PopSection
    <3> QED
      BY <2>2, <3>1 DEF PopCopy, StoredEntries, EntryOf
  <2>3. CASE PopClear(c)
    BY <2>3 DEF PopClear, StoredEntries, EntryOf
  <2>4. CASE PopAdvance(c)
    <3>1. \A d \in Consumers \ {c} : cpc[d] \notin {"clear", "advance"}
      BY <2>4 DEF PopAdvance, PopSection
    <3> QED
      BY <2>4, <3>1 DEF PopAdvance, StoredEntries, EntryOf
  <2> QED BY <1>2, <2>1, <2>2, <2>3, <2>4 DEF Pop
<1>3. CASE UNCHANGED vars
  BY <1>3 DEF vars, StoredEntries, EntryOf
<1> QED BY <1>1, <1>2, <1>3 DEF Next

(* In every reachable state the counters, claims, slots and the section of   *)
(* pop_mtx agree, and slots and outputs hold what was copied there           *)
(* (logger.c:80-125).                                                       *)
THEOREM RingInvariant == Spec => []RingInv
<1>1. Init => RingInv
  BY InitPositions, InitStored DEF RingInv
<1>2. RingInv /\ [Next]_vars => RingInv'
  BY PositionsStep, StoredStep DEF RingInv
<1> QED
  BY <1>1, <1>2, PTL DEF Spec

(* The ring never holds more than Size claimed positions: no stale read     *)
(* makes a full ring look as if it had room (logger.c:47-49).               *)
THEOREM BoundsHold == Spec => []RingBounds
<1>1. RingInv => RingBounds
  BY DEF RingInv, PositionsInv
<1> QED
  BY <1>1, RingInvariant, PTL

(* A producer that won its compare-and-swap has the slot to itself until it *)
(* publishes: no other producer writes it and no consumer copies out of it  *)
(* (logger.c:55-56).                                                        *)
THEOREM SlotsExclusive == Spec => []SlotIsExclusive
<1>1. RingInv => SlotIsExclusive
  <2> SUFFICES ASSUME RingInv,
                      NEW p \in Producers, NEW pos \in tail .. head,
                      Writing(p, pos)
               PROVE  /\ \A q \in Producers \ {p} : \A r \in tail .. head :
                           Writing(q, r) => Slot(r) # Slot(pos)
                      /\ \A c \in Consumers : Reading(c) => Slot(tail) # Slot(pos)
                      /\ ready[Slot(pos)] = 0
    BY DEF SlotIsExclusive
  <2> USE LogRingAssumption DEF RingInv, PositionsInv, TypeOK, Writing
  <2>1. /\ pos = phead[p] /\ tail <= pos /\ pos < head
        /\ ready[Slot(pos)] = 0 /\ head <= tail + Size
    BY DEF Claims, RingBounds
  <2>2. ASSUME NEW q \in Producers \ {p}, NEW r \in tail .. head, Writing(q, r)
        PROVE  Slot(r) # Slot(pos)
    <3>1. r # pos /\ tail <= r /\ r < head
      BY <2>1, <2>2 DEF Claims
    <3> QED
      BY <3>1, <2>1, WindowSlots
  <2>3. ASSUME NEW c \in Consumers, Reading(c)
        PROVE  Slot(tail) # Slot(pos)
    <3>1. CASE cpc[c] \in {"copy", "clear"}
      BY <3>1, <2>1 DEF PopSection
    <3>2. CASE cpc[c] = "advance"
      <4>1. pos # tail
        BY <3>2 DEF PopSection
      <4>2. tail < pos /\ pos < tail + Size /\ pos \in Nat /\ tail \in Nat
        BY <4>1, <2>1
      <4> QED
        BY <4>2, SlotsDiffer
    <3> QED
      BY <2>3, <3>1, <3>2 DEF Reading
  <2> QED
    BY <2>1, <2>2, <2>3
<1> QED
  BY <1>1, RingInvariant, PTL

(***************************************************************************)
(* The ring implements the bounded queue.                                  *)
(***************************************************************************)

(* Sequences given as functions on 1 .. n.                                  *)
LEMMA FcnIsSeq ==
  ASSUME NEW S, NEW n \in Nat, NEW f \in [1 .. n -> S]
  PROVE  f \in Seq(S) /\ Len(f) = n
<1>1. f \in Seq(S)
  BY SeqDef
<1>2. DOMAIN f = 1 .. n /\ Len(f) \in Nat /\ DOMAIN f = 1 .. Len(f)
  BY <1>1, LenProperties
<1> QED BY <1>1, <1>2

(* A function on 1 .. n + 1 that extends a sequence is that sequence        *)
(* appended to.                                                             *)
LEMMA FcnAppend ==
  ASSUME NEW S, NEW n \in Nat, NEW f \in [1 .. n -> S], NEW e \in S,
         NEW g \in [1 .. n + 1 -> S],
         \A i \in 1 .. n : g[i] = f[i], g[n + 1] = e
  PROVE  g = Append(f, e)
<1>1. f \in Seq(S) /\ Len(f) = n /\ g \in Seq(S) /\ Len(g) = n + 1
  BY FcnIsSeq
<1>2. /\ Append(f, e) \in Seq(S) /\ Len(Append(f, e)) = n + 1
      /\ \A i \in 1 .. n : Append(f, e)[i] = f[i]
      /\ Append(f, e)[n + 1] = e
  BY <1>1, AppendProperties
<1>3. \A i \in 1 .. Len(g) : g[i] = Append(f, e)[i]
  BY <1>1, <1>2
<1> QED BY <1>1, <1>2, <1>3, SeqEqual

(* A function on 1 .. n - 1 that shifts a sequence is its tail.             *)
LEMMA FcnTail ==
  ASSUME NEW S, NEW n \in Nat \ {0}, NEW f \in [1 .. n -> S],
         NEW g \in [1 .. n - 1 -> S], \A i \in 1 .. n - 1 : g[i] = f[i + 1]
  PROVE  g = Tail(f) /\ f # <<>> /\ Head(f) = f[1]
<1>1. f \in Seq(S) /\ Len(f) = n /\ g \in Seq(S) /\ Len(g) = n - 1
  BY FcnIsSeq
<1>2. f # <<>>
  BY <1>1, EmptySeq
<1>3. /\ Tail(f) \in Seq(S) /\ Len(Tail(f)) = n - 1
      /\ \A i \in 1 .. Len(Tail(f)) : Tail(f)[i] = f[i + 1]
  BY <1>1, <1>2, HeadTailProperties
<1>4. \A i \in 1 .. Len(g) : g[i] = Tail(f)[i]
  BY <1>1, <1>3
<1>5. g = Tail(f)
  BY <1>1, <1>3, <1>4, SeqEqual
<1> QED BY <1>2, <1>5

(* The entry of a claimed position: what its writer is about to store, or    *)
(* what the slot holds.                                                     *)
EntriesKnown ==
  \A pos \in Nat :
    /\ EntryAt(pos) \in Entry \cup {NoEntry}
    /\ \A p \in Producers : Writing(p, pos) => EntryAt(pos) = EntryOf(p)
    /\ (\A p \in Producers : ~ Writing(p, pos)) => EntryAt(pos) = ring[Slot(pos)]

(* The entry of each position that is not free is known.                    *)
LEMMA EntryOfPosition == RingInv => EntriesKnown
<1> SUFFICES ASSUME RingInv, NEW pos \in Nat
             PROVE  /\ EntryAt(pos) \in Entry \cup {NoEntry}
                    /\ \A p \in Producers : Writing(p, pos) => EntryAt(pos) = EntryOf(p)
                    /\ (\A p \in Producers : ~ Writing(p, pos)) =>
                         EntryAt(pos) = ring[Slot(pos)]
  BY DEF EntriesKnown
<1>1. TypeOK /\ Claims
  BY DEF RingInv, PositionsInv
<1>2. \A p \in Producers : EntryOf(p) \in Entry
  BY <1>1 DEF TypeOK, EntryOf, Entry
<1>3. Slot(pos) \in Slots
  BY SlotType
<1>4. ASSUME NEW p \in Producers, Writing(p, pos)
      PROVE  EntryAt(pos) = EntryOf(p)
  <2>1. \A q \in Producers : Writing(q, pos) => q = p
    BY <1>1, <1>4 DEF Claims, Writing
  <2>2. (CHOOSE q \in Producers : Writing(q, pos)) = p
    BY <1>4, <2>1
  <2> QED BY <1>4, <2>2 DEF EntryAt
<1>5. (\A p \in Producers : ~ Writing(p, pos)) => EntryAt(pos) = ring[Slot(pos)]
  BY DEF EntryAt
<1>6. EntryAt(pos) \in Entry \cup {NoEntry}
  BY <1>1, <1>2, <1>3, <1>4, <1>5 DEF TypeOK
<1> QED BY <1>4, <1>5, <1>6

BarPlace == [entry : Entry \cup {NoEntry}, published : BOOLEAN]

BarIsQueue == head - tail \in Nat /\ queueBar \in [1 .. head - tail -> BarPlace]

(* The mapped queue is a sequence of LogQueue's places.                     *)
LEMMA BarType == RingInv => BarIsQueue
<1> SUFFICES ASSUME RingInv
             PROVE  BarIsQueue
  OBVIOUS
<1>1. head \in Nat /\ tail \in Nat /\ tail <= head
  BY DEF RingInv, PositionsInv, TypeOK, RingBounds
<1>2. \A pos \in Nat : EntryAt(pos) \in Entry \cup {NoEntry} /\ PublishedAt(pos) \in BOOLEAN
  BY EntryOfPosition DEF EntriesKnown, PublishedAt
<1>3. \A i \in 1 .. head - tail : tail + i - 1 \in Nat
  BY <1>1
<1>4. \A i \in 1 .. head - tail :
        [entry |-> EntryAt(tail + i - 1), published |-> PublishedAt(tail + i - 1)] \in BarPlace
  BY <1>2, <1>3 DEF BarPlace
<1> QED BY <1>1, <1>4 DEF BarIsQueue, queueBar

(* A step that moves neither counter and changes no claimed position leaves  *)
(* the queue as it is.                                                      *)
LEMMA BarUnchanged ==
  ASSUME RingInv, UNCHANGED <<head, tail>>,
         \A pos \in tail .. head - 1 :
           EntryAt(pos)' = EntryAt(pos) /\ PublishedAt(pos)' = PublishedAt(pos)
  PROVE  queueBar' = queueBar
<1>1. head \in Nat /\ tail \in Nat
  BY DEF RingInv, PositionsInv, TypeOK
<1>2. \A i \in 1 .. head - tail : tail + i - 1 \in tail .. head - 1
  BY <1>1
<1> QED BY <1>2 DEF queueBar

(* Two claimed positions have different slots. *)
LEMMA ClaimedSlots ==
  ASSUME RingInv, NEW a \in tail .. head - 1, NEW b \in tail .. head - 1, a # b
  PROVE  Slot(a) # Slot(b)
<1>1. tail \in Nat /\ head \in Nat /\ head <= tail + Size
  BY DEF RingInv, PositionsInv, TypeOK, RingBounds
<1>2. a \in Nat /\ b \in Nat /\ tail <= a /\ tail <= b /\ a < tail + Size /\ b < tail + Size
  BY <1>1, LogRingAssumption
<1> QED BY <1>1, <1>2, WindowSlots

(* A step after which the same producers write the same entries, and which   *)
(* keeps what is stored and ready, leaves the queue as it is.               *)
LEMMA SameWriters ==
  ASSUME RingInv, EntriesKnown, EntriesKnown', UNCHANGED <<head, tail, ring, ready>>,
         \A p \in Producers, pos \in Nat : Writing(p, pos)' = Writing(p, pos),
         \A p \in Producers : ppc[p] \in {"copy", "publish"} => EntryOf(p)' = EntryOf(p),
         (\E c \in Consumers : cpc'[c] = "advance") <=> (\E c \in Consumers : cpc[c] = "advance")
  PROVE  queueBar' = queueBar
<1>1. head \in Nat /\ tail \in Nat
  BY DEF RingInv, PositionsInv, TypeOK
<1>2. ASSUME NEW pos \in Nat
      PROVE  EntryAt(pos)' = EntryAt(pos)
  <2>1. CASE \E p \in Producers : Writing(p, pos)
    <3>1. PICK p \in Producers : Writing(p, pos)
      BY <2>1
    <3>2. EntryAt(pos) = EntryOf(p)
      BY <3>1 DEF EntriesKnown
    <3>3. Writing(p, pos)' /\ EntryOf(p)' = EntryOf(p)
      BY <3>1 DEF Writing
    <3>4. EntryAt(pos)' = EntryOf(p)'
      BY <3>3 DEF EntriesKnown
    <3> QED BY <3>2, <3>3, <3>4
  <2>2. CASE \A p \in Producers : ~ Writing(p, pos)
    <3>1. EntryAt(pos) = ring[Slot(pos)]
      BY <2>2 DEF EntriesKnown
    <3>2. \A p \in Producers : ~ Writing(p, pos)'
      BY <2>2
    <3>3. EntryAt(pos)' = ring'[Slot(pos)]
      BY <3>2 DEF EntriesKnown, Slot
    <3> QED BY <3>1, <3>3
  <2> QED BY <2>1, <2>2
<1>3. ASSUME NEW pos \in Nat
      PROVE  PublishedAt(pos)' = PublishedAt(pos)
  BY DEF PublishedAt, Slot
<1>4. \A pos \in tail .. head - 1 : pos \in Nat
  BY <1>1
<1> QED BY <1>2, <1>3, <1>4, BarUnchanged

(* What every step is shown from. *)
BarInv == RingInv /\ EntriesKnown /\ BarIsQueue

(* What the refinement needs follows from the ring's invariant.             *)
LEMMA BarInvHolds == RingInv => BarInv
BY EntryOfPosition, BarType DEF BarInv

(* Inside ring_push, before the compare-and-swap: nothing to be seen.        *)
LEMMA QuietPush ==
  ASSUME BarInv, BarInv', NEW p \in Producers,
         PushStart(p) \/ PushLoadHead(p) \/ PushHasRoom(p) \/ PushCasLoses(p)
  PROVE  UNCHANGED Queue!vars
<1> USE DEF PushStart, PushLoadHead, PushHasRoom, PushCasLoses, popVars, pushVars
<1>1. TypeOK /\ TypeOK'
  BY DEF BarInv, RingInv, PositionsInv
<1>2. UNCHANGED <<head, tail, ring, ready, calls, cpc, out>>
  OBVIOUS
<1>3. \A q \in Producers :
        /\ ppc'[q] \in {"copy", "publish"} <=> ppc[q] \in {"copy", "publish"}
        /\ ppc[q] \in {"copy", "publish"} => phead'[q] = phead[q]
  BY <1>1 DEF TypeOK
<1>4. \A q \in Producers, pos \in Nat : Writing(q, pos)' = Writing(q, pos)
  BY <1>3 DEF Writing
<1>5. queueBar' = queueBar
  BY <1>2, <1>4, SameWriters DEF BarInv, EntryOf
<1>6. countBar' = countBar /\ heldBar' = heldBar
  BY <1>2, <1>3 DEF countBar, heldBar
<1> QED BY <1>5, <1>6 DEF Queue!vars

(* The ring looks full: the entry is dropped. *)
LEMMA FullIsDrop ==
  ASSUME BarInv, BarInv', NEW p \in Producers, PushFull(p)
  PROVE  Queue!Drop(p)
<1> USE DEF PushFull, popVars
<1>1. TypeOK /\ TypeOK'
  BY DEF BarInv, RingInv, PositionsInv
<1>2. UNCHANGED <<head, tail, ring, ready, phead, cpc, out>> /\ calls'[p] = calls[p] + 1
  BY <1>1 DEF TypeOK
<1>3. \A q \in Producers :
        /\ ppc'[q] \in {"copy", "publish"} <=> ppc[q] \in {"copy", "publish"}
        /\ q # p => calls'[q] = calls[q] /\ ppc'[q] = ppc[q]
  BY <1>1 DEF TypeOK
<1>4. \A q \in Producers, pos \in Nat : Writing(q, pos)' = Writing(q, pos)
  BY <1>2, <1>3 DEF Writing
<1>5. \A q \in Producers : ppc[q] \in {"copy", "publish"} => EntryOf(q)' = EntryOf(q)
  BY <1>3 DEF EntryOf
<1>6. queueBar' = queueBar
  BY <1>2, <1>4, <1>5, SameWriters DEF BarInv
<1>7. countBar' = [countBar EXCEPT ![p] = @ + 1]
  <2>1. \A q \in Producers :
          countBar'[q] = IF q = p THEN countBar[q] + 1 ELSE countBar[q]
    BY <1>2, <1>3 DEF countBar
  <2> QED BY <2>1 DEF countBar
<1>8. heldBar' = heldBar
  BY <1>2 DEF heldBar
<1> QED BY <1>6, <1>7, <1>8 DEF Queue!Drop

(* The compare-and-swap claims the place behind all earlier ones. *)
LEMMA CasIsClaim ==
  ASSUME BarInv, BarInv', NEW p \in Producers, PushCasWins(p)
  PROVE  Queue!Claim(p)
<1> USE DEF PushCasWins, popVars
<1>1. TypeOK /\ TypeOK' /\ RingBounds' /\ tail <= head
  BY DEF BarInv, RingInv, PositionsInv, RingBounds
<1>2. /\ UNCHANGED <<tail, ring, ready, phead, calls, cpc, out>>
      /\ head' = head + 1 /\ phead[p] = head /\ ppc[p] = "cas" /\ ppc'[p] = "copy"
      /\ \A q \in Producers \ {p} : ppc'[q] = ppc[q]
      /\ head \in Nat /\ tail \in Nat
  BY <1>1 DEF TypeOK
<1> DEFINE n == head - tail
           new == [entry |-> EntryOf(p), published |-> FALSE]
<1>3. n \in Nat /\ head' - tail' = n + 1 /\ n < Size /\ n + 1 \in 1 .. n + 1
  BY <1>1, <1>2, LogRingAssumption DEF RingBounds
<1>4. \A i \in 1 .. n + 1 : queueBar'[i] =
        [entry |-> EntryAt(tail + i - 1)', published |-> PublishedAt(tail + i - 1)']
  BY <1>2, <1>3 DEF queueBar
<1>5. \A i \in 1 .. n : queueBar'[i] = queueBar[i]
  <2>1. ASSUME NEW pos \in Nat, pos # head
        PROVE  EntryAt(pos)' = EntryAt(pos) /\ PublishedAt(pos)' = PublishedAt(pos)
    <3>1. \A q \in Producers : Writing(q, pos)' = Writing(q, pos) /\ EntryOf(q)' = EntryOf(q)
      BY <1>2, <2>1 DEF Writing, EntryOf
    <3>2. EntryAt(pos)' = EntryAt(pos)
      <4>1. CASE \E q \in Producers : Writing(q, pos)
        BY <3>1, <4>1 DEF BarInv, EntriesKnown
      <4>2. CASE \A q \in Producers : ~ Writing(q, pos)
        BY <1>2, <3>1, <4>2 DEF BarInv, EntriesKnown, Slot
      <4> QED BY <4>1, <4>2
    <3> QED BY <1>2, <3>2 DEF PublishedAt, Slot
  <2>2. \A i \in 1 .. n : tail + i - 1 \in Nat /\ tail + i - 1 # head
    BY <1>2
  <2> QED BY <1>2, <1>3, <1>4, <2>1, <2>2 DEF queueBar
<1>6. queueBar'[n + 1] = new
  <2>1. PICK h \in Nat : h = head
    BY <1>2
  <2>2. Writing(p, h)'
    BY <1>2, <2>1 DEF Writing
  <2>3. EntryAt(h)' = EntryOf(p)
    BY <1>2, <2>2 DEF BarInv, EntriesKnown, EntryOf
  <2>4. PublishedAt(h)' = FALSE
    <3>1. ready[Slot(h)] = 0
      BY <1>2, <2>1 DEF BarInv, RingInv, PositionsInv, Claims, Slot
    <3>2. ~ (h = tail /\ \E c \in Consumers : cpc[c] = "advance")
      BY <1>2, <2>1 DEF BarInv, RingInv, PositionsInv, PopSection
    <3> QED BY <1>2, <3>1, <3>2 DEF PublishedAt, Slot
  <2>5. tail + (n + 1) - 1 = h
    BY <1>2, <2>1
  <2> QED BY <1>2, <1>3, <1>4, <2>3, <2>4, <2>5
<1>7. queueBar \in [1 .. n -> BarPlace] /\ queueBar' \in [1 .. n + 1 -> BarPlace]
  BY <1>3 DEF BarInv, BarIsQueue, BarPlace, Entry
<1>8. new \in BarPlace
  BY <1>3, <1>6, <1>7
<1> HIDE DEF new
<1>9. queueBar' = Append(queueBar, new)
  BY <1>3, <1>5, <1>6, <1>7, <1>8, FcnAppend
<1>10. Len(queueBar) = n
  BY <1>3, <1>7, FcnIsSeq
<1>11. countBar[p] = calls[p] /\ countBar' = [countBar EXCEPT ![p] = @ + 1] /\ heldBar' = heldBar
  <2>1. \A q \in Producers :
          countBar'[q] = IF q = p THEN countBar[q] + 1 ELSE countBar[q]
    BY <1>2 DEF countBar
  <2>2. countBar[p] = calls[p] /\ heldBar' = heldBar
    BY <1>2 DEF countBar, heldBar
  <2> QED BY <2>1, <2>2 DEF countBar
<1> QED BY <1>3, <1>9, <1>10, <1>11 DEF Queue!Claim, new, EntryOf

(* Storing the entry in a claimed slot shows nothing new. *)
LEMMA CopyIsQuiet ==
  ASSUME BarInv, BarInv', NEW p \in Producers, PushCopy(p)
  PROVE  UNCHANGED Queue!vars
<1> USE DEF PushCopy, popVars
<1>1. TypeOK /\ Claims /\ RingBounds
  BY DEF BarInv, RingInv, PositionsInv
<1>2. /\ UNCHANGED <<head, tail, ready, phead, calls, cpc, out>>
      /\ ring' = [ring EXCEPT ![Slot(phead[p])] = EntryOf(p)]
      /\ ppc[p] = "copy" /\ ppc'[p] = "publish"
      /\ \A q \in Producers \ {p} : ppc'[q] = ppc[q]
      /\ head \in Nat /\ tail \in Nat /\ phead[p] \in tail .. head - 1
  BY <1>1 DEF TypeOK, Claims
<1>3. ASSUME NEW pos \in tail .. head - 1
      PROVE  EntryAt(pos)' = EntryAt(pos) /\ PublishedAt(pos)' = PublishedAt(pos)
  <2>1. pos \in Nat
    BY <1>2
  <2>2. \A q \in Producers : Writing(q, pos)' = Writing(q, pos) /\ EntryOf(q)' = EntryOf(q)
    BY <1>2 DEF Writing, EntryOf
  <2>3. CASE \E q \in Producers : Writing(q, pos)
    BY <1>2, <2>1, <2>2, <2>3 DEF BarInv, EntriesKnown, PublishedAt, Slot
  <2>4. CASE \A q \in Producers : ~ Writing(q, pos)
    <3>1. pos # phead[p]
      BY <1>2, <2>4 DEF Writing
    <3>2. Slot(pos) # Slot(phead[p])
      BY <1>2, <3>1, ClaimedSlots DEF BarInv
    <3>3. ring'[Slot(pos)] = ring[Slot(pos)]
      BY <1>1, <1>2, <2>1, <3>2, SlotType DEF TypeOK
    <3>4. EntryAt(pos)' = ring'[Slot(pos)] /\ EntryAt(pos) = ring[Slot(pos)]
      BY <2>1, <2>2, <2>4 DEF BarInv, EntriesKnown, Slot
    <3> QED BY <1>2, <3>3, <3>4 DEF PublishedAt, Slot
  <2> QED BY <2>3, <2>4
<1>4. queueBar' = queueBar
  BY <1>2, <1>3, BarUnchanged DEF BarInv
<1>5. countBar' = countBar /\ heldBar' = heldBar
  BY <1>2 DEF countBar, heldBar
<1> QED BY <1>4, <1>5 DEF Queue!vars

(* Setting ready publishes the entry at the place it was given. *)
LEMMA PublishIsPublish ==
  ASSUME BarInv, BarInv', NEW p \in Producers, PushPublish(p)
  PROVE  Queue!Publish(p)
<1> USE DEF PushPublish, popVars
<1>1. TypeOK /\ Claims /\ RingBounds /\ PopSection /\ StoredEntries
  BY DEF BarInv, RingInv, PositionsInv
<1>2. /\ UNCHANGED <<head, tail, ring, phead, cpc, out>>
      /\ ready' = [ready EXCEPT ![Slot(phead[p])] = 1]
      /\ ppc[p] = "publish" /\ ppc'[p] = "idle" /\ calls'[p] = calls[p] + 1
      /\ \A q \in Producers \ {p} : ppc'[q] = ppc[q] /\ calls'[q] = calls[q]
      /\ head \in Nat /\ tail \in Nat
  BY <1>1 DEF TypeOK
<1>3. PICK h \in tail .. head - 1 : h = phead[p]
  BY <1>1, <1>2 DEF TypeOK, Claims
<1>4. h \in Nat /\ Slot(h) \in Slots /\ Writing(p, h) /\ ready[Slot(h)] = 0
  BY <1>1, <1>2, <1>3, SlotType DEF Claims, Writing
<1>5. \A q \in Producers \ {p} : ~ Writing(q, h)
  BY <1>1, <1>2, <1>3 DEF Claims, Writing
<1>6. EntryAt(h) = EntryOf(p) /\ EntryAt(h)' = EntryOf(p)
  <2>1. \A q \in Producers : ~ Writing(q, h)'
    BY <1>2, <1>5 DEF Writing
  <2>2. EntryAt(h)' = ring'[Slot(h)]
    BY <1>4, <2>1 DEF BarInv, EntriesKnown, Slot
  <2>3. ring[Slot(h)] = EntryOf(p)
    BY <1>1, <1>2, <1>3 DEF StoredEntries
  <2> QED BY <1>2, <1>4, <2>2, <2>3 DEF BarInv, EntriesKnown
<1>7. PublishedAt(h) = FALSE /\ PublishedAt(h)' = TRUE
  <2>1. ~ (h = tail /\ \E c \in Consumers : cpc[c] = "advance")
    BY <1>1, <1>4 DEF PopSection
  <2>2. ready'[Slot(h)] = 1
    BY <1>1, <1>2, <1>3, <1>4 DEF TypeOK
  <2> QED BY <1>4, <2>1, <2>2 DEF PublishedAt, Slot
<1>8. ASSUME NEW pos \in tail .. head - 1, pos # h
      PROVE  EntryAt(pos)' = EntryAt(pos) /\ PublishedAt(pos)' = PublishedAt(pos)
  <2>1. pos \in Nat /\ Slot(pos) # Slot(h) /\ Slot(pos) \in Slots
    BY <1>2, <1>3, <1>8, ClaimedSlots, SlotType DEF BarInv
  <2>2. ready'[Slot(pos)] = ready[Slot(pos)]
    BY <1>1, <1>2, <1>3, <2>1 DEF TypeOK
  <2>3. \A q \in Producers : Writing(q, pos)' = Writing(q, pos)
    BY <1>2, <1>3, <1>8 DEF Writing
  <2>4. \A q \in Producers : Writing(q, pos) => EntryOf(q)' = EntryOf(q)
    BY <1>2, <1>3, <1>8 DEF Writing, EntryOf
  <2>5. EntryAt(pos)' = EntryAt(pos)
    <3>1. CASE \E q \in Producers : Writing(q, pos)
      BY <2>1, <2>3, <2>4, <3>1 DEF BarInv, EntriesKnown
    <3>2. CASE \A q \in Producers : ~ Writing(q, pos)
      BY <1>2, <2>1, <2>3, <3>2 DEF BarInv, EntriesKnown, Slot
    <3> QED BY <3>1, <3>2
  <2> QED BY <1>2, <2>2, <2>5 DEF PublishedAt, Slot
<1> DEFINE n == head - tail
           k == h - tail + 1
<1>9. n \in Nat /\ k \in 1 .. n /\ tail + k - 1 = h
      /\ \A i \in 1 .. n : tail + i - 1 \in tail .. head - 1 /\ (tail + i - 1 = h => i = k)
  BY <1>2, <1>3
<1>10. /\ queueBar = [i \in 1 .. n |-> [entry |-> EntryAt(tail + i - 1),
                                        published |-> PublishedAt(tail + i - 1)]]
       /\ queueBar' = [i \in 1 .. n |-> [entry |-> EntryAt(tail + i - 1)',
                                         published |-> PublishedAt(tail + i - 1)']]
  BY <1>2 DEF queueBar
<1>11. queueBar[k] = [entry |-> EntryOf(p), published |-> FALSE]
  BY <1>6, <1>7, <1>9, <1>10
<1>12. \A i \in 1 .. n : queueBar'[i] =
         IF i = k THEN [entry |-> EntryOf(p), published |-> TRUE] ELSE queueBar[i]
  <2>1. ASSUME NEW i \in 1 .. n, NEW pos \in tail .. head - 1, pos = tail + i - 1
        PROVE  queueBar'[i] = [entry |-> EntryAt(pos)', published |-> PublishedAt(pos)']
    BY <1>2, <1>10, <2>1
  <2>2. ASSUME NEW i \in 1 .. n, i # k
        PROVE  queueBar'[i] = queueBar[i]
    <3>1. PICK pos \in tail .. head - 1 : pos = tail + i - 1 /\ pos # h
      BY <1>9, <2>2
    <3>2. queueBar[i] = [entry |-> EntryAt(pos), published |-> PublishedAt(pos)]
      BY <1>10, <3>1
    <3> QED BY <1>8, <2>1, <3>1, <3>2
  <2>3. queueBar'[k] = [entry |-> EntryOf(p), published |-> TRUE]
    BY <1>3, <1>6, <1>7, <1>9, <2>1
  <2> QED BY <2>2, <2>3
<1> HIDE DEF k, n
<1>13. queueBar' = [queueBar EXCEPT ![k].published = TRUE]
  BY <1>10, <1>11, <1>12, <1>9
<1>14. DOMAIN queueBar = 1 .. n
  BY <1>10
<1>15. EntryOf(p)[1] = p
  BY DEF EntryOf
<1>16. countBar' = countBar /\ heldBar' = heldBar
  BY <1>2 DEF countBar, heldBar
<1>17. queueBar[k].entry[1] = p /\ ~ queueBar[k].published /\ k \in DOMAIN queueBar
  BY <1>9, <1>11, <1>14, <1>15
<1> QED BY <1>13, <1>16, <1>17 DEF Queue!Publish

(* Inside ring_pop, up to the copy: nothing to be seen. *)
LEMMA QuietPop ==
  ASSUME BarInv, BarInv', NEW c \in Consumers,
         PopLock(c) \/ PopNothing(c) \/ PopFound(c) \/ PopCopy(c)
  PROVE  UNCHANGED Queue!vars
<1> USE DEF PopLock, PopNothing, PopFound, PopCopy, pushVars
<1>1. TypeOK
  BY DEF BarInv, RingInv, PositionsInv
<1>2. UNCHANGED <<head, tail, ring, ready, ppc, phead, calls>>
  OBVIOUS
<1>3. \A d \in Consumers :
        /\ cpc'[d] = "advance" <=> cpc[d] = "advance"
        /\ cpc'[d] = "got" <=> cpc[d] = "got"
        /\ cpc[d] = "got" => out'[d] = out[d]
  BY <1>1 DEF TypeOK
<1>4. queueBar' = queueBar
  BY <1>2, <1>3, SameWriters DEF BarInv, Writing, EntryOf
<1>5. countBar' = countBar /\ heldBar' = heldBar
  BY <1>2, <1>3 DEF countBar, heldBar
<1> QED BY <1>4, <1>5 DEF Queue!vars

(* Between clearing ready and moving tail the front entry counts as published. *)
LEMMA ClearIsQuiet ==
  ASSUME BarInv, BarInv', NEW c \in Consumers, PopClear(c)
  PROVE  UNCHANGED Queue!vars
<1> USE DEF PopClear, pushVars
<1>1. TypeOK /\ PopSection
  BY DEF BarInv, RingInv, PositionsInv
<1>2. /\ UNCHANGED <<head, tail, ring, ppc, phead, calls, out>>
      /\ ready' = [ready EXCEPT ![Slot(tail)] = 0]
      /\ cpc[c] = "clear" /\ cpc'[c] = "advance"
      /\ \A d \in Consumers \ {c} : cpc'[d] = cpc[d]
      /\ head \in Nat /\ tail \in tail .. head - 1 /\ ready[Slot(tail)] = 1
  BY <1>1 DEF TypeOK, PopSection
<1>3. \A d \in Consumers : cpc[d] # "advance"
  BY <1>1, <1>2 DEF PopSection
<1>4. ASSUME NEW pos \in tail .. head - 1
      PROVE  EntryAt(pos)' = EntryAt(pos) /\ PublishedAt(pos)' = PublishedAt(pos)
  <2>1. pos \in Nat
    BY <1>1, <1>2 DEF TypeOK
  <2>2. \A q \in Producers : Writing(q, pos)' = Writing(q, pos) /\ EntryOf(q)' = EntryOf(q)
    BY <1>2 DEF Writing, EntryOf
  <2>3. EntryAt(pos)' = EntryAt(pos)
    <3>1. CASE \E q \in Producers : Writing(q, pos)
      BY <2>1, <2>2, <3>1 DEF BarInv, EntriesKnown
    <3>2. CASE \A q \in Producers : ~ Writing(q, pos)
      BY <1>2, <2>1, <2>2, <3>2 DEF BarInv, EntriesKnown, Slot
    <3> QED BY <3>1, <3>2
  <2>4. PublishedAt(pos)' = PublishedAt(pos)
    <3>1. CASE pos = tail
      BY <1>2, <3>1 DEF PublishedAt, Slot
    <3>2. CASE pos # tail
      <4>1. Slot(pos) # Slot(tail) /\ Slot(pos) \in Slots
        BY <1>2, <2>1, <3>2, ClaimedSlots, SlotType DEF BarInv
      <4>2. ready'[Slot(pos)] = ready[Slot(pos)]
        BY <1>1, <1>2, <4>1 DEF TypeOK
      <4> QED BY <1>2, <3>2, <4>2 DEF PublishedAt, Slot
    <3> QED BY <3>1, <3>2
  <2> QED BY <2>3, <2>4
<1>5. queueBar' = queueBar
  BY <1>2, <1>4, BarUnchanged DEF BarInv
<1>6. countBar' = countBar /\ heldBar' = heldBar
  BY <1>2, <1>3 DEF countBar, heldBar
<1> QED BY <1>5, <1>6 DEF Queue!vars

(* Moving tail takes the front entry out. *)
LEMMA AdvanceIsTake ==
  ASSUME BarInv, BarInv', NEW c \in Consumers, PopAdvance(c)
  PROVE  Queue!Take(c)
<1> USE DEF PopAdvance, pushVars
<1>1. TypeOK /\ PopSection /\ StoredEntries
  BY DEF BarInv, RingInv, PositionsInv
<1>2. /\ UNCHANGED <<head, ring, ready, ppc, phead, calls, out>>
      /\ tail' = tail + 1 /\ cpc[c] = "advance" /\ cpc'[c] = "got"
      /\ \A d \in Consumers \ {c} : cpc'[d] = cpc[d]
      /\ head \in Nat /\ tail \in Nat /\ tail < head
      /\ \A q \in Producers : ~ Writing(q, tail)
      /\ out[c] = ring[Slot(tail)]
  BY <1>1 DEF TypeOK, PopSection, StoredEntries
<1>3. \A d \in Consumers : cpc'[d] # "advance"
  BY <1>1, <1>2 DEF PopSection
<1> DEFINE n == head - tail
<1>4. n \in Nat \ {0} /\ head' - tail' = n - 1
  BY <1>2
<1>5. queueBar = [i \in 1 .. n |-> [entry |-> EntryAt(tail + i - 1),
                                   published |-> PublishedAt(tail + i - 1)]]
  BY DEF queueBar
<1>6. ASSUME NEW i \in 1 .. n - 1
      PROVE  queueBar'[i] = queueBar[i + 1]
  <2>1. PICK pos \in Nat : pos = tail + i
    BY <1>2
  <2>2. pos # tail /\ tail' + i - 1 = pos /\ tail + (i + 1) - 1 = pos /\ i \in 1 .. head' - tail'
        /\ i + 1 \in 1 .. n
    BY <1>2, <1>4, <1>6, <2>1
  <2>3. \A q \in Producers : Writing(q, pos)' = Writing(q, pos) /\ EntryOf(q)' = EntryOf(q)
    BY <1>2 DEF Writing, EntryOf
  <2>4. EntryAt(pos)' = EntryAt(pos)
    <3>1. CASE \E q \in Producers : Writing(q, pos)
      BY <2>3, <3>1 DEF BarInv, EntriesKnown
    <3>2. CASE \A q \in Producers : ~ Writing(q, pos)
      BY <1>2, <2>3, <3>2 DEF BarInv, EntriesKnown, Slot
    <3> QED BY <3>1, <3>2
  <2>5. PublishedAt(pos)' = PublishedAt(pos)
    BY <1>2, <1>3, <2>2 DEF PublishedAt, Slot
  <2>6. queueBar'[i] = [entry |-> EntryAt(pos)', published |-> PublishedAt(pos)']
    BY <2>2 DEF queueBar
  <2>7. queueBar[i + 1] = [entry |-> EntryAt(pos), published |-> PublishedAt(pos)]
    BY <1>5, <2>2
  <2> QED BY <2>4, <2>5, <2>6, <2>7
<1>7. queueBar \in [1 .. n -> BarPlace] /\ queueBar' \in [1 .. n - 1 -> BarPlace]
  BY <1>4 DEF BarInv, BarIsQueue, BarPlace, Entry
<1>8. queueBar' = Tail(queueBar) /\ queueBar # <<>> /\ Head(queueBar) = queueBar[1]
  BY <1>4, <1>6, <1>7, FcnTail
<1>9. queueBar[1] = [entry |-> out[c], published |-> TRUE]
  <2>1. PICK t \in Nat : t = tail
    BY <1>2
  <2>2. EntryAt(t) = out[c]
    BY <1>2, <2>1 DEF BarInv, EntriesKnown
  <2>3. PublishedAt(t) = TRUE
    BY <1>2, <2>1 DEF PublishedAt
  <2>4. queueBar[1] = [entry |-> EntryAt(t), published |-> PublishedAt(t)]
    BY <1>2, <1>4, <1>5, <2>1
  <2> QED BY <2>2, <2>3, <2>4
<1>10. heldBar[c] = NoEntry /\ heldBar' = [heldBar EXCEPT ![c] = out[c]]
  <2>1. \A d \in Consumers : heldBar'[d] = IF d = c THEN out[c] ELSE heldBar[d]
    BY <1>2 DEF heldBar
  <2> QED BY <1>2, <2>1 DEF heldBar
<1>11. countBar' = countBar
  BY <1>2 DEF countBar
<1>12. Head(queueBar).published /\ Head(queueBar).entry = out[c]
  BY <1>8, <1>9
<1>13. queueBar # <<>> /\ queueBar' = Tail(queueBar)
  BY <1>8
<1>14. heldBar' = [heldBar EXCEPT ![c] = Head(queueBar).entry]
  BY <1>10, <1>12
<1> QED BY ZenonT(30), <1>10, <1>11, <1>12, <1>13, <1>14 DEF Queue!Take

(* The consumer's last step is the queue's Release.                         *)
LEMMA ConsumeIsRelease ==
  ASSUME BarInv, BarInv', NEW c \in Consumers, Consume(c)
  PROVE  Queue!Release(c)
<1> USE DEF Consume, pushVars
<1>1. TypeOK /\ StoredEntries
  BY DEF BarInv, RingInv, PositionsInv
<1>2. /\ UNCHANGED <<head, tail, ring, ready, ppc, phead, calls, out>>
      /\ cpc[c] = "got" /\ cpc'[c] = "idle" /\ out[c] \in Entry
      /\ \A d \in Consumers \ {c} : cpc'[d] = cpc[d]
  BY <1>1 DEF TypeOK, StoredEntries
<1>3. queueBar' = queueBar
  BY <1>2, SameWriters DEF BarInv, Writing, EntryOf
<1>4. heldBar[c] # NoEntry
  BY <1>2, LogRingAssumption DEF heldBar, Entry
<1>5. heldBar' = [heldBar EXCEPT ![c] = NoEntry]
  <2>1. \A d \in Consumers : heldBar'[d] = IF d = c THEN NoEntry ELSE heldBar[d]
    BY <1>2 DEF heldBar
  <2> QED BY <2>1 DEF heldBar
<1>6. countBar' = countBar
  BY <1>2 DEF countBar
<1> QED BY <1>3, <1>4, <1>5, <1>6 DEF Queue!Release

(* Each step of the ring is a step of LogQueue or leaves it alone.          *)
LEMMA StepRefines == BarInv /\ BarInv' /\ [Next]_vars => [Queue!Next]_(Queue!vars)
<1> SUFFICES ASSUME BarInv, BarInv', [Next]_vars
             PROVE  [Queue!Next]_(Queue!vars)
  OBVIOUS
<1>1. ASSUME NEW p \in Producers, Push(p)
      PROVE  [Queue!Next]_(Queue!vars)
  <2>1. CASE PushStart(p) \/ PushLoadHead(p) \/ PushHasRoom(p) \/ PushCasLoses(p)
    BY <2>1, QuietPush
  <2>2. CASE PushCopy(p)
    BY <2>2, CopyIsQuiet
  <2>3. CASE PushFull(p) \/ PushCasWins(p) \/ PushPublish(p)
    BY <2>3, FullIsDrop, CasIsClaim, PublishIsPublish DEF Queue!Next
  <2> QED BY <1>1, <2>1, <2>2, <2>3 DEF Push
<1>2. ASSUME NEW c \in Consumers, Pop(c)
      PROVE  [Queue!Next]_(Queue!vars)
  <2>1. CASE PopLock(c) \/ PopNothing(c) \/ PopFound(c) \/ PopCopy(c) \/ PopClear(c)
    BY <2>1, QuietPop, ClearIsQuiet
  <2>2. CASE PopAdvance(c) \/ Consume(c)
    BY <2>2, AdvanceIsTake, ConsumeIsRelease DEF Queue!Next
  <2> QED BY <1>2, <2>1, <2>2 DEF Pop
<1>3. CASE UNCHANGED vars
  <2>1. UNCHANGED <<head, tail, ring, ready, ppc, phead, calls, cpc, out>>
    BY <1>3 DEF vars, pushVars, popVars
  <2>2. queueBar' = queueBar
    BY <2>1, SameWriters DEF BarInv, Writing, EntryOf
  <2> QED BY <2>1, <2>2 DEF Queue!vars, countBar, heldBar
<1> QED BY <1>1, <1>2, <1>3 DEF Next

(* The lock-free ring implements the bounded queue, for any numbers of        *)
(* threads and slots: entries leave it exactly once, complete and in the     *)
(* order of their claims (logger.c:80-125).                                  *)
THEOREM RingImplementsQueue == Spec => ImplementsQueue
<1>1. Init => Queue!Init
  <2> SUFFICES ASSUME Init
               PROVE  Queue!Init
    OBVIOUS
  <2>1. queueBar = <<>>
    BY DEF Init, queueBar
  <2>2. countBar = [p \in Producers |-> 0] /\ heldBar = [c \in Consumers |-> NoEntry]
    BY DEF Init, countBar, heldBar
  <2> QED BY <2>1, <2>2 DEF Queue!Init
<1> QED
  BY <1>1, RingInvariant, BarInvHolds, StepRefines, PTL DEF Spec, ImplementsQueue, Queue!Spec

=============================================================================

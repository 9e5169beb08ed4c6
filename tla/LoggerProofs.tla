---------------------------- MODULE LoggerProofs ----------------------------
(***************************************************************************)
(* Proofs about Logger: every log entry is written at most once, and what  *)
(* logger_stop or the child of the crash handler found in the ring is      *)
(* saved, and few lines stand out of order, for every number of logging    *)
(* threads, size of the ring, size of the stdio buffer, and number of      *)
(* rotations and of failed fopen calls.                                    *)
(***************************************************************************)
EXTENDS Logger, SequenceTheorems, FiniteSetTheorems, TLAPS

-----------------------------------------------------------------------------
(* Sequences of lines. *)

(* One more line at the end of a file or of the buffer. *)
LEMMA AppendedLines ==
  ASSUME NEW s \in Seq(Entry), NEW e \in Entry
  PROVE  /\ Append(s, e) \in Seq(Entry)
         /\ SeqRange(Append(s, e)) = SeqRange(s) \cup {e}
         /\ Once(s) /\ e \notin SeqRange(s) => Once(Append(s, e))
<1>1. /\ Append(s, e) \in Seq(Entry)
      /\ DOMAIN s = 1 .. Len(s) /\ DOMAIN Append(s, e) = 1 .. (Len(s) + 1)
      /\ Len(s) \in Nat
      /\ \A i \in 1 .. Len(s) : Append(s, e)[i] = s[i]
      /\ Append(s, e)[Len(s) + 1] = e
  OBVIOUS
<1>2. PICK n \in Nat : n = Len(s)
  BY <1>1
<1>3. SeqRange(Append(s, e)) = SeqRange(s) \cup {e}
  <2>1. 1 .. (n + 1) = (1 .. n) \cup {n + 1}
    BY <1>2
  <2>2. /\ DOMAIN s = 1 .. n /\ DOMAIN Append(s, e) = 1 .. (n + 1)
        /\ \A i \in 1 .. n : Append(s, e)[i] = s[i]
        /\ Append(s, e)[n + 1] = e
    BY <1>1, <1>2
  <2> QED BY <2>1, <2>2, Zenon DEF SeqRange
<1>4. ASSUME Once(s), e \notin SeqRange(s)
      PROVE  Once(Append(s, e))
  <2> SUFFICES ASSUME NEW i \in 1 .. (n + 1), NEW j \in 1 .. (n + 1),
                      Append(s, e)[i] = Append(s, e)[j]
               PROVE  i = j
    BY <1>1, <1>2 DEF Once
  <2>1. \A k \in 1 .. n : Append(s, e)[k] # e
    BY <1>1, <1>2, <1>4 DEF SeqRange
  <2>2. CASE i = n + 1 \/ j = n + 1
    BY <1>1, <1>2, <2>1, <2>2
  <2>3. CASE i \in 1 .. n /\ j \in 1 .. n
    BY <1>1, <1>2, <1>4, <2>3 DEF Once
  <2> QED BY <2>2, <2>3
<1> QED BY <1>1, <1>3, <1>4

(* The lines of one sequence behind those of another. *)
LEMMA JoinedLines ==
  ASSUME NEW s \in Seq(Entry), NEW t \in Seq(Entry)
  PROVE  /\ s \o t \in Seq(Entry)
         /\ SeqRange(s \o t) = SeqRange(s) \cup SeqRange(t)
         /\ Once(s) /\ Once(t) /\ SeqRange(s) \cap SeqRange(t) = {} => Once(s \o t)
<1>1. /\ s \o t \in Seq(Entry)
      /\ DOMAIN s = 1 .. Len(s) /\ DOMAIN t = 1 .. Len(t)
      /\ DOMAIN (s \o t) = 1 .. (Len(s) + Len(t))
      /\ Len(s) \in Nat /\ Len(t) \in Nat
      /\ \A i \in 1 .. (Len(s) + Len(t)) :
           (s \o t)[i] = IF i <= Len(s) THEN s[i] ELSE t[i - Len(s)]
  OBVIOUS
<1>2. PICK n \in Nat, m \in Nat : n = Len(s) /\ m = Len(t)
  BY <1>1
<1> DEFINE u == s \o t
<1>3. /\ \A i \in 1 .. n : i \in 1 .. (n + m) /\ u[i] = s[i]
      /\ \A i \in 1 .. m : n + i \in 1 .. (n + m) /\ u[n + i] = t[i]
      /\ \A i \in 1 .. (n + m) : i \in 1 .. n \/ \E k \in 1 .. m : i = n + k
  <2>1. \A i \in 1 .. n : i \in 1 .. (n + m) /\ u[i] = s[i]
    BY <1>1, <1>2
  <2>2. \A i \in 1 .. m : n + i \in 1 .. (n + m) /\ u[n + i] = t[i]
    BY <1>1, <1>2
  <2>3. ASSUME NEW i \in 1 .. (n + m), i \notin 1 .. n
        PROVE  \E k \in 1 .. m : i = n + k
    <3>1. i - n \in 1 .. m /\ i = n + (i - n)
      BY <2>3
    <3> QED BY <3>1
  <2> QED BY <2>1, <2>2, <2>3
<1>4. DOMAIN s = 1 .. n /\ DOMAIN t = 1 .. m /\ DOMAIN u = 1 .. (n + m)
  BY <1>1, <1>2
<1> HIDE DEF u
<1>5. SeqRange(u) = SeqRange(s) \cup SeqRange(t)
  <2>1. SeqRange(u) \subseteq SeqRange(s) \cup SeqRange(t)
    <3> SUFFICES ASSUME NEW i \in 1 .. (n + m)
                 PROVE  u[i] \in SeqRange(s) \cup SeqRange(t)
      BY <1>4 DEF SeqRange
    <3>1. CASE i \in 1 .. n
      BY <3>1, <1>3, <1>4 DEF SeqRange
    <3>2. CASE \E k \in 1 .. m : i = n + k
      <4>1. PICK k \in 1 .. m : i = n + k
        BY <3>2
      <4> QED BY <4>1, <1>3, <1>4 DEF SeqRange
    <3> QED BY <3>1, <3>2, <1>3
  <2>2. SeqRange(s) \subseteq SeqRange(u)
    BY <1>3, <1>4, Zenon DEF SeqRange
  <2>3. SeqRange(t) \subseteq SeqRange(u)
    BY <1>3, <1>4, Zenon DEF SeqRange
  <2> QED BY <2>1, <2>2, <2>3
<1>6. ASSUME Once(s), Once(t), SeqRange(s) \cap SeqRange(t) = {}
      PROVE  Once(u)
  <2> SUFFICES ASSUME NEW i \in 1 .. (n + m), NEW j \in 1 .. (n + m), u[i] = u[j]
               PROVE  i = j
    BY <1>4, Zenon DEF Once
  <2>0. /\ \A k \in 1 .. n : s[k] \in SeqRange(s)
        /\ \A k \in 1 .. m : t[k] \in SeqRange(t)
    BY <1>4, Zenon DEF SeqRange
  <2>1. CASE i \in 1 .. n /\ j \in 1 .. n
    BY <2>1, <1>3, <1>4, <1>6, Zenon DEF Once
  <2>2. ASSUME NEW k \in 1 .. m, i = n + k, NEW l \in 1 .. m, j = n + l
        PROVE  i = j
    <3>1. t[k] = t[l]
      BY <2>2, <1>3, Zenon
    <3>2. k = l
      BY <3>1, <1>4, <1>6, Zenon DEF Once
    <3> QED BY <2>2, <3>2
  <2>3. ASSUME i \in 1 .. n, NEW l \in 1 .. m, j = n + l
        PROVE  FALSE
    BY <2>3, <2>0, <1>3, <1>6, Zenon
  <2>4. ASSUME j \in 1 .. n, NEW k \in 1 .. m, i = n + k
        PROVE  FALSE
    BY <2>4, <2>0, <1>3, <1>6, Zenon
  <2> QED BY <2>1, <2>2, <2>3, <2>4, <1>3, Zenon
<1> QED BY <1>1, <1>5, <1>6 DEF u

(* No line and one line. *)
LEMMA FewLines ==
  /\ <<>> \in Seq(Entry) /\ SeqRange(<<>>) = {} /\ Once(<<>>) /\ Len(<<>>) = 0
  /\ \A e \in Entry : /\ <<e>> \in Seq(Entry) /\ SeqRange(<<e>>) = {e}
                      /\ Once(<<e>>) /\ Len(<<e>>) = 1
<1>1. /\ <<>> \in Seq(Entry) /\ SeqRange(<<>>) = {} /\ Once(<<>>) /\ Len(<<>>) = 0
  BY DEF SeqRange, Once
<1>2. ASSUME NEW e \in Entry
      PROVE  /\ <<e>> \in Seq(Entry) /\ SeqRange(<<e>>) = {e}
             /\ Once(<<e>>) /\ Len(<<e>>) = 1
  BY DEF SeqRange, Once
<1> QED BY <1>1, <1>2

-----------------------------------------------------------------------------
(* The log files. *)

(* write_entry_to_file adds the line e, or notes that it could not, and     *)
(* loses none of the others.                                                *)
LEMMA WriteAdds ==
  ASSUME LoggerTypeOK, LinesInv, NEW e \in Entry, e \notin Written,
         WriteEntry(e), UNCHANGED sidecar
  PROVE  /\ disk' \in Seq(Entry) /\ buffer' \in Seq(Entry) /\ Len(buffer') <= BufLines
         /\ ~ fpOpen' => buffer' = <<>>
         /\ opens' \in 0 .. MaxOpens /\ failedOpen' \subseteq Entry
         /\ LinesInv'
         /\ Written' \subseteq Written \cup {e} /\ Written \subseteq Written'
         /\ failedOpen \subseteq failedOpen' /\ Saved \subseteq Saved'
         /\ e \in Written' \cup failedOpen'
<1> USE DEF LinesInv, Written, Saved, Buffered
<1>0. /\ disk \in Seq(Entry) /\ buffer \in Seq(Entry) /\ Len(buffer) <= BufLines
      /\ BufLines \in Nat \ {0} /\ MaxOpens \in Nat
      /\ opens \in 0 .. MaxOpens /\ failedOpen \subseteq Entry
      /\ ~ fpOpen => buffer = <<>>
  BY LoggerAssumption DEF LoggerTypeOK
<1>1. /\ disk \o buffer \in Seq(Entry)
      /\ SeqRange(disk \o buffer) = SeqRange(disk) \cup SeqRange(buffer)
      /\ Once(disk \o buffer)
  BY <1>0, JoinedLines
<1>2. CASE BufferedWrite(e)
  <2>0. fpOpen' /\ opens' = opens /\ failedOpen' = failedOpen
    BY <1>2, Zenon DEF BufferedWrite
  <2>1. CASE Len(buffer) = BufLines /\ disk' = disk \o buffer /\ buffer' = <<e>>
    BY <2>0, <2>1, <1>0, <1>1, FewLines
  <2>2. CASE Len(buffer) # BufLines /\ buffer' = Append(buffer, e) /\ disk' = disk
    <3>1. Len(buffer') <= BufLines
      BY <2>2, <1>0
    <3>2. /\ buffer' \in Seq(Entry) /\ SeqRange(buffer') = SeqRange(buffer) \cup {e}
          /\ Once(buffer')
      BY <2>2, <1>0, AppendedLines
    <3> QED BY <2>0, <2>2, <3>1, <3>2, <1>0
  <2> QED BY <1>2, <2>1, <2>2 DEF BufferedWrite
<1>3. CASE ReopenAndWrite(e)
  <2>1. disk' = disk \o buffer /\ buffer' = <<e>> /\ fpOpen' /\ failedOpen' = failedOpen
    BY <1>3, Zenon DEF ReopenAndWrite
  <2>2. opens' \in 0 .. MaxOpens
    BY <1>3, <1>0 DEF ReopenAndWrite
  <2> QED BY <2>1, <2>2, <1>0, <1>1, FewLines
<1>4. CASE OpenFails(e)
  <2>1. /\ disk' = disk \o buffer /\ buffer' = <<>>
        /\ failedOpen' = failedOpen \cup {e}
    BY <1>4 DEF OpenFails
  <2>2. opens' \in 0 .. MaxOpens
    BY <1>4, <1>0 DEF OpenFails
  <2> QED BY <2>1, <2>2, <1>0, <1>1, FewLines
<1> QED BY <1>2, <1>3, <1>4, Zenon DEF WriteEntry

(* fflush and fclose move the buffer to the file. *)
LEMMA WriteOutSaves ==
  ASSUME LoggerTypeOK, LinesInv, WriteOut, UNCHANGED sidecar
  PROVE  /\ disk' \in Seq(Entry) /\ buffer' = <<>> /\ buffer' \in Seq(Entry)
         /\ Len(buffer') <= BufLines
         /\ LinesInv' /\ Written' = Written /\ Saved' = Written
<1> USE DEF LinesInv, Written, Saved, Buffered
<1>0. disk \in Seq(Entry) /\ buffer \in Seq(Entry) /\ BufLines \in Nat \ {0}
  BY LoggerAssumption DEF LoggerTypeOK
<1>1. /\ disk \o buffer \in Seq(Entry)
      /\ SeqRange(disk \o buffer) = SeqRange(disk) \cup SeqRange(buffer)
      /\ Once(disk \o buffer)
  BY <1>0, JoinedLines
<1> QED BY <1>0, <1>1, FewLines DEF WriteOut

(* A line for the sidecar. *)
LEMMA SidecarAdds ==
  ASSUME LoggerTypeOK, LinesInv, NEW e \in Entry, e \notin Written,
         sidecar' = Append(sidecar, e), UNCHANGED <<disk, buffer>>
  PROVE  /\ sidecar' \in Seq(Entry)
         /\ LinesInv' /\ Written' = Written \cup {e} /\ Saved' = Saved \cup {e}
<1> USE DEF LinesInv, Written, Saved, Buffered
<1>1. sidecar \in Seq(Entry)
  BY DEF LoggerTypeOK
<1>2. /\ sidecar' \in Seq(Entry) /\ SeqRange(sidecar') = SeqRange(sidecar) \cup {e}
      /\ Once(sidecar')
  BY <1>1, AppendedLines
<1> QED BY <1>2

-----------------------------------------------------------------------------
(* The ring, and where an entry is. *)

(* The queue is a sequence of places whose entries are entries.             *)
LEMMA QueueFacts ==
  ASSUME TypeOK
  PROVE  /\ DOMAIN queue = 1 .. Len(queue) /\ Len(queue) \in Nat
         /\ \A i \in DOMAIN queue : queue[i] \in Place /\ queue[i].entry \in Entry
         /\ Queued \subseteq Entry
         /\ NoEntry \notin Entry
<1>1. DOMAIN queue = 1 .. Len(queue) /\ Len(queue) \in Nat
  BY DEF TypeOK
<1>2. ASSUME NEW i \in DOMAIN queue
      PROVE  queue[i] \in Place /\ queue[i].entry \in Entry
  <2>1. queue[i] \in Place
    BY <1>1, <1>2, ElementOfSeq DEF TypeOK
  <2> QED BY <2>1 DEF Place
<1> QED BY <1>1, <1>2, LogQueueAssumption DEF Queued, Entry

(* A claim adds its entry to the queue.                                     *)
LEMMA ClaimAdds ==
  ASSUME TypeOK, QueuedOnce, NEW p \in Producers, Claim(p),
         <<p, count[p]>> \notin Queued
  PROVE  /\ TypeOK' /\ QueuedOnce'
         /\ Queued' = Queued \cup {<<p, count[p]>>}
         /\ <<p, count[p]>> \in Entry
<1> DEFINE e == <<p, count[p]>>
           place == [entry |-> e, published |-> FALSE]
<1>1. e \in Entry /\ place \in Place /\ place.entry = e
  BY DEF TypeOK, Entry, Place
<1> HIDE DEF e
<1>2. PICK n \in Nat : n = Len(queue) /\ DOMAIN queue = 1 .. n
  BY QueueFacts
<1>3. /\ queue' \in Seq(Place) /\ Len(queue') = n + 1 /\ DOMAIN queue' = 1 .. (n + 1)
      /\ queue'[n + 1] = place /\ \A i \in 1 .. n : queue'[i] = queue[i]
  BY <1>1, <1>2 DEF Claim, TypeOK, e
<1>4. TypeOK'
  <2>1. queue' \in Seq(Place) /\ Len(queue') <= Size
    BY <1>2, <1>3, LogQueueAssumption DEF Claim
  <2>2. count' \in [Producers -> Nat] /\ held' \in [Consumers -> Entry \cup {NoEntry}]
    BY DEF Claim, TypeOK
  <2> QED BY <2>1, <2>2 DEF TypeOK
<1>5. 1 .. (n + 1) = (1 .. n) \cup {n + 1}
  OBVIOUS
<1>6. Queued' = Queued \cup {e}
  <2>1. queue'[n + 1].entry = e /\ \A i \in 1 .. n : queue'[i].entry = queue[i].entry
    BY <1>3, <1>1
  <2>2. Queued = {queue[i].entry : i \in 1 .. n}
    BY <1>2 DEF Queued
  <2>3. Queued' = {queue'[i].entry : i \in 1 .. (n + 1)}
    BY <1>3 DEF Queued
  <2> QED BY <2>1, <2>2, <2>3, <1>5, Zenon
<1>7. QueuedOnce'
  <2> SUFFICES ASSUME NEW i \in 1 .. (n + 1), NEW j \in 1 .. (n + 1),
                      queue'[i].entry = queue'[j].entry
               PROVE  i = j
    BY <1>3 DEF QueuedOnce
  <2>1. \A k \in 1 .. n : queue'[k].entry # e
    BY <1>2, <1>3 DEF Queued, e
  <2>2. CASE i = n + 1 \/ j = n + 1
    BY <1>1, <1>3, <1>5, <2>1, <2>2
  <2>3. CASE i \in 1 .. n /\ j \in 1 .. n
    BY <1>2, <1>3, <2>3 DEF QueuedOnce
  <2> QED BY <2>2, <2>3
<1> QED BY <1>1, <1>4, <1>6, <1>7 DEF e

(* A publication leaves the entries as they are.                            *)
LEMMA PublishKeeps ==
  ASSUME TypeOK, QueuedOnce, NEW p \in Producers, Publish(p)
  PROVE  /\ TypeOK' /\ QueuedOnce' /\ Queued' = Queued
<1>1. PICK i \in DOMAIN queue : queue' = [queue EXCEPT ![i].published = TRUE]
  BY DEF Publish
<1>2. /\ DOMAIN queue' = DOMAIN queue
      /\ \A j \in DOMAIN queue : queue'[j] \in Place /\ queue'[j].entry = queue[j].entry
  BY <1>1, QueueFacts DEF Place
<1>3. PICK n \in Nat : n = Len(queue) /\ DOMAIN queue = 1 .. n
  BY QueueFacts
<1>4. queue' \in Seq(Place) /\ Len(queue') = n
  <2>1. queue' \in [1 .. n -> Place]
    BY <1>1, <1>2, <1>3
  <2> QED BY <2>1
<1>5. TypeOK'
  BY <1>3, <1>4 DEF TypeOK, Publish
<1>6. QueuedOnce'
  BY <1>2 DEF QueuedOnce
<1>7. Queued' = Queued
  BY <1>2 DEF Queued
<1> QED BY <1>5, <1>6, <1>7

(* A take moves an entry from the queue into the consumer's hand.           *)
LEMMA TakeRemoves ==
  ASSUME TypeOK, QueuedOnce, NEW c \in Consumers, Take(c)
  PROVE  /\ TypeOK' /\ QueuedOnce'
         /\ held[c] = NoEntry
         /\ held'[c] \in Queued /\ held'[c] \in Entry
         /\ \A d \in Consumers \ {c} : held'[d] = held[d]
         /\ Queued' = Queued \ {held'[c]}
<1>1. PICK n \in Nat : n = Len(queue) /\ DOMAIN queue = 1 .. n
  BY QueueFacts
<1>2. queue # <<>> /\ n >= 1
  BY <1>1 DEF Take, TypeOK
<1>3. /\ queue' \in Seq(Place) /\ Len(queue') = n - 1 /\ DOMAIN queue' = 1 .. (n - 1)
      /\ \A i \in 1 .. (n - 1) : queue'[i] = queue[i + 1]
      /\ Head(queue) = queue[1]
  BY <1>1, <1>2 DEF Take, TypeOK
<1>4. /\ held'[c] = queue[1].entry
      /\ held[c] = NoEntry
      /\ \A d \in Consumers \ {c} : held'[d] = held[d]
  BY <1>3 DEF Take, TypeOK
<1>5. queue[1].entry \in Entry
  BY <1>1, <1>2, QueueFacts
<1>6. TypeOK'
  <2>1. held' \in [Consumers -> Entry \cup {NoEntry}]
    BY <1>3, <1>5 DEF Take, TypeOK
  <2>2. Len(queue') <= Size
    BY <1>1, <1>3, LogQueueAssumption DEF TypeOK
  <2> QED BY <2>1, <2>2, <1>3 DEF TypeOK, Take
<1>7. QueuedOnce'
  <2> SUFFICES ASSUME NEW i \in 1 .. (n - 1), NEW j \in 1 .. (n - 1),
                      queue'[i].entry = queue'[j].entry
               PROVE  i = j
    BY <1>3 DEF QueuedOnce
  <2>1. i + 1 \in 1 .. n /\ j + 1 \in 1 .. n
    OBVIOUS
  <2>2. queue[i + 1].entry = queue[j + 1].entry
    BY <1>3
  <2>3. i + 1 = j + 1
    BY <2>1, <2>2, <1>1, Zenon DEF QueuedOnce
  <2> QED BY <2>3
<1>8. Queued' = Queued \ {queue[1].entry}
  <2>1. ASSUME NEW i \in 1 .. (n - 1)
        PROVE  queue'[i].entry \in Queued \ {queue[1].entry}
    <3>1. i + 1 \in 1 .. n /\ 1 \in 1 .. n /\ i + 1 # 1
      BY <1>2
    <3>2. queue'[i].entry = queue[i + 1].entry
      BY <1>3
    <3> QED BY <3>1, <3>2, <1>1 DEF Queued, QueuedOnce
  <2>2. ASSUME NEW i \in 1 .. n, i # 1
        PROVE  queue[i].entry \in Queued'
    <3>1. i - 1 \in 1 .. (n - 1) /\ queue'[i - 1] = queue[(i - 1) + 1] /\ (i - 1) + 1 = i
      BY <2>2, <1>3
    <3> QED BY <3>1, <1>3 DEF Queued
  <2>3. Queued = {queue[i].entry : i \in 1 .. n}
    BY <1>1 DEF Queued
  <2>4. Queued' = {queue'[i].entry : i \in 1 .. (n - 1)}
    BY <1>3 DEF Queued
  <2> QED BY <2>1, <2>2, <2>3, <2>4, Zenon
<1>9. queue[1].entry \in Queued
  BY <1>1, <1>2 DEF Queued
<1> QED BY <1>4, <1>5, <1>6, <1>7, <1>8, <1>9

(* How the ring's operations and the end of a write change the places of    *)
(* the entries.                                                             *)
LEMMA CountGrows ==
  ASSUME TypeOK, NEW p \in Producers, count' = [count EXCEPT ![p] = @ + 1]
  PROVE  /\ \A e \in Entry : count[e[1]] \in Nat /\ e[2] \in Nat
         /\ \A e \in Entry : e[2] < count[e[1]] => e[2] < count'[e[1]]
         /\ <<p, count[p]>> \in Entry /\ count[p] < count'[p]
<1>1. count \in [Producers -> Nat]
  BY DEF TypeOK
<1>2. \A e \in Entry : e[1] \in Producers /\ e[2] \in Nat
  BY DEF Entry
<1>3. <<p, count[p]>> \in Entry
  BY <1>1 DEF Entry
<1>4. ASSUME NEW q \in Producers
      PROVE  count[q] \in Nat /\ count'[q] \in Nat /\ count[q] <= count'[q]
  BY <1>1
<1>5. count[p] < count'[p]
  BY <1>1
<1> QED BY <1>2, <1>3, <1>4, <1>5

(* Wherever an entry is, it is an entry.                                    *)
LEMMA PlacedEntries ==
  ASSUME LoggerTypeOK
  PROVE  /\ Written \subseteq Entry /\ Queued \subseteq Entry /\ InHand \subseteq Entry
         /\ NoEntry \notin Entry
         /\ \A c \in Consumers : held[c] # NoEntry => held[c] \in InHand
<1>1. TypeOK /\ disk \in Seq(Entry) /\ buffer \in Seq(Entry) /\ sidecar \in Seq(Entry)
  BY DEF LoggerTypeOK
<1>2. /\ SeqRange(disk) \subseteq Entry /\ SeqRange(buffer) \subseteq Entry
      /\ SeqRange(sidecar) \subseteq Entry
  BY <1>1, ElementOfSeq DEF SeqRange
<1>3. InHand \subseteq Entry
  BY <1>1 DEF InHand, TypeOK
<1>4. \A c \in Consumers : held[c] # NoEntry => held[c] \in InHand
  BY DEF InHand
<1> QED BY <1>1, <1>2, <1>3, <1>4, QueueFacts DEF Written, Saved, Buffered

(* A claimed entry is nowhere else yet.                                     *)
LEMMA PlacesClaimed ==
  ASSUME LoggerTypeOK, PlacesInv, NEW p \in Producers, Claim(p), Written' = Written
  PROVE  TypeOK' /\ PlacesInv'
<1> DEFINE e == <<p, count[p]>>
<1>0. TypeOK /\ held' = held /\ count' = [count EXCEPT ![p] = @ + 1]
  BY DEF LoggerTypeOK, Claim
<1>1. e \notin Written \cup Queued \cup InHand
  <2>1. e \in Written \cup Queued \cup InHand => count[p] < count[p]
    BY DEF PlacesInv
  <2> QED BY <2>1, <1>0 DEF TypeOK
<1>2. TypeOK' /\ QueuedOnce' /\ Queued' = Queued \cup {e} /\ e \in Entry
  BY <1>0, <1>1, ClaimAdds DEF PlacesInv
<1>3. InHand' = InHand
  BY <1>0 DEF InHand
<1>4. ASSUME NEW d \in (Written \cup Queued \cup InHand)'
      PROVE  d[2] < count'[d[1]]
  <2>1. CASE d = e
    BY <2>1, <1>0, CountGrows
  <2>2. CASE d # e
    <3>1. d \in Written \cup Queued \cup InHand /\ d \in Entry
      BY <1>2, <1>3, <1>4, <2>2, PlacedEntries
    <3> QED BY <3>1, <1>0, CountGrows DEF PlacesInv
  <2> QED BY <2>1, <2>2
<1>5. ASSUME NEW c \in Consumers
      PROVE  held[c] # e
  BY <1>1, <1>2, PlacedEntries
<1> HIDE DEF e
<1>6. \A c \in Consumers :
        /\ held'[c] \notin Written' \cup Queued'
        /\ \A d \in Consumers : held'[d] = held'[c] => d = c \/ held'[c] = NoEntry
  BY <1>0, <1>2, <1>5 DEF PlacesInv
<1>7. Written' \cap Queued' = {}
  BY <1>1, <1>2 DEF PlacesInv
<1> QED BY <1>2, <1>4, <1>6, <1>7 DEF PlacesInv

(* A line dropped at a full ring disturbs no entry.                         *)
LEMMA PlacesDropped ==
  ASSUME LoggerTypeOK, PlacesInv, NEW p \in Producers, Drop(p), Written' = Written
  PROVE  TypeOK' /\ PlacesInv'
<1>0. /\ TypeOK /\ count' = [count EXCEPT ![p] = @ + 1]
      /\ held' = held /\ queue' = queue
  BY DEF LoggerTypeOK, Drop
<1>1. TypeOK'
  BY <1>0 DEF TypeOK
<1>2. Queued' = Queued /\ InHand' = InHand /\ (QueuedOnce' <=> QueuedOnce)
  BY <1>0 DEF Queued, InHand, QueuedOnce
<1>3. \A e \in Written \cup Queued \cup InHand : e[2] < count'[e[1]]
  BY <1>0, CountGrows, PlacedEntries DEF PlacesInv
<1> QED BY <1>0, <1>1, <1>2, <1>3 DEF PlacesInv

(* Nor does a publication.                                                  *)
LEMMA PlacesPublished ==
  ASSUME LoggerTypeOK, PlacesInv, NEW p \in Producers, Publish(p), Written' = Written
  PROVE  TypeOK' /\ PlacesInv' /\ Queued' = Queued
<1>0. TypeOK /\ held' = held /\ count' = count
  BY DEF LoggerTypeOK, Publish
<1>1. TypeOK' /\ QueuedOnce' /\ Queued' = Queued
  BY <1>0, PublishKeeps DEF PlacesInv
<1>2. InHand' = InHand
  BY <1>0 DEF InHand
<1> QED BY <1>0, <1>1, <1>2 DEF PlacesInv

(* A taken entry is in one hand and no longer in the queue.                 *)
LEMMA PlacesTaken ==
  ASSUME LoggerTypeOK, PlacesInv, NEW c \in Consumers, Take(c), Written' = Written
  PROVE  /\ TypeOK' /\ PlacesInv'
         /\ Queued \subseteq Queued' \cup {held'[c]}
<1>0. TypeOK /\ count' = count
  BY DEF LoggerTypeOK, Take
<1>1. /\ TypeOK' /\ QueuedOnce' /\ held[c] = NoEntry
      /\ held'[c] \in Queued /\ held'[c] \in Entry
      /\ \A d \in Consumers \ {c} : held'[d] = held[d]
      /\ Queued' = Queued \ {held'[c]}
  BY <1>0, TakeRemoves DEF PlacesInv
<1>2. InHand' \subseteq InHand \cup Queued
  BY <1>1 DEF InHand
<1>3. \A e \in (Written \cup Queued \cup InHand)' : e[2] < count'[e[1]]
  <2>1. (Written \cup Queued \cup InHand)' \subseteq Written \cup Queued \cup InHand
    BY <1>1, <1>2
  <2> QED BY <2>1, <1>0 DEF PlacesInv
<1>4. ASSUME NEW a \in Consumers
      PROVE  /\ held'[a] \notin Written' \cup Queued'
             /\ \A b \in Consumers : held'[b] = held'[a] => b = a \/ held'[a] = NoEntry
  <2>1. CASE a = c
    <3>1. held'[c] \notin Written' \cup Queued'
      BY <1>1 DEF PlacesInv
    <3>2. \A b \in Consumers \ {c} : held'[b] # held'[c]
      BY <1>1 DEF PlacesInv
    <3> QED BY <2>1, <3>1, <3>2
  <2>2. CASE a # c
    <3>1. held'[a] = held[a] /\ held[a] \notin Written \cup Queued
      BY <1>1, <2>2 DEF PlacesInv
    <3>2. \A b \in Consumers : held'[b] = held'[a] => b = a \/ held'[a] = NoEntry
      BY <1>1, <2>2, <3>1 DEF PlacesInv
    <3> QED BY <1>1, <3>1, <3>2
  <2> QED BY <2>1, <2>2
<1>5. Written' \cap Queued' = {}
  BY <1>1 DEF PlacesInv
<1> QED BY <1>1, <1>3, <1>4, <1>5 DEF PlacesInv

(* A released entry has left the hand, perhaps into the log.                *)
LEMMA PlacesReleased ==
  ASSUME LoggerTypeOK, PlacesInv, NEW c \in Consumers, Release(c),
         Written' \subseteq Written \cup {held[c]}
  PROVE  /\ TypeOK' /\ PlacesInv' /\ Queued' = Queued
         /\ held'[c] = NoEntry /\ held[c] \in Entry
<1>0. /\ TypeOK /\ count' = count /\ queue' = queue
      /\ held[c] # NoEntry /\ held[c] \in Entry
      /\ held' = [held EXCEPT ![c] = NoEntry] /\ held \in [Consumers -> Entry \cup {NoEntry}]
  BY DEF LoggerTypeOK, Release, TypeOK
<1>1. TypeOK'
  BY <1>0 DEF TypeOK
<1>2. Queued' = Queued /\ (QueuedOnce' <=> QueuedOnce)
  BY <1>0 DEF Queued, QueuedOnce
<1>3. held'[c] = NoEntry /\ \A d \in Consumers \ {c} : held'[d] = held[d]
  BY <1>0
<1>4. InHand' \subseteq InHand /\ held[c] \in InHand
  BY <1>0, <1>3 DEF InHand
<1>5. \A e \in (Written \cup Queued \cup InHand)' : e[2] < count'[e[1]]
  BY <1>0, <1>2, <1>4 DEF PlacesInv
<1>6. ASSUME NEW a \in Consumers
      PROVE  /\ held'[a] \notin Written' \cup Queued'
             /\ \A b \in Consumers : held'[b] = held'[a] => b = a \/ held'[a] = NoEntry
  <2>1. CASE a = c
    <3>1. NoEntry \notin Written \cup Queued \cup {held[c]}
      BY <1>0, PlacedEntries
    <3> QED BY <2>1, <3>1, <1>2, <1>3
  <2>2. CASE a # c
    <3>1. held'[a] = held[a] /\ held[a] # held[c] /\ held[a] \notin Written \cup Queued
      BY <1>0, <1>3, <2>2 DEF PlacesInv
    <3>2. \A b \in Consumers : held'[b] = held'[a] => b = a \/ held'[a] = NoEntry
      BY <1>3, <2>2, <3>1 DEF PlacesInv
    <3> QED BY <1>2, <3>1, <3>2
  <2> QED BY <2>1, <2>2
<1>7. Written' \cap Queued' = {}
  BY <1>0, <1>2 DEF PlacesInv
<1> QED BY <1>0, <1>1, <1>2, <1>3, <1>5, <1>6, <1>7 DEF PlacesInv

(* What does not touch queue and log leaves every entry in its place.       *)
LEMMA PlacesStay ==
  ASSUME LoggerTypeOK, PlacesInv, UNCHANGED vars, Written' = Written
  PROVE  TypeOK' /\ PlacesInv' /\ Queued' = Queued
<1>0. TypeOK /\ queue' = queue /\ count' = count /\ held' = held
  BY DEF LoggerTypeOK, vars
<1>1. TypeOK'
  BY <1>0 DEF TypeOK
<1>2. Queued' = Queued /\ InHand' = InHand /\ (QueuedOnce' <=> QueuedOnce)
  BY <1>0 DEF Queued, InHand, QueuedOnce
<1> QED BY <1>0, <1>1, <1>2 DEF PlacesInv

(* Nothing written, nothing changed.                                        *)
LEMMA SameLines ==
  ASSUME UNCHANGED <<disk, buffer, sidecar>>
  PROVE  /\ LinesInv' <=> LinesInv
         /\ Written' = Written /\ Saved' = Saved
  BY DEF LinesInv, Written, Saved, Buffered, Once

-----------------------------------------------------------------------------
(* The steps of the logger, by what they do to the ring and the files. *)

FilesTypeOK ==
  /\ disk \in Seq(Entry) /\ buffer \in Seq(Entry) /\ sidecar \in Seq(Entry)
  /\ Len(buffer) <= BufLines
  /\ ~ fpOpen => buffer = <<>>
  /\ opens \in 0 .. MaxOpens /\ failedOpen \subseteq Entry

LogStep(p) ==
  (Claim(p) \/ Drop(p) \/ Publish(p)) /\ UNCHANGED <<fileVars, sidecar>>
PopStep(c) == Take(c) /\ UNCHANGED <<fileVars, sidecar>>
WriteStep(c) == Release(c) /\ WriteEntry(held[c]) /\ UNCHANGED sidecar
SidecarStep(c) ==
  Release(c) /\ sidecar' = Append(sidecar, held[c]) /\ UNCHANGED fileVars
WriteOutStep ==
  UNCHANGED vars /\ WriteOut /\ UNCHANGED <<fpOpen, opens, failedOpen, sidecar>>
QuietStep == UNCHANGED <<vars, fileVars, sidecar>>

DataStep ==
  \/ \E p \in Producers : LogStep(p)
  \/ \E c \in Consumers : PopStep(c) \/ WriteStep(c) \/ SidecarStep(c)
  \/ WriteOutStep \/ QuietStep

(* The threads of the logger differ and have the roles they need.           *)
LEMMA ThreadNames ==
  /\ Flusher \in Consumers /\ Callers \subseteq Consumers
  /\ Main \in Callers /\ Dog \in Callers /\ Child \in Callers
  /\ Flusher \notin Callers /\ Main # Dog /\ Child # Main /\ Child # Dog
  /\ Consumers = Callers \cup {Flusher}
  /\ Main \in Producers /\ Dog \in Producers
  /\ \A t \in Callers : t # Child => t \in Producers
  BY LoggerAssumption DEF Callers

(* Every step of the logger is one of these.                                *)
LEMMA StepKinds ==
  ASSUME LoggerNext PROVE DataStep
<1> USE ThreadNames
<1>1. ASSUME FlushThread PROVE DataStep
  <2>1. CASE FlusherChecksRunning
    BY <2>1, Zenon DEF FlusherChecksRunning, DataStep, QuietStep
  <2>2. CASE FlusherPops
    BY <2>2, Zenon DEF FlusherPops, DataStep, PopStep
  <2>3. CASE FlusherLocks
    BY <2>3, Zenon DEF FlusherLocks, DataStep, QuietStep
  <2>4. CASE FlusherWrites
    BY <2>4, Zenon DEF FlusherWrites, DataStep, WriteStep
  <2>5. CASE BatchEnds
    BY <2>5, Zenon DEF BatchEnds, DataStep, QuietStep
  <2>6. CASE DrainPopFails
    BY <2>6, Zenon DEF DrainPopFails, DataStep, QuietStep
  <2> QED BY <1>1, <2>1, <2>2, <2>3, <2>4, <2>5, <2>6, Zenon DEF FlushThread
<1>2. CASE StopLogger
  BY <1>2, Zenon DEF StopLogger, DataStep, QuietStep
<1>3. CASE DestroyLogger
  BY <1>3, Zenon DEF DestroyLogger, DataStep, WriteOutStep
<1>4. CASE Crash
  BY <1>4, Zenon DEF Crash, DataStep, QuietStep
<1>5. ASSUME NEW p \in Producers, Logs(p) PROVE DataStep
  BY <1>5, Zenon DEF Logs, DataStep, LogStep
<1>6. ASSUME NEW t \in Callers, LastLine(t) PROVE DataStep
  BY <1>6, Zenon DEF LastLine, LogsLastLine, DataStep, LogStep
<1>7. ASSUME NEW t \in Callers, FlushCall(t) PROVE DataStep
  <2>1. CASE FlushTriesLock(t)
    BY <2>1, Zenon DEF FlushTriesLock, FlushStarts, DataStep, QuietStep
  <2>2. CASE FlushPops(t)
    BY <2>2, Zenon DEF FlushPops, DataStep, PopStep
  <2>3. CASE FlushWrites(t)
    BY <2>3, Zenon DEF FlushWrites, DataStep, WriteStep, SidecarStep
  <2>4. CASE FlushEnds(t)
    <3>1. CASE fileMtx = t
      BY <2>4, <3>1, Zenon DEF FlushEnds, DataStep, WriteOutStep
    <3>2. CASE fileMtx # t
      BY <2>4, <3>2, Zenon DEF FlushEnds, fileVars, DataStep, QuietStep
    <3> QED BY <3>1, <3>2
  <2> QED BY <1>7, <2>1, <2>2, <2>3, <2>4, Zenon DEF FlushCall
<1>8. ASSUME NEW t \in Callers, ExitAfterFlush(t) PROVE DataStep
  BY <1>8, Zenon DEF ExitAfterFlush, DataStep, QuietStep
<1> QED BY <1>1, <1>2, <1>3, <1>4, <1>5, <1>6, <1>7, <1>8, Zenon DEF LoggerNext

(* No step puts an entry in two places, and none loses a line. *)
LEMMA DataKept ==
  ASSUME LoggerTypeOK, LinesInv, PlacesInv, DataStep
  PROVE  /\ TypeOK' /\ FilesTypeOK' /\ LinesInv' /\ PlacesInv'
         /\ Written \subseteq Written' /\ Saved \subseteq Saved'
         /\ failedOpen \subseteq failedOpen'
<1>0. /\ FilesTypeOK
      /\ \A c \in Consumers : held[c] \notin Written /\ held[c] \in Entry \cup {NoEntry}
  BY DEF FilesTypeOK, LoggerTypeOK, PlacesInv, TypeOK
<1>1. ASSUME UNCHANGED <<fileVars, sidecar>>
      PROVE  /\ FilesTypeOK' /\ LinesInv'
             /\ Written' = Written /\ Saved' = Saved /\ failedOpen' = failedOpen
  BY <1>0, <1>1, SameLines DEF fileVars, FilesTypeOK
<1>2. ASSUME NEW p \in Producers, LogStep(p)
      PROVE  TypeOK' /\ PlacesInv' /\ UNCHANGED <<fileVars, sidecar>>
  BY <1>1, <1>2, PlacesClaimed, PlacesDropped, PlacesPublished, Zenon DEF LogStep
<1>3. ASSUME NEW c \in Consumers, PopStep(c)
      PROVE  TypeOK' /\ PlacesInv' /\ UNCHANGED <<fileVars, sidecar>>
  BY <1>1, <1>3, PlacesTaken, Zenon DEF PopStep
<1>4. ASSUME NEW c \in Consumers, WriteStep(c)
      PROVE  /\ TypeOK' /\ FilesTypeOK' /\ LinesInv' /\ PlacesInv'
             /\ Written \subseteq Written' /\ Saved \subseteq Saved'
             /\ failedOpen \subseteq failedOpen'
  <2>1. held[c] \in Entry
    BY <1>0, <1>4 DEF WriteStep, Release
  <2>2. WriteEntry(held[c]) /\ Release(c) /\ sidecar' = sidecar
    BY <1>4 DEF WriteStep
  <2>3. /\ disk' \in Seq(Entry) /\ buffer' \in Seq(Entry) /\ Len(buffer') <= BufLines
        /\ ~ fpOpen' => buffer' = <<>>
        /\ opens' \in 0 .. MaxOpens /\ failedOpen' \subseteq Entry
        /\ LinesInv'
        /\ Written' \subseteq Written \cup {held[c]} /\ Written \subseteq Written'
        /\ failedOpen \subseteq failedOpen' /\ Saved \subseteq Saved'
    BY <1>0, <2>1, <2>2, WriteAdds
  <2>4. FilesTypeOK'
    BY <1>0, <2>2, <2>3 DEF FilesTypeOK
  <2>5. TypeOK' /\ PlacesInv'
    BY <2>2, <2>3, PlacesReleased, Zenon
  <2> QED BY <2>3, <2>4, <2>5
<1>5. ASSUME NEW c \in Consumers, SidecarStep(c)
      PROVE  /\ TypeOK' /\ FilesTypeOK' /\ LinesInv' /\ PlacesInv'
             /\ Written \subseteq Written' /\ Saved \subseteq Saved'
             /\ failedOpen \subseteq failedOpen'
  <2>1. held[c] \in Entry /\ held[c] \notin Written
    BY <1>0, <1>5 DEF SidecarStep, Release
  <2>2. /\ sidecar' = Append(sidecar, held[c]) /\ Release(c)
        /\ UNCHANGED <<disk, buffer>> /\ UNCHANGED fileVars
    BY <1>5 DEF SidecarStep, fileVars
  <2>3. /\ sidecar' \in Seq(Entry)
        /\ LinesInv' /\ Written' = Written \cup {held[c]} /\ Saved' = Saved \cup {held[c]}
    BY <2>1, <2>2, SidecarAdds
  <2>4. FilesTypeOK' /\ failedOpen' = failedOpen
    BY <1>0, <2>2, <2>3 DEF FilesTypeOK, fileVars
  <2>5. TypeOK' /\ PlacesInv'
    BY <2>2, <2>3, PlacesReleased
  <2> QED BY <2>3, <2>4, <2>5
<1>6. ASSUME WriteOutStep
      PROVE  /\ TypeOK' /\ FilesTypeOK' /\ LinesInv' /\ PlacesInv'
             /\ Written \subseteq Written' /\ Saved \subseteq Saved'
             /\ failedOpen \subseteq failedOpen'
  <2>1. WriteOut /\ sidecar' = sidecar /\ UNCHANGED vars
    BY <1>6 DEF WriteOutStep
  <2>2. /\ disk' \in Seq(Entry) /\ buffer' = <<>> /\ buffer' \in Seq(Entry)
        /\ Len(buffer') <= BufLines
        /\ LinesInv' /\ Written' = Written /\ Saved' = Written
    BY <2>1, WriteOutSaves
  <2>3. FilesTypeOK' /\ failedOpen' = failedOpen
    BY <1>0, <1>6, <2>2 DEF FilesTypeOK, WriteOutStep
  <2>4. TypeOK' /\ PlacesInv'
    BY <2>1, <2>2, PlacesStay, Zenon
  <2> QED BY <2>2, <2>3, <2>4 DEF Written
<1>7. ASSUME QuietStep
      PROVE  TypeOK' /\ PlacesInv' /\ UNCHANGED <<fileVars, sidecar>>
  BY <1>1, <1>7, PlacesStay, Zenon DEF QuietStep
<1> QED BY <1>1, <1>2, <1>3, <1>4, <1>5, <1>6, <1>7 DEF DataStep

-----------------------------------------------------------------------------
(* The threads. *)

ThreadsTypeOK ==
  /\ pc \in [Consumers -> {"loop", "batch", "drain", "done", "idle", "logged",
                           "pop", "flushed", "join"}]
  /\ fileMtx \in Consumers \cup {NoThread}
  /\ idle \in 0 .. DrainTries
  /\ process \in {"alive", "crashed", "exited", "closed"}
  /\ owed \subseteq Entry /\ lockers \subseteq Callers

FlagsTypeOK == fpOpen \in BOOLEAN /\ running \in BOOLEAN /\ popMtxLost \in BOOLEAN

(* The flags of the threads keep their types.                               *)
LEMMA FlagsKept ==
  ASSUME FlagsTypeOK, LoggerNext
  PROVE  FlagsTypeOK'
<1>1. fpOpen' \in BOOLEAN
  <2>1. DataStep
    BY StepKinds
  <2>2. \/ fpOpen' = fpOpen
        \/ \E c \in Consumers : WriteEntry(held[c])
    BY <2>1, Zenon DEF DataStep, LogStep, PopStep, WriteStep, SidecarStep, WriteOutStep,
         QuietStep, fileVars
  <2>3. ASSUME NEW e, WriteEntry(e)
        PROVE  fpOpen' \in BOOLEAN
    BY <2>3, Zenon DEF WriteEntry, BufferedWrite, ReopenAndWrite, OpenFails, FlagsTypeOK
  <2> QED BY <2>2, <2>3, Zenon DEF FlagsTypeOK
<1>2. running' \in BOOLEAN
  <2>1. running' = running \/ running' = FALSE
    BY Zenon DEF LoggerNext, FlushThread, FlusherChecksRunning, FlusherPops, FlusherLocks,
      FlusherWrites, BatchEnds, DrainPopFails, StopLogger, DestroyLogger, Crash, Logs,
      LastLine, LogsLastLine, FlushCall, FlushTriesLock, FlushStarts, FlushPops,
      FlushWrites, FlushEnds, ExitAfterFlush
  <2> QED BY <2>1, Zenon DEF FlagsTypeOK
<1>3. popMtxLost' \in BOOLEAN
  <2>1. popMtxLost' = popMtxLost \/ Crash
    BY Zenon DEF LoggerNext, FlushThread, StopLogger, DestroyLogger, Logs, LastLine,
      FlushCall, ExitAfterFlush
  <2>2. ASSUME Crash PROVE popMtxLost' \in BOOLEAN
    <3>1. (\E c \in Consumers : Popping(c)) \in BOOLEAN
      BY Zenon
    <3> QED BY <2>2, <3>1, Zenon DEF Crash
  <2> QED BY <2>1, <2>2, Zenon DEF FlagsTypeOK
<1> QED BY <1>1, <1>2, <1>3 DEF FlagsTypeOK

(* What a step does to the hands of the threads. *)
LEMMA Hands ==
  ASSUME TypeOK
  PROVE  /\ \A p \in Producers : Claim(p) \/ Drop(p) \/ Publish(p) => held' = held
         /\ \A c \in Consumers : Take(c) =>
              \A d \in Consumers \ {c} : held'[d] = held[d]
         /\ \A c \in Consumers : Release(c) =>
              held'[c] = NoEntry /\ \A d \in Consumers \ {c} : held'[d] = held[d]
  BY DEF TypeOK, Claim, Drop, Publish, Take, Release

(* The places of the threads keep what mutexes and joins say of them.       *)
LEMMA ThreadsKept ==
  ASSUME LoggerTypeOK, ThreadsInv, LoggerNext
  PROVE  ThreadsTypeOK' /\ ThreadsInv'
<1> USE ThreadNames, Hands DEF ThreadsInv, DrainTries
<1>0. /\ ThreadsTypeOK /\ TypeOK /\ Queued \subseteq Entry
      /\ \A c \in Consumers : held[c] \in Entry \cup {NoEntry}
      /\ running \in BOOLEAN
  BY PlacedEntries, Zenon DEF LoggerTypeOK, ThreadsTypeOK, TypeOK
<1> USE <1>0 DEF ThreadsTypeOK
<1>1. CASE FlushThread
  <2>0. process = "alive" /\ process' = process
    BY <1>1 DEF FlushThread
  <2>1. CASE FlusherChecksRunning
    <3>1. CASE running
      BY <2>0, <2>1, <3>1 DEF FlusherChecksRunning, Goto, vars
    <3>2. CASE ~ running
      BY <2>0, <2>1, <3>2 DEF FlusherChecksRunning, Goto, vars
    <3> QED BY <3>1, <3>2
  <2>2. CASE FlusherPops
    BY <2>0, <2>2 DEF FlusherPops
  <2>3. CASE FlusherLocks
    BY <2>0, <2>3 DEF FlusherLocks, vars
  <2>4. CASE FlusherWrites
    BY <2>0, <2>4 DEF FlusherWrites
  <2>5. CASE BatchEnds
    BY <2>0, <2>5 DEF BatchEnds, Goto, vars
  <2>6. CASE DrainPopFails
    BY <2>0, <2>6 DEF DrainPopFails, Goto, vars
  <2> QED BY <1>1, <2>1, <2>2, <2>3, <2>4, <2>5, <2>6 DEF FlushThread
<1>2. CASE StopLogger
  BY <1>2 DEF StopLogger, Goto, vars
<1>3. CASE DestroyLogger
  BY <1>3 DEF DestroyLogger, vars
<1>4. CASE Crash
  BY <1>4 DEF Crash, Goto, vars
<1>5. ASSUME NEW p \in Producers, Logs(p) PROVE ThreadsTypeOK' /\ ThreadsInv'
  <2>1. Claim(p) \/ Drop(p) \/ Publish(p)
    BY <1>5, Zenon DEF Logs
  <2> QED BY <1>5, <2>1 DEF Logs
<1>6. ASSUME NEW t \in Callers, LastLine(t) PROVE ThreadsTypeOK' /\ ThreadsInv'
  <2>1. held' = held /\ t # Child
    BY <1>6 DEF LastLine, LogsLastLine
  <2> QED BY <1>6, <2>1 DEF LastLine, LogsLastLine, Goto, MayRun
<1>7. ASSUME NEW t \in Callers, FlushCall(t) PROVE ThreadsTypeOK' /\ ThreadsInv'
  <2>0. MayRun(t) /\ process' = process
    BY <1>7 DEF FlushCall
  <2>1. CASE FlushTriesLock(t)
    BY <2>0, <2>1 DEF FlushTriesLock, FlushStarts, Goto, vars, MayRun
  <2>2. CASE FlushPops(t)
    BY <2>0, <2>2 DEF FlushPops
  <2>3. CASE FlushWrites(t)
    BY <2>0, <2>3 DEF FlushWrites
  <2>4. CASE FlushEnds(t)
    BY <2>0, <2>4 DEF FlushEnds, Goto, vars, MayRun
  <2> QED BY <1>7, <2>1, <2>2, <2>3, <2>4 DEF FlushCall
<1>8. ASSUME NEW t \in Callers, ExitAfterFlush(t) PROVE ThreadsTypeOK' /\ ThreadsInv'
  BY <1>8 DEF ExitAfterFlush, vars, MayRun
<1> QED BY <1>1, <1>2, <1>3, <1>4, <1>5, <1>6, <1>7, <1>8, Zenon DEF LoggerNext

-----------------------------------------------------------------------------
(* Where the entries go in a step of each kind. *)

(* Where each kind of step moves the entries.                               *)
LEMMA Movements ==
  ASSUME LoggerTypeOK, LinesInv, PlacesInv
  PROVE  /\ \A p \in Producers : LogStep(p) =>
              /\ Queued \subseteq Queued' /\ held' = held
              /\ Written' = Written /\ Saved' = Saved /\ failedOpen' = failedOpen
         /\ \A c \in Consumers : PopStep(c) =>
              /\ Queued \subseteq Queued' \cup {held'[c]}
              /\ Written' = Written /\ Saved' = Saved /\ failedOpen' = failedOpen
         /\ \A c \in Consumers : WriteStep(c) =>
              /\ held[c] \in Written' \cup failedOpen' /\ Queued' = Queued
              /\ Written \subseteq Written' /\ failedOpen \subseteq failedOpen'
         /\ \A c \in Consumers : SidecarStep(c) =>
              /\ held[c] \in Saved' /\ Queued' = Queued /\ failedOpen' = failedOpen
              /\ Written \subseteq Written' /\ Saved \subseteq Saved'
         /\ WriteOutStep => /\ Saved' = Written /\ Written' = Written
                            /\ Queued' = Queued /\ failedOpen' = failedOpen
         /\ QuietStep => /\ Saved' = Saved /\ Written' = Written
                         /\ Queued' = Queued /\ failedOpen' = failedOpen
<1>0. TypeOK /\ QueuedOnce
  BY DEF LoggerTypeOK, PlacesInv
<1>1. ASSUME UNCHANGED <<fileVars, sidecar>>
      PROVE  Written' = Written /\ Saved' = Saved /\ failedOpen' = failedOpen
  BY <1>1, SameLines DEF fileVars
<1>2. ASSUME NEW p \in Producers, LogStep(p)
      PROVE  Queued \subseteq Queued' /\ held' = held /\ UNCHANGED <<fileVars, sidecar>>
  <2>0. UNCHANGED <<fileVars, sidecar>> /\ held' = held
    BY <1>0, <1>2, Hands DEF LogStep
  <2>1. CASE Claim(p)
    <3>1. <<p, count[p]>> \notin Queued
      <4>1. <<p, count[p]>> \in Queued => count[p] < count[p]
        BY DEF PlacesInv
      <4> QED BY <4>1, <1>0 DEF TypeOK
    <3> QED BY <1>0, <2>0, <2>1, <3>1, ClaimAdds
  <2>2. CASE Drop(p)
    BY <2>0, <2>2 DEF Drop, Queued
  <2>3. CASE Publish(p)
    BY <1>0, <2>0, <2>3, PublishKeeps
  <2> QED BY <1>2, <2>1, <2>2, <2>3, Zenon DEF LogStep
<1>3. ASSUME NEW c \in Consumers, PopStep(c)
      PROVE  Queued \subseteq Queued' \cup {held'[c]} /\ UNCHANGED <<fileVars, sidecar>>
  BY <1>1, <1>3, PlacesTaken, Zenon DEF PopStep
<1>4. ASSUME NEW c \in Consumers, WriteStep(c)
      PROVE  /\ held[c] \in Written' \cup failedOpen' /\ Queued' = Queued
             /\ Written \subseteq Written' /\ failedOpen \subseteq failedOpen'
  <2>1. /\ Release(c) /\ WriteEntry(held[c]) /\ sidecar' = sidecar
        /\ held[c] \in Entry /\ held[c] \notin Written
    BY <1>0, <1>4 DEF WriteStep, Release, TypeOK, PlacesInv
  <2>2. Queued' = Queued
    BY <2>1 DEF Release, Queued
  <2> QED BY <2>1, <2>2, WriteAdds
<1>5. ASSUME NEW c \in Consumers, SidecarStep(c)
      PROVE  /\ held[c] \in Saved' /\ Queued' = Queued /\ failedOpen' = failedOpen
             /\ Written \subseteq Written' /\ Saved \subseteq Saved'
  <2>1. /\ Release(c) /\ sidecar' = Append(sidecar, held[c])
        /\ UNCHANGED <<disk, buffer>> /\ failedOpen' = failedOpen
        /\ held[c] \in Entry /\ held[c] \notin Written
    BY <1>0, <1>5 DEF SidecarStep, Release, TypeOK, PlacesInv, fileVars
  <2>2. Queued' = Queued
    BY <2>1 DEF Release, Queued
  <2>3. Written' = Written \cup {held[c]} /\ Saved' = Saved \cup {held[c]}
    BY <2>1, SidecarAdds
  <2> QED BY <2>1, <2>2, <2>3
<1>6. ASSUME WriteOutStep
      PROVE  /\ Saved' = Written /\ Written' = Written
             /\ Queued' = Queued /\ failedOpen' = failedOpen
  <2>1. WriteOut /\ sidecar' = sidecar /\ queue' = queue /\ failedOpen' = failedOpen
    BY <1>6 DEF WriteOutStep, vars
  <2> QED BY <2>1, WriteOutSaves DEF Queued
<1>7. ASSUME QuietStep
      PROVE  Queued' = Queued /\ UNCHANGED <<fileVars, sidecar>>
  BY <1>7 DEF QuietStep, vars, Queued
<1> QED BY <1>1, <1>2, <1>3, <1>4, <1>5, <1>6, <1>7

(* What logger_stop found stays in sight of the flush thread until it is    *)
(* written, and the flush thread ends its drain only on an empty ring.      *)
LEMMA StopKept ==
  ASSUME LoggerTypeOK, LinesInv, PlacesInv, ThreadsInv, StopInv, LoggerNext
  PROVE  StopInv'
<1> USE ThreadNames
<1>0. /\ TypeOK /\ owed \subseteq Entry /\ NoEntry \notin Entry
      /\ pc \in [Consumers -> {"loop", "batch", "drain", "done", "idle", "logged",
                               "pop", "flushed", "join"}]
      /\ idle \in 0 .. DrainTries
      /\ process \in {"alive", "crashed", "exited", "closed"}
  BY PlacedEntries, Zenon DEF LoggerTypeOK
<1> DEFINE InSight == Written \cup failedOpen \cup Queued \cup {held[Flusher]}
<1>1. ASSUME FlushThread, process' = "alive", owed' = owed,
             pc'[Main] = pc[Main], pc'[Dog] = pc[Dog],
             owed \subseteq InSight => owed \subseteq InSight',
             pc'[Flusher] = "done" =>
               \/ pc[Flusher] = "done" /\ idle' = idle
               \/ queue = <<>> /\ QuietStep /\ held[Flusher] = NoEntry
               \/ idle' = DrainTries,
             Written \cup failedOpen \subseteq (Written \cup failedOpen)'
      PROVE  StopInv'
  <2>0. process = "alive"
    BY <1>1 DEF FlushThread
  <2>1. ASSUME pc[Main] = "join", pc[Dog] = "idle", pc'[Flusher] = "done", idle' < DrainTries
        PROVE  owed \subseteq (Written \cup failedOpen)'
    <3>1. CASE pc[Flusher] = "done" /\ idle' = idle
      BY <1>1, <2>0, <2>1, <3>1 DEF StopInv
    <3>2. CASE queue = <<>> /\ QuietStep /\ held[Flusher] = NoEntry
      <4>1. Queued = {}
        BY <3>2 DEF Queued
      <4> QED BY <1>0, <1>1, <2>0, <2>1, <3>2, <4>1 DEF StopInv
    <3>3. CASE idle' = DrainTries
      BY <2>1, <3>3 DEF DrainTries
    <3> QED BY <1>1, <2>1, <3>1, <3>2, <3>3
  <2> QED BY <1>1, <2>0, <2>1 DEF StopInv, StopSaves
<1>2. CASE FlushThread
  <2>0. process = "alive" /\ process' = "alive"
    BY <1>2 DEF FlushThread
  <2>q. ASSUME QuietStep
        PROVE  /\ owed \subseteq InSight => owed \subseteq InSight'
               /\ Written \cup failedOpen \subseteq (Written \cup failedOpen)'
    BY <2>q, Movements DEF QuietStep, vars
  <2>1. CASE FlusherChecksRunning
    <3>1. QuietStep /\ owed' = owed
      BY <2>1, Zenon DEF FlusherChecksRunning, QuietStep
    <3>2. /\ pc'[Main] = pc[Main] /\ pc'[Dog] = pc[Dog] /\ pc'[Flusher] # "done"
      BY <1>0, <2>1 DEF FlusherChecksRunning, Goto
    <3> QED BY <1>1, <1>2, <2>0, <2>q, <3>1, <3>2, Zenon
  <2>2. CASE FlusherPops
    <3>1. PopStep(Flusher) /\ pc' = pc /\ owed' = owed /\ held[Flusher] = NoEntry
      BY <2>2 DEF FlusherPops, PopStep, Take
    <3>2. /\ owed \subseteq InSight => owed \subseteq InSight'
          /\ Written \cup failedOpen \subseteq (Written \cup failedOpen)'
      BY <1>0, <3>1, Movements
    <3>3. pc'[Flusher] # "done"
      BY <2>2, <3>1 DEF FlusherPops
    <3> QED BY <1>1, <1>2, <2>0, <3>1, <3>2, <3>3, Zenon
  <2>3. CASE FlusherLocks
    <3>1. QuietStep /\ owed' = owed /\ pc' = pc /\ idle' = idle
      BY <2>3, Zenon DEF FlusherLocks, QuietStep
    <3>2. /\ pc'[Main] = pc[Main] /\ pc'[Dog] = pc[Dog]
          /\ pc'[Flusher] = "done" => pc[Flusher] = "done"
      BY <3>1
    <3> HIDE DEF InSight
    <3> QED BY <1>1, <1>2, <2>0, <2>q, <3>1, <3>2
  <2>4. CASE FlusherWrites
    <3>1. WriteStep(Flusher) /\ pc' = pc /\ owed' = owed /\ idle' = idle
      BY <2>4 DEF FlusherWrites, WriteStep
    <3>2. /\ owed \subseteq InSight => owed \subseteq InSight'
          /\ Written \cup failedOpen \subseteq (Written \cup failedOpen)'
      BY <3>1, Movements
    <3>3. /\ pc'[Main] = pc[Main] /\ pc'[Dog] = pc[Dog]
          /\ pc'[Flusher] = "done" => pc[Flusher] = "done"
      BY <3>1
    <3> HIDE DEF InSight
    <3> QED BY <1>1, <1>2, <2>0, <3>1, <3>2, <3>3
  <2>5. CASE BatchEnds
    <3>1. QuietStep /\ owed' = owed
      BY <2>5, Zenon DEF BatchEnds, QuietStep
    <3>2. /\ pc'[Main] = pc[Main] /\ pc'[Dog] = pc[Dog] /\ pc'[Flusher] # "done"
      BY <1>0, <2>5 DEF BatchEnds, Goto
    <3> QED BY <1>1, <1>2, <2>0, <2>q, <3>1, <3>2, Zenon
  <2>6. CASE DrainPopFails
    <3>1. QuietStep /\ owed' = owed /\ held[Flusher] = NoEntry
      BY <2>6, Zenon DEF DrainPopFails, QuietStep
    <3>2. /\ pc'[Main] = pc[Main] /\ pc'[Dog] = pc[Dog]
          /\ pc'[Flusher] = "done" => queue = <<>> \/ idle' = DrainTries
      BY <1>0, <2>6 DEF DrainPopFails, Goto
    <3> QED BY <1>1, <1>2, <2>0, <2>q, <3>1, <3>2, Zenon
  <2> QED BY <1>2, <2>1, <2>2, <2>3, <2>4, <2>5, <2>6, Zenon DEF FlushThread
<1>3. CASE StopLogger
  <2>1. /\ QuietStep /\ process' = "alive" /\ held' = held
        /\ owed' = Queued \cup ({held[Flusher]} \ {NoEntry})
    BY <1>3 DEF StopLogger, QuietStep, vars
  <2>2. pc'[Flusher] # "done"
    BY <1>0, <1>3 DEF StopLogger, Goto, ThreadsInv
  <2>3. owed' \subseteq InSight'
    BY <2>1, Movements
  <2> QED BY <2>1, <2>2, <2>3 DEF StopInv, StopSaves
<1>4. CASE DestroyLogger
  <2>1. WriteOutStep /\ process' = "closed" /\ owed' = owed /\ idle' = idle /\ pc' = pc
    BY <1>4, Zenon DEF DestroyLogger, WriteOutStep
  <2>2. idle < DrainTries /\ pc[Dog] = "idle" => owed \subseteq Written \cup failedOpen
    BY <1>4 DEF DestroyLogger, StopInv
  <2> QED BY <2>1, <2>2, Movements DEF StopInv, StopSaves
<1>5. CASE Crash
  BY <1>5 DEF Crash, StopInv, StopSaves
<1>6. ASSUME NEW p \in Producers, LogStep(p), process = "alive", process' = process,
             owed' = owed, idle' = idle,
             \A c \in {Flusher, Main} : pc'[c] = pc[c],
             pc'[Dog] = "idle" => pc[Dog] = "idle"
      PROVE  StopInv'
  <2>1. /\ InSight \subseteq InSight'
        /\ Written' = Written /\ failedOpen' = failedOpen
    BY <1>6, Movements
  <2> QED BY <1>6, <2>1 DEF StopInv, StopSaves
<1>7. ASSUME NEW p \in Producers, Logs(p) PROVE StopInv'
  <2>1. /\ LogStep(p) /\ process = "alive" /\ process' = process /\ owed' = owed
        /\ idle' = idle /\ pc' = pc
    BY <1>7, Zenon DEF Logs, LogStep
  <2> QED BY <1>6, <2>1, Zenon
<1>8. ASSUME NEW t \in Callers, LastLine(t) PROVE StopInv'
  <2>1. /\ LogStep(t) /\ t # Child /\ pc[t] = "idle" /\ MayRun(t)
        /\ process' = process /\ owed' = owed /\ idle' = idle /\ Goto(t, "logged")
    BY <1>8, Zenon DEF LastLine, LogsLastLine, LogStep
  <2>2. process = "alive" /\ t \in Producers
    BY <2>1 DEF MayRun
  <2>3. CASE t = Main
    BY <2>1, <2>2, <2>3, <1>0 DEF Goto, StopInv, StopSaves
  <2>4. CASE t # Main
    <3>1. /\ \A c \in {Flusher, Main} : pc'[c] = pc[c]
          /\ pc'[Dog] = "idle" => pc[Dog] = "idle"
      BY <2>1, <2>4, <1>0 DEF Goto
    <3> QED BY <1>6, <2>1, <2>2, <3>1, Zenon
  <2> QED BY <2>3, <2>4
<1>9. ASSUME NEW t \in Callers, FlushCall(t) PROVE StopInv'
  <2>0. MayRun(t) /\ process' = process
    BY <1>9 DEF FlushCall
  <2>1. pc[t] \in {"logged", "pop"} /\ pc'[t] \in {"pop", "flushed"}
    BY <1>0, <1>9 DEF FlushCall, FlushTriesLock, FlushStarts, FlushPops, FlushWrites,
      FlushEnds, Goto, ThreadsInv
  <2>2. process' # "closed"
    BY <2>0 DEF MayRun
  <2>3. ~ (process' = "alive" /\ pc'[Main] = "join" /\ pc'[Dog] = "idle")
    <3>1. CASE t = Child
      BY <2>0, <3>1 DEF MayRun
    <3>2. CASE t \in {Main, Dog}
      BY <2>1, <3>2
    <3> QED BY <3>1, <3>2 DEF Callers
  <2> QED BY <2>2, <2>3, Zenon DEF StopInv, StopSaves
<1>10. ASSUME NEW t \in Callers, ExitAfterFlush(t) PROVE StopInv'
  BY <1>10 DEF ExitAfterFlush, StopInv, StopSaves
<1> QED BY <1>2, <1>3, <1>4, <1>5, <1>7, <1>8, <1>9, <1>10, Zenon DEF LoggerNext

(* What the child found stays in its sight, and its last pop fails only on  *)
(* an empty ring or on an entry that is still being written.                *)
LEMMA ChildKept ==
  ASSUME LoggerTypeOK, LinesInv, PlacesInv, ThreadsInv, ChildInv, LoggerNext
  PROVE  ChildInv'
<1> USE ThreadNames
<1>0. /\ TypeOK /\ owed \subseteq Entry /\ NoEntry \notin Entry
      /\ pc \in [Consumers -> {"loop", "batch", "drain", "done", "idle", "logged",
                               "pop", "flushed", "join"}]
  BY PlacedEntries, Zenon DEF LoggerTypeOK
<1>1. ASSUME pc'[Child] \in {"idle", "logged"}
      PROVE  ChildInv'
  BY <1>1 DEF ChildInv
<1>2. ASSUME process = "alive"
      PROVE  pc'[Child] \in {"idle", "logged"}
  <2>0. pc[Child] = "idle"
    BY <1>2 DEF ThreadsInv
  <2>1. ASSUME NEW c \in Consumers, NEW place, Goto(c, place), c # Child
        PROVE  pc'[Child] = pc[Child]
    BY <2>1, <1>0 DEF Goto
  <2>2. CASE FlushThread
    <3>1. pc' = pc \/ \E place : Goto(Flusher, place)
      BY <2>2, Zenon DEF FlushThread, FlusherChecksRunning, FlusherPops, FlusherLocks,
        FlusherWrites, BatchEnds, DrainPopFails
    <3> QED BY <2>0, <2>1, <3>1
  <2>3. CASE StopLogger
    BY <2>0, <2>1, <2>3 DEF StopLogger
  <2>4. CASE DestroyLogger
    BY <2>0, <2>4 DEF DestroyLogger
  <2>5. CASE Crash
    BY <1>0, <2>5 DEF Crash, Goto
  <2>6. ASSUME NEW p \in Producers, Logs(p) PROVE pc'[Child] = pc[Child]
    BY <2>6 DEF Logs
  <2>7. ASSUME NEW t \in Callers, LastLine(t) PROVE pc'[Child] = pc[Child]
    BY <2>1, <2>7 DEF LastLine, LogsLastLine
  <2>8. ASSUME NEW t \in Callers, FlushCall(t) PROVE pc'[Child] = pc[Child]
    <3>1. t # Child
      BY <1>2, <2>8 DEF FlushCall, MayRun
    <3>2. pc' = pc \/ \E place : Goto(t, place)
      BY <2>8, Zenon DEF FlushCall, FlushTriesLock, FlushPops, FlushWrites, FlushEnds
    <3> QED BY <2>1, <3>1, <3>2
  <2>9. ASSUME NEW t \in Callers, ExitAfterFlush(t) PROVE pc'[Child] = pc[Child]
    BY <2>9 DEF ExitAfterFlush
  <2> QED BY <2>0, <2>2, <2>3, <2>4, <2>5, <2>6, <2>7, <2>8, <2>9 DEF LoggerNext
<1>3. ASSUME process # "alive"
      PROVE  process = "crashed" /\ (FlushCall(Child) \/ ExitAfterFlush(Child))
  BY <1>3, Zenon DEF LoggerNext, FlushThread, StopLogger, DestroyLogger, Crash, Logs,
    LastLine, LogsLastLine, FlushCall, ExitAfterFlush, MayRun
<1>4. CASE process = "crashed" /\ ExitAfterFlush(Child)
  <2>1. QuietStep /\ pc' = pc /\ fileMtx' = fileMtx /\ owed' = owed /\ popMtxLost' = popMtxLost
    BY <1>4, Zenon DEF ExitAfterFlush, QuietStep
  <2>2. pc[Child] = "flushed" /\ queue' = queue
    BY <1>4 DEF ExitAfterFlush, vars
  <2>3. Saved' = Saved /\ failedOpen' = failedOpen
    BY <2>1, Movements
  <2> QED BY <2>1, <2>2, <2>3 DEF ChildInv, FrontReady
<1>5. CASE process = "crashed" /\ FlushCall(Child)
  <2>0. popMtxLost' = popMtxLost
    BY <1>5 DEF FlushCall
  <2>1. CASE FlushTriesLock(Child)
    <3>1. QuietStep /\ owed' = Queued /\ held' = held
      BY <2>1 DEF FlushTriesLock, FlushStarts, QuietStep, vars
    <3>2. pc'[Child] = "pop"
      BY <1>0, <2>1 DEF FlushTriesLock, Goto
    <3> QED BY <3>1, <3>2, Movements DEF ChildInv
  <2>2. CASE FlushPops(Child)
    <3>1. /\ PopStep(Child) /\ pc' = pc /\ owed' = owed /\ fileMtx' = fileMtx
          /\ pc[Child] = "pop" /\ held[Child] = NoEntry
      BY <2>2 DEF FlushPops, PopStep, Take
    <3>2. /\ Queued \subseteq Queued' \cup {held'[Child]}
          /\ Written' = Written /\ Saved' = Saved /\ failedOpen' = failedOpen
      BY <3>1, Movements
    <3> QED BY <1>0, <3>1, <3>2 DEF ChildInv
  <2>3. CASE FlushWrites(Child)
    <3>1. pc[Child] = "pop" /\ pc' = pc /\ owed' = owed /\ fileMtx' = fileMtx
      BY <2>3 DEF FlushWrites, ThreadsInv
    <3>2. CASE fileMtx = Child
      <4>1. WriteStep(Child)
        BY <2>3, <3>2, Zenon DEF FlushWrites, WriteStep
      <4>2. /\ held[Child] \in Written' \cup failedOpen' /\ Queued' = Queued
            /\ Written \subseteq Written' /\ failedOpen \subseteq failedOpen'
        BY <4>1, Movements
      <4> QED BY <3>1, <3>2, <4>2 DEF ChildInv
    <3>3. CASE fileMtx # Child
      <4>1. SidecarStep(Child)
        BY <2>3, <3>3, Zenon DEF FlushWrites, SidecarStep
      <4>2. /\ held[Child] \in Saved' /\ Queued' = Queued /\ failedOpen' = failedOpen
            /\ Written \subseteq Written' /\ Saved \subseteq Saved'
        BY <4>1, Movements
      <4>3. Saved' \subseteq Written'
        BY DEF Written
      <4> QED BY <3>1, <3>3, <4>2, <4>3 DEF ChildInv
    <3> QED BY <3>2, <3>3
  <2>4. CASE FlushEnds(Child)
    <3>1. /\ pc[Child] = "pop" /\ held[Child] = NoEntry /\ PopFails(Child)
          /\ owed' = owed /\ queue' = queue
      BY <2>4 DEF FlushEnds, vars
    <3>2. pc'[Child] = "flushed"
      BY <1>0, <2>4 DEF FlushEnds, Goto
    <3>3. /\ failedOpen' = failedOpen
          /\ owed \subseteq Saved' \cup failedOpen \cup Queued
      <4>1. CASE fileMtx = Child
        <5>1. WriteOutStep
          BY <2>4, <4>1, Zenon DEF FlushEnds, WriteOutStep
        <5> QED BY <1>0, <3>1, <5>1, Movements DEF ChildInv
      <4>2. CASE fileMtx # Child
        <5>1. QuietStep
          BY <2>4, <4>2, Zenon DEF FlushEnds, fileVars, QuietStep
        <5> QED BY <1>0, <3>1, <4>2, <5>1, Movements DEF ChildInv
      <4> QED BY <4>1, <4>2
    <3>4. ~ popMtxLost => ~ FrontReady
      BY <1>5, <3>1 DEF PopFails
    <3>5. queue = <<>> => Queued = {}
      BY DEF Queued
    <3> QED BY <2>0, <3>1, <3>2, <3>3, <3>4, <3>5 DEF ChildInv, FrontReady
  <2> QED BY <1>5, <2>1, <2>2, <2>3, <2>4, Zenon DEF FlushCall
<1> QED BY <1>1, <1>2, <1>3, <1>4, <1>5

-----------------------------------------------------------------------------
(* The theorems. *)

(* The invariant holds when the logger starts.                              *)
LEMMA LoggerStarts == LoggerInit => LoggerInv
<1> SUFFICES ASSUME LoggerInit PROVE LoggerInv
  OBVIOUS
<1> USE ThreadNames, FewLines
<1>1. TypeOK
  BY LogQueueAssumption DEF LoggerInit, Init, TypeOK
<1>2. ThreadsTypeOK
  BY DEF LoggerInit, ThreadsTypeOK, DrainTries
<1>3. FlagsTypeOK
  BY Zenon DEF LoggerInit, FlagsTypeOK
<1>4. FilesTypeOK
  BY LoggerAssumption DEF LoggerInit, FilesTypeOK
<1>5. LoggerTypeOK
  BY <1>1, <1>2, <1>3, <1>4, Zenon DEF LoggerTypeOK, ThreadsTypeOK, FlagsTypeOK, FilesTypeOK
<1>6. /\ queue = <<>> /\ \A c \in Consumers : held[c] = NoEntry
      /\ disk = <<>> /\ buffer = <<>> /\ sidecar = <<>> /\ running /\ idle = 0
      /\ process = "alive"
      /\ pc[Flusher] = "loop" /\ \A t \in Callers : pc[t] = "idle"
  BY DEF LoggerInit, Init
<1>7. Queued = {} /\ InHand = {} /\ Written = {}
  BY <1>6 DEF Queued, InHand, Written, Saved, Buffered
<1>8. LinesInv /\ PlacesInv
  BY <1>6, <1>7 DEF LinesInv, PlacesInv, Buffered, QueuedOnce
<1>9. ThreadsInv /\ StopInv /\ ChildInv
  BY <1>6 DEF ThreadsInv, StopInv, StopSaves, ChildInv, DrainTries
<1> QED BY <1>5, <1>8, <1>9 DEF LoggerInv

(* Every step of the logger keeps it.                                       *)
LEMMA LoggerStep == LoggerInv /\ [LoggerNext]_allVars => LoggerInv'
<1>1. ASSUME LoggerInv, LoggerNext PROVE LoggerInv'
  <2>0. LoggerTypeOK /\ LinesInv /\ PlacesInv /\ ThreadsInv /\ StopInv /\ ChildInv
    BY <1>1 DEF LoggerInv
  <2>1. TypeOK' /\ FilesTypeOK' /\ LinesInv' /\ PlacesInv'
    BY <1>1, <2>0, StepKinds, DataKept
  <2>2. ThreadsTypeOK' /\ ThreadsInv'
    BY <1>1, <2>0, ThreadsKept
  <2>3. FlagsTypeOK'
    <3>1. FlagsTypeOK
      BY <2>0, Zenon DEF LoggerTypeOK, FlagsTypeOK
    <3> QED BY <1>1, <3>1, FlagsKept
  <2>4. LoggerTypeOK'
    BY <2>1, <2>2, <2>3, Zenon DEF LoggerTypeOK, ThreadsTypeOK, FlagsTypeOK, FilesTypeOK
  <2>5. StopInv' /\ ChildInv'
    BY <1>1, <2>0, StopKept, ChildKept
  <2> QED BY <2>1, <2>2, <2>4, <2>5 DEF LoggerInv
<1>2. ASSUME LoggerInv, UNCHANGED allVars PROVE LoggerInv'
  <2>0. LoggerTypeOK /\ LinesInv /\ PlacesInv /\ ThreadsInv /\ StopInv /\ ChildInv
    BY <1>2 DEF LoggerInv
  <2>1. /\ UNCHANGED vars /\ UNCHANGED fileVars
        /\ UNCHANGED <<disk, buffer, sidecar>>
        /\ UNCHANGED <<pc, fileMtx, running, idle, process, popMtxLost, lockers, owed>>
    BY <1>2 DEF allVars, fileVars
  <2>2. QuietStep
    BY <2>1 DEF QuietStep
  <2>3. TypeOK' /\ FilesTypeOK' /\ LinesInv' /\ PlacesInv'
    BY <2>0, <2>2, DataKept DEF DataStep
  <2>4. LoggerTypeOK'
    BY <2>0, <2>1, <2>3, Zenon DEF LoggerTypeOK, FilesTypeOK, fileVars
  <2>5. ThreadsInv'
    BY <2>0, <2>1 DEF ThreadsInv, vars
  <2>6. Saved' = Saved /\ Written' = Written /\ Queued' = Queued
    BY <2>0, <2>2, Movements
  <2>7. StopInv' /\ ChildInv'
    BY <2>0, <2>1, <2>6 DEF StopInv, StopSaves, ChildInv, FrontReady, vars, fileVars
  <2> QED BY <2>3, <2>4, <2>5, <2>7 DEF LoggerInv
<1> QED BY <1>1, <1>2

(* The invariant of the logger. *)
THEOREM LoggerInvariant == LoggerSpec => []LoggerInv
  BY LoggerStarts, LoggerStep, PTL DEF LoggerSpec

(* No log entry is written twice, whichever of the flush thread, the        *)
(* exiting main thread, the watchdog thread and the child of the crash      *)
(* handler pops it, and whether it goes to the log file or to the sidecar.  *)
THEOREM EachWrittenOnce == LoggerSpec => []WrittenOnce
<1>1. LoggerInv => WrittenOnce
  <2> SUFFICES ASSUME LoggerInv PROVE WrittenOnce
    OBVIOUS
  <2>1. disk \in Seq(Entry) /\ buffer \in Seq(Entry) /\ sidecar \in Seq(Entry)
    BY DEF LoggerInv, LoggerTypeOK
  <2>2. /\ disk \o buffer \in Seq(Entry) /\ Once(disk \o buffer)
        /\ SeqRange(disk \o buffer) = SeqRange(disk) \cup SeqRange(buffer)
    BY <2>1, JoinedLines DEF LoggerInv, LinesInv, Buffered
  <2>3. Once((disk \o buffer) \o sidecar)
    <3>1. SeqRange(disk \o buffer) \cap SeqRange(sidecar) = {}
      BY <2>2 DEF LoggerInv, LinesInv, Buffered
    <3> QED BY <2>1, <2>2, <3>1, JoinedLines DEF LoggerInv, LinesInv
  <2> QED BY <2>3, Zenon DEF WrittenOnce, Once
<1> QED BY <1>1, LoggerInvariant, PTL

(* logger_stop and logger_destroy save what was in the ring and in the      *)
(* flush thread's hands when logger_stop was called.                        *)
THEOREM StopSavesAll == LoggerSpec => []StopSaves
<1>1. LoggerInv => StopSaves
  BY DEF LoggerInv, StopInv
<1> QED BY <1>1, LoggerInvariant, PTL

(* The child of the crash handler saves what it finds in the ring, up to    *)
(* the first entry whose producer did not finish.                           *)
THEOREM CrashSavesAll == LoggerSpec => []CrashSaves
<1>1. LoggerInv => CrashSaves
  BY DEF LoggerInv, ChildInv, CrashSaves
<1> QED BY <1>1, LoggerInvariant, PTL

(* The threads of the logger use the ring as the queue it is: each of their *)
(* steps is a step of LogQueue or leaves the queue alone.                   *)
THEOREM LoggerUsesQueue == LoggerSpec => Spec
<1>1. LoggerInit => Init
  BY DEF LoggerInit
<1>2. ASSUME LoggerNext PROVE [Next]_vars
  <2>1. DataStep
    BY <1>2, StepKinds
  <2> QED BY <2>1, Zenon DEF DataStep, LogStep, PopStep, WriteStep, SidecarStep,
         WriteOutStep, QuietStep, Next
<1>3. UNCHANGED allVars => UNCHANGED vars
  BY DEF allVars
<1> QED BY <1>1, <1>2, <1>3, PTL DEF LoggerSpec, Spec

-----------------------------------------------------------------------------
(* The order of the lines in the log files. *)

(* The lines are entries, in the files and on their way there.              *)
LEMMA LogLinesType ==
  ASSUME LoggerTypeOK
  PROVE  /\ LogLines \in Seq(Entry)
         /\ DOMAIN LogLines = 1 .. Len(LogLines) /\ Len(LogLines) \in Nat
         /\ SeqRange(LogLines) = SeqRange(disk) \cup Buffered
<1>1. disk \in Seq(Entry) /\ buffer \in Seq(Entry)
  BY DEF LoggerTypeOK
<1>2. LogLines \in Seq(Entry) /\ SeqRange(LogLines) = SeqRange(disk) \cup Buffered
  BY <1>1, JoinedLines DEF LogLines, Buffered
<1> QED BY <1>2

(* write_entry_to_file puts its line behind the others, or loses it.        *)
LEMMA LineAtTheEnd ==
  ASSUME LoggerTypeOK, NEW e \in Entry, WriteEntry(e)
  PROVE  LogLines' = Append(LogLines, e) \/ LogLines' = LogLines
<1>0. /\ disk \in Seq(Entry) /\ buffer \in Seq(Entry) /\ <<e>> \in Seq(Entry)
      /\ disk \o buffer \in Seq(Entry) /\ Append(buffer, e) \in Seq(Entry)
  BY FewLines, ConcatProperties DEF LoggerTypeOK
<1>1. Append(disk \o buffer, e) = (disk \o buffer) \o <<e>>
  BY <1>0, AppendIsConcat
<1>2. (disk \o buffer) \o <<e>> = disk \o (buffer \o <<e>>)
  BY <1>0, ConcatAssociative
<1>3. Append(buffer, e) = buffer \o <<e>>
  BY <1>0, AppendIsConcat
<1>4. (disk \o buffer) \o <<>> = disk \o buffer
  BY <1>0, ConcatEmptySeq
<1>5. CASE disk' = disk \o buffer /\ buffer' = <<e>>
  BY <1>1, <1>5 DEF LogLines
<1>6. CASE disk' = disk /\ buffer' = Append(buffer, e)
  BY <1>1, <1>2, <1>3, <1>6 DEF LogLines
<1>7. CASE disk' = disk \o buffer /\ buffer' = <<>>
  BY <1>4, <1>7 DEF LogLines
<1> QED BY <1>5, <1>6, <1>7, Zenon
        DEF WriteEntry, BufferedWrite, ReopenAndWrite, OpenFails

(* fflush and fclose change no order.                                       *)
LEMMA LinesWrittenOut ==
  ASSUME LoggerTypeOK, WriteOut
  PROVE  LogLines' = LogLines
<1>1. disk \o buffer \in Seq(Entry)
  BY ConcatProperties DEF LoggerTypeOK
<1>2. (disk \o buffer) \o <<>> = disk \o buffer
  BY <1>1, ConcatEmptySeq
<1> QED BY <1>2 DEF LogLines, WriteOut

(* One more line is late when a later entry of its thread stands before it, *)
(* and makes no other line late.                                            *)
LEMMA OneMoreLate ==
  ASSUME NEW s \in Seq(Entry), NEW e \in Entry
  PROVE  /\ IsFiniteSet(LateLines(s)) /\ Cardinality(LateLines(s)) \in Nat
         /\ Cardinality(LateLines(Append(s, e))) \in Nat
         /\ Cardinality(LateLines(Append(s, e))) <= Cardinality(LateLines(s)) + 1
         /\ (\A i \in DOMAIN s : ~ Precedes(e, s[i])) =>
              LateLines(Append(s, e)) = LateLines(s)
<1>1. PICK n \in Nat : n = Len(s)
  OBVIOUS
<1>2. /\ DOMAIN s = 1 .. n /\ DOMAIN Append(s, e) = 1 .. (n + 1)
      /\ \A i \in 1 .. n : Append(s, e)[i] = s[i]
      /\ Append(s, e)[n + 1] = e
  BY <1>1
<1> DEFINE t == Append(s, e)
<1>3. IsFiniteSet(LateLines(s)) /\ Cardinality(LateLines(s)) \in Nat
  <2>1. IsFiniteSet(1 .. n)
    BY FS_Interval
  <2>2. LateLines(s) \subseteq 1 .. n
    BY <1>2 DEF LateLines
  <2>3. IsFiniteSet(LateLines(s))
    BY <2>1, <2>2, FS_Subset
  <2> QED BY <2>3, FS_CardinalityType
<1>4. \A i \in 1 .. n : i \in LateLines(t) <=> i \in LateLines(s)
  <2> SUFFICES ASSUME NEW i \in 1 .. n
               PROVE  i \in LateLines(t) <=> i \in LateLines(s)
    OBVIOUS
  <2>1. i \in 1 .. (n + 1) /\ \A j \in 1 .. (i - 1) : t[j] = s[j]
    BY <1>2
  <2>2. t[i] = s[i]
    BY <1>2
  <2> HIDE DEF t
  <2> QED BY <1>2, <2>1, <2>2, Zenon DEF LateLines, t
<1>5. n + 1 \in LateLines(t) <=> \E j \in 1 .. n : Precedes(e, s[j])
  <2>1. (n + 1) - 1 = n /\ n + 1 \in 1 .. (n + 1)
    OBVIOUS
  <2>2. n + 1 \in LateLines(t) <=>
          \E j \in 1 .. n : t[j][1] = t[n + 1][1] /\ t[j][2] > t[n + 1][2]
    BY <1>2, <2>1 DEF LateLines
  <2>3. \A j \in 1 .. n : s[j][2] > e[2] <=> e[2] < s[j][2]
    OBVIOUS
  <2> QED BY <1>2, <2>2, <2>3 DEF Precedes
<1>6. LateLines(t) \subseteq 1 .. (n + 1) /\ 1 .. (n + 1) = (1 .. n) \cup {n + 1}
      /\ LateLines(s) \subseteq 1 .. n
  BY <1>2 DEF LateLines
<1> HIDE DEF t
<1>7. LateLines(t) = LateLines(s) \/ LateLines(t) = LateLines(s) \cup {n + 1}
  BY <1>4, <1>6, Zenon
<1>8. (\A i \in 1 .. n : ~ Precedes(e, s[i])) => LateLines(t) = LateLines(s)
  <2> SUFFICES ASSUME \A i \in 1 .. n : ~ Precedes(e, s[i])
               PROVE  LateLines(t) = LateLines(s)
    OBVIOUS
  <2>1. n + 1 \notin LateLines(t)
    BY <1>5
  <2> QED BY <1>4, <1>6, <2>1, Zenon
<1>9. ASSUME NEW S, NEW T, IsFiniteSet(S), T = S \/ T = S \cup {n + 1}
      PROVE  Cardinality(T) \in Nat /\ Cardinality(T) <= Cardinality(S) + 1
  <2>1. Cardinality(S) \in Nat
    BY <1>9, FS_CardinalityType
  <2>2. Cardinality(T) = Cardinality(S) \/ Cardinality(T) = Cardinality(S) + 1
    BY <1>9, FS_AddElement, Zenon
  <2> QED BY <2>1, <2>2
<1>10. /\ Cardinality(LateLines(t)) \in Nat
       /\ Cardinality(LateLines(t)) <= Cardinality(LateLines(s)) + 1
  BY <1>3, <1>7, <1>9, Zenon
<1> QED BY <1>2, <1>3, <1>8, <1>10 DEF t

(* The ring gives out each thread's entries in the order of its calls.      *)
LEMMA PopOrderKept ==
  ASSUME LoggerTypeOK, LinesInv, PlacesInv, PopOrder, DataStep
  PROVE  PopOrder'
<1>0. /\ TypeOK /\ QueuedOnce
      /\ \A c \in Consumers : held[c] \notin Written /\ held[c] \in Entry \cup {NoEntry}
      /\ \A e \in Written \cup Queued \cup InHand : e \in Entry /\ e[2] < count[e[1]]
  BY PlacedEntries, Zenon DEF LoggerTypeOK, PlacesInv, TypeOK
<1>1. PICK n \in Nat : n = Len(queue) /\ DOMAIN queue = 1 .. n
  BY <1>0, QueueFacts
<1>2. \A i \in 1 .. n : queue[i].entry \in Queued
  BY <1>1 DEF Queued
<1>3. ASSUME Queued' = Queued, Written' \cup InHand' \subseteq Written \cup InHand,
             DOMAIN queue' = 1 .. n,
             \A i \in 1 .. n : queue'[i].entry = queue[i].entry
      PROVE  PopOrder'
  BY <1>1, <1>3 DEF PopOrder
<1>4. ASSUME UNCHANGED <<fileVars, sidecar>>
      PROVE  Written' = Written
  BY <1>4, SameLines DEF fileVars
<1>5. ASSUME queue' = queue
      PROVE  /\ Queued' = Queued /\ DOMAIN queue' = 1 .. n
             /\ \A i \in 1 .. n : queue'[i].entry = queue[i].entry
  BY <1>1, <1>5 DEF Queued
<1>6. ASSUME NEW p \in Producers, LogStep(p)
      PROVE  PopOrder'
  <2>0. Written' = Written /\ InHand' = InHand
    BY <1>0, <1>4, <1>6, Hands DEF LogStep, InHand
  <2>1. CASE Claim(p)
    <3> DEFINE e == <<p, count[p]>>
    <3>1. \A f \in Written \cup Queued \cup InHand : ~ Precedes(e, f)
      <4>1. ASSUME NEW f \in Written \cup Queued \cup InHand, e[1] = f[1], e[2] < f[2]
            PROVE  FALSE
        <5>1. f[2] < count[p] /\ count[p] < f[2] /\ f[2] \in Nat /\ count[p] \in Nat
          BY <4>1, <1>0 DEF TypeOK, Entry
        <5> QED BY <5>1
      <4> QED BY <4>1, Zenon DEF Precedes
    <3>2. e \notin Queued
      <4>1. e \in Queued => count[p] < count[p]
        BY <1>0
      <4> QED BY <4>1, <1>0 DEF TypeOK
    <3>3. Queued' = Queued \cup {e}
      BY <1>0, <2>1, <3>2, ClaimAdds
    <3>4. /\ DOMAIN queue' = 1 .. (n + 1) /\ queue'[n + 1].entry = e
          /\ \A i \in 1 .. n : queue'[i] = queue[i]
      BY <1>0, <1>1, <2>1 DEF Claim, TypeOK
    <3> HIDE DEF e
    <3>5. ASSUME NEW i \in 1 .. (n + 1), NEW j \in 1 .. (n + 1), i < j
          PROVE  ~ Precedes(queue'[j].entry, queue'[i].entry)
      <4>1. i \in 1 .. n /\ (j \in 1 .. n \/ j = n + 1)
        BY <3>5
      <4> QED BY <4>1, <3>1, <3>4, <3>5, <1>1, <1>2 DEF PopOrder
    <3>6. ASSUME NEW g \in Written' \cup InHand', NEW f \in Queued'
          PROVE  ~ Precedes(f, g)
      BY <2>0, <3>1, <3>3, <3>6, Zenon DEF PopOrder
    <3> QED BY <3>4, <3>5, <3>6, Zenon DEF PopOrder
  <2>2. CASE Drop(p)
    BY <1>3, <1>5, <2>0, <2>2 DEF Drop
  <2>3. CASE Publish(p)
    <3>1. PICK i \in DOMAIN queue : queue' = [queue EXCEPT ![i].published = TRUE]
      BY <2>3 DEF Publish
    <3>2. DOMAIN queue' = 1 .. n /\ \A j \in 1 .. n : queue'[j].entry = queue[j].entry
      BY <1>0, <1>1, <3>1, QueueFacts DEF Place
    <3>3. Queued' = Queued
      BY <1>0, <2>3, PublishKeeps
    <3> QED BY <1>3, <2>0, <3>2, <3>3
  <2> QED BY <1>6, <2>1, <2>2, <2>3 DEF LogStep
<1>7. ASSUME NEW c \in Consumers, PopStep(c)
      PROVE  PopOrder'
  <2>0. Take(c) /\ Written' = Written
    BY <1>4, <1>7 DEF PopStep
  <2>1. n >= 1 /\ queue # <<>>
    BY <1>0, <1>1, <2>0 DEF Take, TypeOK
  <2>2. /\ DOMAIN queue' = 1 .. (n - 1) /\ held'[c] = queue[1].entry
        /\ \A i \in 1 .. (n - 1) : queue'[i] = queue[i + 1]
    BY <1>0, <1>1, <2>0, <2>1 DEF Take, TypeOK
  <2>3. /\ Queued' = Queued \ {held'[c]}
        /\ \A d \in Consumers \ {c} : held'[d] = held[d]
    BY <1>0, <2>0, TakeRemoves
  <2>4. InHand' \subseteq InHand \cup {held'[c]}
    BY <2>3 DEF InHand
  <2>5. ASSUME NEW i \in 1 .. (n - 1), NEW j \in 1 .. (n - 1), i < j
        PROVE  ~ Precedes(queue'[j].entry, queue'[i].entry)
    <3>1. i + 1 \in 1 .. n /\ j + 1 \in 1 .. n /\ i + 1 < j + 1
      BY <2>5
    <3>2. ~ Precedes(queue[j + 1].entry, queue[i + 1].entry)
      BY <1>1, <3>1, Zenon DEF PopOrder
    <3> QED BY <2>2, <3>2
  <2>6. ASSUME NEW f \in Queued'
        PROVE  ~ Precedes(f, held'[c])
    <3>1. PICK i \in 1 .. n : f = queue[i].entry /\ i # 1
      BY <2>2, <2>3, <2>6, <1>1 DEF Queued
    <3>2. 1 \in 1 .. n /\ 1 < i
      BY <2>1, <3>1
    <3> QED BY <1>1, <2>2, <3>1, <3>2, Zenon DEF PopOrder
  <2>7. ASSUME NEW g \in Written' \cup InHand', NEW f \in Queued'
        PROVE  ~ Precedes(f, g)
    BY <2>0, <2>3, <2>4, <2>6, <2>7, Zenon DEF PopOrder
  <2> QED BY <2>2, <2>5, <2>7, Zenon DEF PopOrder
<1>8. ASSUME NEW c \in Consumers, WriteStep(c) \/ SidecarStep(c)
      PROVE  PopOrder'
  <2>0. Release(c) /\ held[c] \in Entry /\ held[c] \in InHand /\ queue' = queue
    BY <1>0, <1>8 DEF WriteStep, SidecarStep, Release, InHand
  <2>1. Written' \subseteq Written \cup {held[c]}
    <3>1. CASE WriteStep(c)
      BY <1>0, <2>0, <3>1, WriteAdds DEF WriteStep
    <3>2. CASE SidecarStep(c)
      BY <1>0, <2>0, <3>2, SidecarAdds DEF SidecarStep, fileVars
    <3> QED BY <1>8, <3>1, <3>2
  <2>2. InHand' \subseteq InHand
    BY <1>0, <2>0, Hands DEF InHand
  <2> QED BY <1>3, <1>5, <2>0, <2>1, <2>2
<1>9. ASSUME WriteOutStep \/ QuietStep
      PROVE  PopOrder'
  <2>1. queue' = queue /\ held' = held
    BY <1>9 DEF WriteOutStep, QuietStep, vars
  <2>2. Written' = Written
    BY <1>4, <1>9, WriteOutSaves DEF WriteOutStep, QuietStep
  <2> QED BY <1>3, <1>5, <2>1, <2>2 DEF InHand
<1> QED BY <1>6, <1>7, <1>8, <1>9, Zenon DEF DataStep

(* The numbers that LateCount compares.                                     *)
LEMMA LateNumbers ==
  ASSUME LoggerTypeOK
  PROVE  /\ IsFiniteSet(lockers) /\ Cardinality(lockers) \in Nat
         /\ Cardinality(LateLines(LogLines)) \in Nat
         /\ \A e \in Entry : LogLines' = Append(LogLines, e) =>
              /\ Cardinality(LateLines(LogLines))' \in Nat
              /\ Cardinality(LateLines(LogLines))' <= Cardinality(LateLines(LogLines)) + 1
              /\ ~ Overtaken(e) =>
                   Cardinality(LateLines(LogLines))' = Cardinality(LateLines(LogLines))
<1>1. IsFiniteSet(lockers) /\ Cardinality(lockers) \in Nat
  <2>1. IsFiniteSet({Main, Dog, Child})
    <3>1. IsFiniteSet({} \cup {Main})
      BY FS_EmptySet, FS_AddElement
    <3>2. IsFiniteSet(({} \cup {Main}) \cup {Dog})
      BY <3>1, FS_AddElement
    <3>3. IsFiniteSet((({} \cup {Main}) \cup {Dog}) \cup {Child})
      BY <3>2, FS_AddElement
    <3>4. {Main, Dog, Child} = (({} \cup {Main}) \cup {Dog}) \cup {Child}
      OBVIOUS
    <3> QED BY <3>3, <3>4
  <2>2. lockers \subseteq {Main, Dog, Child}
    BY DEF LoggerTypeOK, Callers
  <2>3. IsFiniteSet(lockers)
    BY <2>1, <2>2, FS_Subset
  <2> QED BY <2>3, FS_CardinalityType
<1>2. ASSUME NEW e \in Entry, LogLines' = Append(LogLines, e)
      PROVE  /\ Cardinality(LateLines(LogLines))' \in Nat
             /\ Cardinality(LateLines(LogLines))' <= Cardinality(LateLines(LogLines)) + 1
             /\ ~ Overtaken(e) =>
                  Cardinality(LateLines(LogLines))' = Cardinality(LateLines(LogLines))
  <2>1. LateLines(LogLines)' = LateLines(Append(LogLines, e))
    BY <1>2, Zenon DEF LateLines
  <2>2. e # NoEntry
    BY PlacedEntries
  <2> QED BY <2>1, <2>2, LogLinesType, OneMoreLate, Zenon DEF Overtaken
<1>3. Cardinality(LateLines(LogLines)) \in Nat
  <2>1. IsFiniteSet(1 .. Len(LogLines))
    BY LogLinesType, FS_Interval
  <2>2. LateLines(LogLines) \subseteq 1 .. Len(LogLines)
    BY LogLinesType DEF LateLines
  <2> QED BY <2>1, <2>2, FS_Subset, FS_CardinalityType
<1> QED BY <1>1, <1>2, <1>3

(* Who is overtaken stays so, and nobody else is, while the files keep their *)
(* lines.                                                                  *)
LEMMA OvertakenStays ==
  ASSUME LogLines' = LogLines
  PROVE  /\ Cardinality(LateLines(LogLines))' = Cardinality(LateLines(LogLines))
         /\ \A c \in Consumers : held'[c] = held[c] =>
              (Overtaken(held[c])' <=> Overtaken(held[c]))
         /\ \A c \in Consumers : held'[c] = NoEntry => ~ Overtaken(held[c])'
<1>1. LateLines(LogLines)' = LateLines(LogLines)
  BY Zenon DEF LateLines
<1>2. \A c \in Consumers : held'[c] = held[c] =>
        (Overtaken(held[c])' <=> Overtaken(held[c]))
  BY Zenon DEF Overtaken
<1>3. \A c \in Consumers : held'[c] = NoEntry => ~ Overtaken(held[c])'
  BY DEF Overtaken
<1> QED BY <1>1, <1>2, <1>3

(* Steps that take nothing out of the ring and write nothing.               *)
LEMMA LateQuiet ==
  ASSUME LockersInv, LateCount, LogLines' = LogLines, lockers' = lockers,
         \A c \in Consumers : held'[c] = held[c],
         fileMtx' = fileMtx \/ fileMtx' \notin Callers,
         \A t \in Callers : pc'[t] \in {"idle", "logged"} => pc[t] \in {"idle", "logged"},
         \A t \in Callers : fileMtx' = t => pc'[t] = pc[t],
         LoggerTypeOK
  PROVE  LockersInv' /\ LateCount'
<1> USE ThreadNames
<1>1. LockersInv'
  <2> SUFFICES ASSUME NEW t \in Callers
               PROVE  /\ fileMtx' = t => pc'[t] = "pop" /\ ~ Overtaken(held[t])'
                      /\ pc'[t] \in {"idle", "logged"} => t \notin lockers'
    BY DEF LockersInv
  <2>1. Overtaken(held[t])' <=> Overtaken(held[t])
    BY OvertakenStays
  <2>2. fileMtx' = t => fileMtx = t
    OBVIOUS
  <2> QED BY <2>1, <2>2 DEF LockersInv
<1>2. LateCount'
  <2>1. /\ Cardinality(LateLines(LogLines))' = Cardinality(LateLines(LogLines))
        /\ Overtaken(held[Flusher])' <=> Overtaken(held[Flusher])
    BY OvertakenStays
  <2>2. Cardinality(LateLines(LogLines)) \in Nat /\ Cardinality(lockers) \in Nat
    BY LateNumbers
  <2>3. Cardinality(lockers)' = Cardinality(lockers)
    OBVIOUS
  <2> DEFINE L == Cardinality(LateLines(LogLines))
             K == Cardinality(lockers)
  <2>4. L + (IF fileMtx \in Callers \/ Overtaken(held[Flusher]) THEN 1 ELSE 0) <= K
    BY DEF LateCount
  <2>5. L \in Nat /\ K \in Nat /\ L' = L /\ K' = K
    BY <2>1, <2>2, <2>3
  <2> HIDE DEF L, K
  <2>6. L' + (IF fileMtx' \in Callers \/ Overtaken(held[Flusher])' THEN 1 ELSE 0) <= K'
    BY <2>1, <2>4, <2>5
  <2> QED BY <2>6 DEF LateCount, L, K
<1> QED BY <1>1, <1>2

(* A step that pops, by whoever pops: what it pops is not overtaken.        *)
LEMMA LatePop ==
  ASSUME LoggerTypeOK, LinesInv, PlacesInv, PopOrder, LockersInv, LateCount,
         NEW c \in Consumers, PopStep(c), UNCHANGED <<pc, fileMtx, lockers>>
  PROVE  LockersInv' /\ LateCount'
<1> USE ThreadNames
<1>0. TypeOK /\ QueuedOnce /\ LogLines' = LogLines
  BY DEF LoggerTypeOK, PlacesInv, PopStep, fileVars, LogLines
<1>1. /\ held[c] = NoEntry /\ held'[c] \in Queued
      /\ \A d \in Consumers \ {c} : held'[d] = held[d]
  BY <1>0, TakeRemoves DEF PopStep
<1>2. \A i \in DOMAIN LogLines : LogLines[i] \in Written
  BY LogLinesType DEF SeqRange, Written, Saved
<1>3. ~ Overtaken(held[c])'
  BY <1>0, <1>1, <1>2 DEF PopOrder, Overtaken
<1>4. \A d \in Consumers : d # c => (Overtaken(held[d])' <=> Overtaken(held[d]))
  BY <1>0, <1>1, OvertakenStays
<1>5. LockersInv'
  BY <1>3, <1>4 DEF LockersInv
<1> DEFINE L == Cardinality(LateLines(LogLines))
           K == Cardinality(lockers)
<1>6. L \in Nat /\ K \in Nat /\ L' = L /\ K' = K
  BY <1>0, LateNumbers, OvertakenStays
<1>7. L + (IF fileMtx \in Callers \/ Overtaken(held[Flusher]) THEN 1 ELSE 0) <= K
  BY DEF LateCount
<1>8. Overtaken(held[Flusher])' => Overtaken(held[Flusher])
  BY <1>3, <1>4
<1> HIDE DEF L, K
<1>9. L' + (IF fileMtx' \in Callers \/ Overtaken(held[Flusher])' THEN 1 ELSE 0) <= K'
  BY <1>6, <1>7, <1>8
<1> QED BY <1>5, <1>9 DEF LateCount, L, K

(* A step that writes to the log file: the flush thread's entry may have been *)
(* overtaken, which ends what LateCount has put aside for it; that of the    *)
(* caller with file_mtx was not.                                            *)
LEMMA LateWrite ==
  ASSUME LoggerTypeOK, LockersInv, LateCount, ThreadsInv,
         NEW c \in Consumers, fileMtx = c, Release(c), WriteEntry(held[c]),
         fileMtx' = (IF c = Flusher THEN NoThread ELSE c), UNCHANGED <<pc, lockers>>
  PROVE  LockersInv' /\ LateCount'
<1> USE ThreadNames
<1>0. /\ TypeOK /\ held[c] \in Entry /\ held'[c] = NoEntry /\ NoThread \notin Callers
      /\ \A d \in Consumers \ {c} : held'[d] = held[d]
  BY Hands, LoggerAssumption, Zenon DEF LoggerTypeOK, Release, TypeOK
<1>1. LogLines' = Append(LogLines, held[c]) \/ LogLines' = LogLines
  BY <1>0, LineAtTheEnd
<1>2. ~ Overtaken(held[c])'
  BY <1>0 DEF Overtaken
<1>3. LockersInv'
  <2> SUFFICES ASSUME NEW t \in Callers
               PROVE  /\ fileMtx' = t => pc'[t] = "pop" /\ ~ Overtaken(held[t])'
                      /\ pc'[t] \in {"idle", "logged"} => t \notin lockers'
    BY DEF LockersInv
  <2>1. fileMtx' = t => t = c
    BY <1>0
  <2>2. CASE t = c
    BY <1>2, <2>2 DEF LockersInv
  <2>3. CASE t # c
    BY <2>1, <2>3 DEF LockersInv
  <2> QED BY <2>2, <2>3
<1> DEFINE L == Cardinality(LateLines(LogLines))
           K == Cardinality(lockers)
<1>4. L \in Nat /\ K \in Nat /\ K' = K
  BY LateNumbers
<1>5. L' \in Nat /\ L' <= L + 1 /\ (~ Overtaken(held[c]) => L' = L)
  <2>1. CASE LogLines' = Append(LogLines, held[c])
    BY <1>0, <2>1, LateNumbers
  <2>2. CASE LogLines' = LogLines
    <3>1. L' = L
      BY <2>2, OvertakenStays
    <3> HIDE DEF L
    <3> QED BY <3>1, <1>4
  <2> QED BY <1>1, <2>1, <2>2
<1>6. L + (IF fileMtx \in Callers \/ Overtaken(held[Flusher]) THEN 1 ELSE 0) <= K
  BY DEF LateCount
<1> HIDE DEF L, K
<1>7. L' + (IF fileMtx' \in Callers \/ Overtaken(held[Flusher])' THEN 1 ELSE 0) <= K'
  <2>1. CASE c = Flusher
    <3>1. fileMtx' \notin Callers /\ ~ Overtaken(held[Flusher])'
      BY <1>0, <1>2, <2>1
    <3>2. CASE Overtaken(held[c])
      <4>1. L + 1 <= K
        BY <1>6, <2>1, <3>2
      <4>2. L' <= K'
        BY <4>1, <1>4, <1>5
      <4> QED BY <3>1, <4>2, <1>5
    <3>3. CASE ~ Overtaken(held[c])
      <4>1. L <= K
        BY <1>4, <1>6
      <4>2. L' <= K'
        BY <4>1, <1>4, <1>5, <3>3
      <4> QED BY <3>1, <4>2, <1>5
    <3> QED BY <3>2, <3>3
  <2>2. CASE c \in Callers
    <3>1. ~ Overtaken(held[c]) /\ L' = L /\ L + 1 <= K
      BY <1>5, <1>6, <2>2 DEF LockersInv
    <3> QED BY <1>4, <3>1
  <2> QED BY <2>1, <2>2
<1> QED BY <1>3, <1>7 DEF LateCount, L, K

(* A line for the sidecar, written by a caller without file_mtx.            *)
LEMMA LateSidecar ==
  ASSUME LoggerTypeOK, LockersInv, LateCount,
         NEW c \in Callers, fileMtx # c, Release(c),
         UNCHANGED fileVars, UNCHANGED <<pc, fileMtx, lockers>>
  PROVE  LockersInv' /\ LateCount'
<1> USE ThreadNames
<1>0. /\ LogLines' = LogLines /\ TypeOK
      /\ \A d \in Consumers \ {c} : held'[d] = held[d]
  BY Hands DEF LoggerTypeOK, fileVars, LogLines
<1>1. \A d \in Consumers \ {c} : Overtaken(held[d])' <=> Overtaken(held[d])
  BY <1>0, OvertakenStays
<1>2. LockersInv'
  BY <1>1 DEF LockersInv
<1>3. /\ Cardinality(LateLines(LogLines))' = Cardinality(LateLines(LogLines))
      /\ Cardinality(lockers)' = Cardinality(lockers)
      /\ fileMtx' = fileMtx
      /\ (Overtaken(held[Flusher])' <=> Overtaken(held[Flusher]))
  BY <1>0, <1>1, OvertakenStays
<1> QED BY <1>2, <1>3 DEF LateCount

(* file_mtx passes to a caller of logger_flush, once.                       *)
LEMMA LateLock ==
  ASSUME LoggerTypeOK, LockersInv, LateCount, ThreadsInv,
         NEW t \in Callers, pc[t] = "logged", Goto(t, "pop"),
         fileMtx = NoThread, fileMtx' = t, lockers' = lockers \cup {t},
         UNCHANGED <<vars, fileVars>>
  PROVE  LockersInv' /\ LateCount'
<1> USE ThreadNames
<1>0. /\ TypeOK /\ held' = held /\ NoThread \notin Callers /\ LogLines' = LogLines
      /\ pc'[t] = "pop" /\ \A c \in Callers \ {t} : pc'[c] = pc[c]
      /\ held[t] = NoEntry
  BY LoggerAssumption DEF LoggerTypeOK, Goto, vars, fileVars, LogLines, ThreadsInv
<1>1. t \notin lockers
  BY DEF LockersInv
<1>2. \A c \in Consumers : Overtaken(held[c])' <=> Overtaken(held[c])
  BY <1>0, OvertakenStays
<1>3. ~ Overtaken(held[t])'
  BY <1>0 DEF Overtaken
<1>4. LockersInv'
  <2> SUFFICES ASSUME NEW c \in Callers
               PROVE  /\ fileMtx' = c => pc'[c] = "pop" /\ ~ Overtaken(held[c])'
                      /\ pc'[c] \in {"idle", "logged"} => c \notin lockers'
    BY DEF LockersInv
  <2>1. CASE c = t
    BY <1>0, <1>3, <2>1
  <2>2. CASE c # t
    BY <1>0, <2>2 DEF LockersInv
  <2> QED BY <2>1, <2>2
<1> DEFINE L == Cardinality(LateLines(LogLines))
           K == Cardinality(lockers)
<1>5. L \in Nat /\ K \in Nat /\ L' = L
  BY <1>0, LateNumbers, OvertakenStays
<1>6. K' = K + 1
  BY <1>1, LateNumbers, FS_AddElement, Zenon
<1>7. L + (IF Overtaken(held[Flusher]) THEN 1 ELSE 0) <= K
  BY <1>0 DEF LateCount
<1> HIDE DEF L, K
<1>8. L' + (IF fileMtx' \in Callers \/ Overtaken(held[Flusher])' THEN 1 ELSE 0) <= K'
  BY <1>5, <1>6, <1>7
<1> QED BY <1>4, <1>8 DEF LateCount, L, K

(* No step makes two lines late for one lock of file_mtx.                   *)
LEMMA LateKept ==
  ASSUME LoggerTypeOK, LinesInv, PlacesInv, ThreadsInv, LateInv, LoggerNext
  PROVE  LateInv'
<1> USE ThreadNames
<1>0. /\ TypeOK /\ PopOrder /\ LockersInv /\ LateCount
      /\ pc \in [Consumers -> {"loop", "batch", "drain", "done", "idle", "logged",
                               "pop", "flushed", "join"}]
      /\ Flusher # NoThread /\ NoThread \notin Callers
  BY LoggerAssumption, Zenon DEF LateInv, LoggerTypeOK
<1>1. PopOrder'
  BY <1>0, StepKinds, PopOrderKept
<1>2. ASSUME LockersInv' /\ LateCount' PROVE LateInv'
  BY <1>1, <1>2 DEF LateInv
<1>3. \A c \in Consumers : \A place : Goto(c, place) =>
        pc'[c] = place /\ \A d \in Consumers \ {c} : pc'[d] = pc[d]
  BY <1>0 DEF Goto
<1>4. ASSUME UNCHANGED <<vars, fileVars>>
      PROVE  LogLines' = LogLines /\ \A c \in Consumers : held'[c] = held[c]
  BY <1>4 DEF vars, fileVars, LogLines
<1>5. ASSUME FlushThread PROVE LateInv'
  <2>1. ASSUME FlusherChecksRunning \/ FlusherLocks \/ BatchEnds \/ DrainPopFails
        PROVE  LateInv'
    <3>1. /\ UNCHANGED <<vars, fileVars, lockers>>
          /\ fileMtx' = fileMtx \/ fileMtx' = Flusher
          /\ pc' = pc \/ \E place : Goto(Flusher, place)
      BY <2>1, Zenon DEF FlusherChecksRunning, FlusherLocks, BatchEnds, DrainPopFails
    <3>2. \A t \in Callers : pc'[t] = pc[t]
      BY <1>3, <3>1
    <3> QED BY <1>0, <1>2, <1>4, <3>1, <3>2, LateQuiet
  <2>2. CASE FlusherPops
    BY <1>0, <1>2, <2>2, LatePop DEF FlusherPops, PopStep
  <2>3. CASE FlusherWrites
    BY <1>0, <1>2, <2>3, LateWrite DEF FlusherWrites
  <2> QED BY <1>5, <2>1, <2>2, <2>3, Zenon DEF FlushThread
<1>6. CASE StopLogger
  <2>1. /\ UNCHANGED <<vars, fileVars, lockers, fileMtx>>
        /\ pc[Main] = "flushed" /\ Goto(Main, "join")
    BY <1>6, Zenon DEF StopLogger
  <2>2. fileMtx # Main
    BY <1>0, <2>1 DEF LockersInv
  <2> QED BY <1>0, <1>2, <1>3, <1>4, <2>1, <2>2, LateQuiet
<1>7. CASE DestroyLogger
  <2>1. UNCHANGED <<vars, lockers, fileMtx, pc>> /\ LogLines' = LogLines
    BY <1>7, LinesWrittenOut DEF DestroyLogger
  <2>2. \A c \in Consumers : held'[c] = held[c]
    BY <2>1 DEF vars
  <2> QED BY <1>0, <1>2, <2>1, <2>2, LateQuiet
<1>8. CASE Crash
  <2>1. /\ UNCHANGED <<vars, fileVars, lockers, fileMtx>>
        /\ process = "alive" /\ Goto(Child, "logged")
    BY <1>8, Zenon DEF Crash
  <2>2. pc[Child] = "idle" /\ fileMtx # Child
    BY <1>0, <2>1 DEF ThreadsInv, LockersInv
  <2> QED BY <1>0, <1>2, <1>3, <1>4, <2>1, <2>2, LateQuiet
<1>9. ASSUME NEW p \in Producers, Logs(p) PROVE LateInv'
  <2>1. UNCHANGED <<fileVars, lockers, fileMtx, pc>> /\ held' = held
    BY <1>0, <1>9, Hands, Zenon DEF Logs
  <2>2. LogLines' = LogLines
    BY <2>1 DEF fileVars, LogLines
  <2> QED BY <1>0, <1>2, <2>1, <2>2, LateQuiet
<1>10. ASSUME NEW t \in Callers, LastLine(t) PROVE LateInv'
  <2>1. /\ UNCHANGED <<fileVars, lockers, fileMtx>> /\ held' = held
        /\ pc[t] = "idle" /\ Goto(t, "logged")
    BY <1>0, <1>10, Hands, Zenon DEF LastLine, LogsLastLine
  <2>2. LogLines' = LogLines /\ fileMtx # t
    BY <1>0, <2>1 DEF fileVars, LogLines, LockersInv
  <2> QED BY <1>0, <1>2, <1>3, <2>1, <2>2, LateQuiet
<1>11. ASSUME NEW t \in Callers, FlushCall(t) PROVE LateInv'
  <2>1. CASE FlushTriesLock(t)
    <3>1. /\ UNCHANGED <<vars, fileVars>> /\ pc[t] = "logged" /\ Goto(t, "pop")
      BY <2>1, Zenon DEF FlushTriesLock, FlushStarts
    <3>2. CASE fileMtx = NoThread
      <4>1. fileMtx' = t /\ lockers' = lockers \cup {t}
        BY <2>1, <3>2 DEF FlushTriesLock
      <4> QED BY <1>0, <1>2, <3>1, <3>2, <4>1, LateLock
    <3>3. CASE fileMtx # NoThread
      <4>1. UNCHANGED <<fileMtx, lockers>> /\ fileMtx # t
        BY <1>0, <2>1, <3>1, <3>3 DEF FlushTriesLock, LockersInv
      <4> QED BY <1>0, <1>2, <1>3, <1>4, <3>1, <4>1, LateQuiet
    <3> QED BY <3>2, <3>3
  <2>2. CASE FlushPops(t)
    BY <1>0, <1>2, <2>2, LatePop DEF FlushPops, PopStep
  <2>3. CASE FlushWrites(t)
    <3>1. UNCHANGED <<pc, fileMtx, lockers>> /\ Release(t)
      BY <2>3, Zenon DEF FlushWrites
    <3>2. CASE fileMtx = t
      <4>1. WriteEntry(held[t]) /\ t # Flusher
        BY <2>3, <3>2 DEF FlushWrites
      <4> QED BY <1>0, <1>2, <3>1, <3>2, <4>1, LateWrite
    <3>3. CASE fileMtx # t
      <4>1. UNCHANGED fileVars
        BY <2>3, <3>3, Zenon DEF FlushWrites
      <4> QED BY <1>0, <1>2, <3>1, <3>3, <4>1, LateSidecar
    <3> QED BY <3>2, <3>3
  <2>4. CASE FlushEnds(t)
    <3>1. /\ UNCHANGED <<vars, lockers>> /\ pc[t] = "pop" /\ Goto(t, "flushed")
      BY <2>4, Zenon DEF FlushEnds
    <3>2. \A c \in Consumers : held'[c] = held[c]
      BY <3>1 DEF vars
    <3>3. /\ LogLines' = LogLines
          /\ IF fileMtx = t THEN fileMtx' = NoThread ELSE fileMtx' = fileMtx
      <4>1. CASE fileMtx = t
        BY <2>4, <4>1, LinesWrittenOut DEF FlushEnds
      <4>2. CASE fileMtx # t
        BY <2>4, <4>2 DEF FlushEnds, LogLines
      <4> QED BY <4>1, <4>2
    <3> QED BY <1>0, <1>2, <1>3, <3>1, <3>2, <3>3, LateQuiet
  <2> QED BY <1>11, <2>1, <2>2, <2>3, <2>4, Zenon DEF FlushCall
<1>12. ASSUME NEW t \in Callers, ExitAfterFlush(t) PROVE LateInv'
  <2>1. UNCHANGED <<vars, fileVars, lockers, fileMtx, pc>>
    BY <1>12, Zenon DEF ExitAfterFlush
  <2> QED BY <1>0, <1>2, <1>4, <2>1, LateQuiet
<1> QED BY <1>5, <1>6, <1>7, <1>8, <1>9, <1>10, <1>11, <1>12, Zenon DEF LoggerNext

(* Everything that Logger's invariants and the order need, together.        *)
LEMMA LateStep == LoggerInv /\ LateInv /\ [LoggerNext]_allVars => LateInv'
<1>1. ASSUME LoggerInv, LateInv, LoggerNext PROVE LateInv'
  BY <1>1, LateKept DEF LoggerInv
<1>2. ASSUME LateInv, UNCHANGED allVars PROVE LateInv'
  <2>1. UNCHANGED <<queue, count, held, disk, buffer, sidecar, pc, fileMtx, lockers>>
    BY <1>2 DEF allVars, vars, fileVars
  <2>2. UNCHANGED <<LogLines, Written, InHand, Queued>>
    BY <2>1 DEF LogLines, Written, Saved, Buffered, InHand, Queued
  <2>3. PopOrder'
    BY <1>2, <2>1, <2>2 DEF LateInv, PopOrder
  <2>4. \A c \in Consumers : Overtaken(held[c])' <=> Overtaken(held[c])
    BY <2>1, <2>2, OvertakenStays
  <2>5. LockersInv'
    BY <1>2, <2>1, <2>4, ThreadNames DEF LateInv, LockersInv
  <2>6. LateCount'
    <3>1. Cardinality(LateLines(LogLines))' = Cardinality(LateLines(LogLines))
      BY <2>2, OvertakenStays
    <3>2. LateCount /\ Cardinality(lockers)' = Cardinality(lockers)
          /\ fileMtx' = fileMtx
          /\ (Overtaken(held[Flusher])' <=> Overtaken(held[Flusher]))
      BY <1>2, <2>1, <2>4, ThreadNames DEF LateInv
    <3> QED BY <3>1, <3>2 DEF LateCount
  <2> QED BY <2>3, <2>5, <2>6 DEF LateInv
<1> QED BY <1>1, <1>2

(* In the log files a thread's lines stand in the order of its calls, but for *)
(* at most one line for each time that logger_flush took file_mtx from the   *)
(* flush thread (logger.c:226-227 against 408-411).                         *)
THEOREM LinesInOrder == LoggerSpec => []FewLateLines
<1>1. LoggerInit => LateInv
  <2> SUFFICES ASSUME LoggerInit PROVE LateInv
    OBVIOUS
  <2>1. /\ queue = <<>> /\ \A c \in Consumers : held[c] = NoEntry
        /\ disk = <<>> /\ buffer = <<>> /\ sidecar = <<>> /\ lockers = {}
        /\ fileMtx = NoThread /\ NoThread \notin Callers
    BY ThreadNames, LoggerAssumption DEF LoggerInit, Init
  <2>2. LogLines = <<>> /\ Queued = {}
    BY <2>1 DEF LogLines, Queued
  <2>3. LateLines(LogLines) = {}
    BY <2>2 DEF LateLines
  <2>4. Cardinality(LateLines(LogLines)) = 0 /\ Cardinality(lockers) = 0
    BY <2>1, <2>3, FS_EmptySet
  <2>5. PopOrder /\ LockersInv
    BY <2>1, <2>2 DEF PopOrder, LockersInv
  <2>6. ~ Overtaken(held[Flusher])
    BY <2>1, ThreadNames DEF Overtaken
  <2>7. LateCount
    BY <2>1, <2>4, <2>6 DEF LateCount
  <2> QED BY <2>5, <2>7 DEF LateInv
<1>2. LoggerInv /\ LateInv => FewLateLines
  <2> SUFFICES ASSUME LoggerInv, LateInv PROVE FewLateLines
    OBVIOUS
  <2> DEFINE L == Cardinality(LateLines(LogLines))
             K == Cardinality(lockers)
  <2>1. L \in Nat /\ K \in Nat
    BY LateNumbers DEF LoggerInv
  <2>2. L + (IF fileMtx \in Callers \/ Overtaken(held[Flusher]) THEN 1 ELSE 0) <= K
    BY DEF LateInv, LateCount
  <2> HIDE DEF L, K
  <2>3. L <= K
    BY <2>1, <2>2
  <2> QED BY <2>3 DEF FewLateLines, LogLines, L, K
<1> QED BY <1>1, <1>2, LateStep, LoggerInvariant, PTL DEF LoggerSpec

=============================================================================

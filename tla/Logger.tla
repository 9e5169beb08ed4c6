------------------------------- MODULE Logger -------------------------------
(***************************************************************************)
(* src/common/logger.c around its ring: the flush thread, logger_flush as  *)
(* it is called by the exiting main thread (main.cpp:77-81), by the        *)
(* watchdog thread that ends a hung process (watchdog.c:163-168) and by    *)
(* the child forked in the crash handler (watchdog.c:54), and              *)
(* logger_stop / logger_destroy.                                           *)
(*                                                                         *)
(* The ring is the queue of LogQueue, which LogRing is shown to implement. *)
(* Its ring_pop may in addition fail because another thread is inside it.  *)
(*                                                                         *)
(* Main, Dog and Child name the three callers of logger_flush; Main and    *)
(* Dog log a line of their own before they call it.                        *)
(***************************************************************************)
EXTENDS LogQueue, FiniteSets

CONSTANTS
  Flusher, Main, Dog, Child,   (* the consumers                            *)
  NoThread,                    (* file_mtx is free                         *)
  BufLines,                    (* lines the stdio buffer of log->fp holds  *)
  MaxOpens                     (* bound: rotations, and failed fopen calls *)

ASSUME LoggerAssumption ==
  /\ Consumers = {Flusher, Main, Dog, Child}
  /\ Flusher \notin {Main, Dog, Child} /\ Child \notin {Main, Dog} /\ Main # Dog
  /\ NoThread \notin Consumers
  /\ {Main, Dog} \subseteq Producers
  /\ BufLines \in Nat \ {0} /\ MaxOpens \in Nat

DrainTries == 4   (* logger.c:256 *)

VARIABLES
  pc,         (* where each consumer is                                    *)
  fileMtx,    (* holder of file_mtx                                        *)
  fpOpen,     (* log->fp is not NULL                                       *)
  buffer,     (* lines in the buffer of log->fp                            *)
  disk,       (* lines in the log files                                    *)
  sidecar,    (* lines in the .crash files                                 *)
  running,    (* log->running                                              *)
  idle,       (* failed pops of the final drain                            *)
  process,    (* "alive", "crashed": only the forked child runs, "exited", *)
              (* "closed": by logger_destroy                               *)
  popMtxLost, (* the child's copy of pop_mtx is locked for ever            *)
  opens,
  failedOpen, (* history: entries skipped because fopen failed             *)
  lockers,    (* history: calls of logger_flush that got file_mtx          *)
  owed        (* history: what logger_stop or the child has to save        *)

fileVars == <<fpOpen, buffer, disk, opens, failedOpen>>
allVars == <<vars, pc, fileMtx, fileVars, sidecar, running, idle, process,
             popMtxLost, lockers, owed>>

Callers == {Main, Dog, Child}
SeqRange(s) == {s[i] : i \in DOMAIN s}
Queued == {queue[i].entry : i \in DOMAIN queue}

LoggerTypeOK ==
  /\ TypeOK
  /\ pc \in [Consumers -> {"loop", "batch", "drain", "done", "idle", "logged",
                           "pop", "flushed", "join"}]
  /\ fileMtx \in Consumers \cup {NoThread}
  /\ fpOpen \in BOOLEAN /\ running \in BOOLEAN /\ popMtxLost \in BOOLEAN
  /\ buffer \in Seq(Entry) /\ Len(buffer) <= BufLines
  /\ disk \in Seq(Entry) /\ sidecar \in Seq(Entry)
  /\ ~ fpOpen => buffer = <<>>
  /\ idle \in 0 .. DrainTries
  /\ process \in {"alive", "crashed", "exited", "closed"}
  /\ opens \in 0 .. MaxOpens
  /\ failedOpen \subseteq Entry /\ owed \subseteq Entry /\ lockers \subseteq Callers

(* After logger_create and logger_start. *)
LoggerInit ==
  /\ Init
  /\ pc = [c \in Consumers |-> IF c = Flusher THEN "loop" ELSE "idle"]
  /\ fileMtx = NoThread
  /\ fpOpen = TRUE /\ buffer = <<>> /\ disk = <<>> /\ sidecar = <<>>
  /\ running = TRUE /\ idle = 0
  /\ process = "alive" /\ popMtxLost = FALSE
  /\ opens = 0 /\ failedOpen = {} /\ lockers = {} /\ owed = {}

Goto(c, place) == pc' = [pc EXCEPT ![c] = place]

-----------------------------------------------------------------------------
(* log->fp: stdio buffers the lines; fclose and fflush write them out.      *)

BufferedWrite(e) ==
  /\ fpOpen
  /\ IF Len(buffer) = BufLines
       THEN disk' = disk \o buffer /\ buffer' = <<e>>
       ELSE buffer' = Append(buffer, e) /\ UNCHANGED disk
  /\ UNCHANGED <<fpOpen, opens, failedOpen>>

(* open_log_file: no file is open, or the open one is full or of yesterday. *)
ReopenAndWrite(e) ==
  /\ IF fpOpen THEN opens < MaxOpens /\ opens' = opens + 1 ELSE UNCHANGED opens
  /\ disk' = disk \o buffer
  /\ buffer' = <<e>>
  /\ fpOpen' = TRUE
  /\ UNCHANGED failedOpen

OpenFails(e) ==
  /\ opens < MaxOpens /\ opens' = opens + 1
  /\ disk' = disk \o buffer
  /\ buffer' = <<>>
  /\ fpOpen' = FALSE
  /\ failedOpen' = failedOpen \cup {e}

(* write_entry_to_file *)
WriteEntry(e) == BufferedWrite(e) \/ ReopenAndWrite(e) \/ OpenFails(e)

(* fflush or fclose of log->fp, if there is one. *)
WriteOut == disk' = disk \o buffer /\ buffer' = <<>>

(* A consumer that may be inside ring_pop, where it holds pop_mtx. *)
Popping(c) == held[c] = NoEntry /\ pc[c] \in {"batch", "drain", "pop"}

(* ring_pop returns -1: nothing there, an entry still being written, or     *)
(* pop_mtx is held by another thread.                                       *)
FrontReady == queue # <<>> /\ Head(queue).published

PopFails(c) ==
  \/ ~ FrontReady
  \/ \E d \in Consumers \ {c} : Popping(d) /\ process = "alive"
  \/ popMtxLost

-----------------------------------------------------------------------------
(* flush_thread.  A pop and the lock of file_mtx are separate steps.        *)

FlusherChecksRunning ==
  /\ pc[Flusher] = "loop"
  /\ Goto(Flusher, IF running THEN "batch" ELSE "drain")
  /\ UNCHANGED <<vars, fileMtx, fileVars, sidecar, running, idle, lockers, owed>>

FlusherPops ==
  /\ pc[Flusher] \in {"batch", "drain"} /\ Take(Flusher)
  /\ idle' = 0
  /\ UNCHANGED <<pc, fileMtx, fileVars, sidecar, running, lockers, owed>>

FlusherLocks ==
  /\ held[Flusher] # NoEntry /\ fileMtx = NoThread
  /\ fileMtx' = Flusher
  /\ UNCHANGED <<vars, pc, fileVars, sidecar, running, idle, lockers, owed>>

FlusherWrites ==
  /\ fileMtx = Flusher
  /\ WriteEntry(held[Flusher])
  /\ Release(Flusher)
  /\ fileMtx' = NoThread
  /\ UNCHANGED <<pc, sidecar, running, idle, lockers, owed>>

(* 256 rounds are over, or the ring is empty, or pops failed; then a sleep. *)
BatchEnds ==
  /\ pc[Flusher] = "batch" /\ held[Flusher] = NoEntry
  /\ Goto(Flusher, "loop")
  /\ UNCHANGED <<vars, fileMtx, fileVars, sidecar, running, idle, lockers, owed>>

(* Mutant: the final drain gives up at the first pop that fails. *)
DrainGivesUpAtOnce ==
  /\ pc[Flusher] = "drain" /\ held[Flusher] = NoEntry /\ PopFails(Flusher)
  /\ idle' = idle
  /\ Goto(Flusher, "done")
  /\ UNCHANGED <<vars, fileMtx, fileVars, sidecar, running, lockers, owed>>

DrainPopFails ==
  /\ pc[Flusher] = "drain" /\ held[Flusher] = NoEntry /\ PopFails(Flusher)
  /\ idle' = IF queue = <<>> THEN idle ELSE idle + 1
  /\ Goto(Flusher, IF queue = <<>> \/ idle' = DrainTries THEN "done" ELSE "drain")
  /\ UNCHANGED <<vars, fileMtx, fileVars, sidecar, running, lockers, owed>>

FlushThread ==
  /\ process = "alive"
  /\ \/ FlusherChecksRunning \/ FlusherPops \/ FlusherLocks \/ FlusherWrites
     \/ BatchEnds \/ DrainPopFails
  /\ UNCHANGED <<process, popMtxLost>>

-----------------------------------------------------------------------------
(* logger_flush and its callers. *)

(* The caller's own line goes to the ring first. *)
LogsLastLine(t) ==
  /\ pc[t] = "idle" /\ t # Child
  /\ Claim(t) \/ Drop(t)
  /\ Goto(t, "logged")
  /\ UNCHANGED <<fileMtx, fileVars, sidecar, running, idle, lockers, owed>>

(* The caller's own entry is published, what the child finds is noted. *)
FlushStarts(t) ==
  /\ pc[t] = "logged"
  /\ \A i \in DOMAIN queue : queue[i].entry[1] = t => queue[i].published
  /\ owed' = IF t = Child THEN Queued ELSE owed
  /\ UNCHANGED <<vars, fileVars, sidecar, running, idle>>

(* Mutant: a blocking lock. *)
FlushLocks(t) ==
  /\ FlushStarts(t)
  /\ fileMtx = NoThread /\ fileMtx' = t
  /\ lockers' = lockers \cup {t}
  /\ Goto(t, "pop")

(* Mutant: without the lock nothing is saved. *)
FlushNeedsLock(t) ==
  /\ FlushStarts(t)
  /\ IF fileMtx = NoThread
       THEN fileMtx' = t /\ lockers' = lockers \cup {t} /\ Goto(t, "pop")
       ELSE UNCHANGED <<fileMtx, lockers>> /\ Goto(t, "flushed")

(* logger.c:408: trylock, whose result decides between file and sidecar.    *)
FlushTriesLock(t) ==
  /\ FlushStarts(t)
  /\ IF fileMtx = NoThread
       THEN fileMtx' = t /\ lockers' = lockers \cup {t}
       ELSE UNCHANGED <<fileMtx, lockers>>
  /\ Goto(t, "pop")

FlushPops(t) ==
  /\ pc[t] = "pop" /\ ~ popMtxLost /\ Take(t)
  /\ UNCHANGED <<pc, fileMtx, fileVars, sidecar, running, idle, lockers, owed>>

(* Mutant: what goes to the sidecar goes to the log file as well. *)
FlushWritesBoth(t) ==
  /\ held[t] # NoEntry
  /\ WriteEntry(held[t])
  /\ sidecar' = IF fileMtx = t THEN sidecar ELSE Append(sidecar, held[t])
  /\ Release(t)
  /\ UNCHANGED <<pc, fileMtx, running, idle, lockers, owed>>

FlushWrites(t) ==
  /\ held[t] # NoEntry
  /\ IF fileMtx = t
       THEN WriteEntry(held[t]) /\ UNCHANGED sidecar
       ELSE sidecar' = Append(sidecar, held[t]) /\ UNCHANGED fileVars
  /\ Release(t)
  /\ UNCHANGED <<pc, fileMtx, running, idle, lockers, owed>>

FlushEnds(t) ==
  /\ pc[t] = "pop" /\ held[t] = NoEntry /\ PopFails(t)
  /\ IF fileMtx = t THEN WriteOut /\ fileMtx' = NoThread
                    ELSE UNCHANGED <<disk, buffer, fileMtx>>
  /\ Goto(t, "flushed")
  /\ UNCHANGED <<vars, fpOpen, opens, failedOpen, sidecar, running, idle, lockers, owed>>

(* What the caller may still do: log, flush. *)
MayRun(t) == process = (IF t = Child THEN "crashed" ELSE "alive")

FlushCall(t) ==
  /\ MayRun(t)
  /\ FlushTriesLock(t) \/ FlushPops(t) \/ FlushWrites(t) \/ FlushEnds(t)
  /\ UNCHANGED <<process, popMtxLost>>

LastLine(t) ==
  MayRun(t) /\ LogsLastLine(t) /\ UNCHANGED <<process, popMtxLost>>

(* _exit: the buffer of log->fp is lost. *)
ExitAfterFlush(t) ==
  /\ MayRun(t) /\ t # Main /\ pc[t] = "flushed"
  /\ process' = "exited"
  /\ UNCHANGED <<vars, pc, fileMtx, fileVars, sidecar, running, idle,
                 popMtxLost, lockers, owed>>

(* logger_destroy calls logger_stop: running := 0, join, then fclose.       *)
StopLogger ==
  /\ process = "alive" /\ pc[Main] = "flushed"
  /\ running' = FALSE
  /\ owed' = Queued \cup ({held[Flusher]} \ {NoEntry})
  /\ Goto(Main, "join")
  /\ UNCHANGED <<vars, fileMtx, fileVars, sidecar, idle, process, popMtxLost,
                 lockers>>

DestroyLogger ==
  /\ process = "alive" /\ pc[Main] = "join" /\ pc[Flusher] = "done"
  /\ WriteOut
  /\ process' = "closed"
  /\ UNCHANGED <<vars, pc, fileMtx, fpOpen, opens, failedOpen, sidecar, running,
                 idle, popMtxLost, lockers, owed>>

(* Some thread crashes.  The child is a copy of the process with one        *)
(* thread: locks held by others stay locked.                                *)
Crash ==
  /\ process = "alive"
  /\ process' = "crashed"
  /\ popMtxLost' \in {FALSE, \E c \in Consumers : Popping(c)}
  /\ Goto(Child, "logged")
  /\ UNCHANGED <<vars, fileMtx, fileVars, sidecar, running, idle, lockers, owed>>

-----------------------------------------------------------------------------

(* ring_push: by a thread that only logs, and its end by any thread. *)
Logs(p) ==
  /\ process = "alive"
  /\ \/ p \notin Callers /\ count[p] < MaxWrites /\ (Claim(p) \/ Drop(p))
     \/ Publish(p)
  /\ UNCHANGED <<pc, fileMtx, fileVars, sidecar, running, idle, process,
                 popMtxLost, lockers, owed>>

LoggerNext ==
  \/ FlushThread \/ StopLogger \/ DestroyLogger \/ Crash
  \/ \E p \in Producers : Logs(p)
  \/ \E t \in Callers : LastLine(t) \/ FlushCall(t) \/ ExitAfterFlush(t)

LoggerSpec == LoggerInit /\ [][LoggerNext]_allVars

(* A thread that calls logger_flush is scheduled.  Nothing is assumed about *)
(* the flush thread: in the forked child it does not exist.                 *)
FairLoggerSpec ==
  /\ LoggerSpec
  /\ \A t \in Callers : WF_allVars(FlushCall(t))
  /\ WF_allVars(Logs(Main)) /\ WF_allVars(Logs(Dog))

-----------------------------------------------------------------------------
(* Properties. *)

Saved == SeqRange(disk) \cup SeqRange(sidecar)

(* The entries of p that stand behind a later entry of p. *)
LateLines(lines) ==
  {i \in DOMAIN lines : \E j \in 1 .. (i - 1) :
     lines[j][1] = lines[i][1] /\ lines[j][2] > lines[i][2]}

(* The log files keep the order of each thread's lines, but for the one     *)
(* entry that the flush thread has popped and not yet written each time a   *)
(* logger_flush gets file_mtx (logger.c:226-227 against 408-411).           *)
FewLateLines == Cardinality(LateLines(disk \o buffer)) <= Cardinality(lockers)

(* No entry is written twice, whoever pops it and whichever file it goes to *)
(* (logger.c:409-419 against 225-231).                                      *)
WrittenOnce ==
  LET all == disk \o buffer \o sidecar IN
  \A i, j \in DOMAIN all : all[i] = all[j] => i = j

(* logger_destroy saves what was in the ring or in the flush thread's hands *)
(* when logger_stop was called.  Only a producer that was interrupted in    *)
(* its entry for all four retries (logger.c:252-269) or a log file that     *)
(* cannot be opened loses any of it.                                        *)
StopSaves ==
  process = "closed" /\ idle < DrainTries /\ pc[Dog] = "idle" =>
    owed \subseteq Saved \cup failedOpen

(* A crash dump's logger_flush saves what it finds in the ring, up to the   *)
(* first entry whose producer did not finish, even when the flush thread    *)
(* holds file_mtx (logger.c:405-418), unless pop_mtx was taken at the fork. *)
CrashSaves ==
  process = "exited" /\ pc[Child] = "flushed" /\ ~ popMtxLost =>
    \/ owed \subseteq Saved \cup failedOpen
    \/ queue # <<>> /\ ~ FrontReady

(* logger_flush returns although the thread that holds file_mtx or pop_mtx  *)
(* will never run again (logger.c:66-69, 405-407).                          *)
FlushReturns ==
  \A t \in Callers :
    pc[t] = "logged" /\ MayRun(t) ~> (pc[t] = "flushed" \/ ~ MayRun(t))

-----------------------------------------------------------------------------
(* The inductive invariant behind WrittenOnce, StopSaves and CrashSaves. *)

Once(lines) == \A i, j \in DOMAIN lines : lines[i] = lines[j] => i = j

Buffered == SeqRange(buffer)
Written == Saved \cup Buffered
InHand == {held[c] : c \in Consumers} \ {NoEntry}

(* No line is in two files, or in a file and in the buffer. *)
LinesInv ==
  /\ Once(disk) /\ Once(buffer) /\ Once(sidecar)
  /\ SeqRange(disk) \cap Buffered = {}
  /\ SeqRange(sidecar) \cap (SeqRange(disk) \cup Buffered) = {}

QueuedOnce == \A i, j \in DOMAIN queue : queue[i].entry = queue[j].entry => i = j

(* An entry is queued, in the hands of one thread, or written, and its      *)
(* number is below the count of its thread.                                 *)
PlacesInv ==
  /\ QueuedOnce
  /\ Written \cap Queued = {}
  /\ \A c \in Consumers :
       /\ held[c] \notin Written \cup Queued
       /\ \A d \in Consumers : held[d] = held[c] => d = c \/ held[c] = NoEntry
  /\ \A e \in Written \cup Queued \cup InHand : e[2] < count[e[1]]

(* Who may hold an entry, and what process and running say of the threads.  *)
ThreadsInv ==
  /\ pc[Flusher] \in {"loop", "batch", "drain", "done"}
  /\ held[Flusher] # NoEntry => pc[Flusher] \in {"batch", "drain"}
  /\ \A t \in Callers : held[t] # NoEntry => pc[t] = "pop"
  /\ pc[Flusher] # "done" => idle < DrainTries
  /\ running <=> pc[Main] # "join"
  /\ running => pc[Flusher] \notin {"drain", "done"}
  /\ pc[Child] # "idle" => process \in {"crashed", "exited"}
  /\ process = "closed" => pc[Main] = "join" /\ pc[Flusher] = "done"

(* Until logger_destroy, what logger_stop found is written, queued or held  *)
(* by the flush thread, which is done only after it saw the ring empty.     *)
StopInv ==
  /\ process = "alive" /\ pc[Main] = "join" /\ pc[Dog] = "idle" =>
       /\ owed \subseteq Written \cup failedOpen \cup Queued \cup {held[Flusher]}
       /\ pc[Flusher] = "done" /\ idle < DrainTries =>
            owed \subseteq Written \cup failedOpen
  /\ StopSaves

(* What the child found is queued, held by it, or saved; in the buffer only *)
(* while the child has file_mtx and will write the buffer out.              *)
ChildInv ==
  /\ pc[Child] = "pop" =>
       /\ owed \subseteq Written \cup failedOpen \cup Queued \cup {held[Child]}
       /\ fileMtx # Child =>
            owed \subseteq Saved \cup failedOpen \cup Queued \cup {held[Child]}
  /\ pc[Child] = "flushed" /\ ~ popMtxLost =>
       \/ owed \subseteq Saved \cup failedOpen
       \/ queue # <<>> /\ ~ FrontReady

LoggerInv ==
  LoggerTypeOK /\ LinesInv /\ PlacesInv /\ ThreadsInv /\ StopInv /\ ChildInv

-----------------------------------------------------------------------------
(* The inductive invariant behind FewLateLines. *)

LogLines == disk \o buffer
Precedes(e, f) == e[1] = f[1] /\ e[2] < f[2]

(* A later entry of the same thread is in the log file already. *)
Overtaken(e) == e # NoEntry /\ \E i \in DOMAIN LogLines : Precedes(e, LogLines[i])

(* Each thread's entries leave the ring in the order of its calls. *)
PopOrder ==
  /\ \A i, j \in DOMAIN queue : i < j => ~ Precedes(queue[j].entry, queue[i].entry)
  /\ \A e \in Written \cup InHand, f \in Queued : ~ Precedes(f, e)

(* Who has file_mtx writes in the order of the pops, and gets it once.       *)
LockersInv ==
  \A t \in Callers :
    /\ fileMtx = t => pc[t] = "pop" /\ ~ Overtaken(held[t])
    /\ pc[t] \in {"idle", "logged"} => t \notin lockers

(* So only the flush thread's entry is overtaken, and only while another     *)
(* thread has file_mtx.                                                      *)
LateCount ==
  Cardinality(LateLines(LogLines))
    + (IF fileMtx \in Callers \/ Overtaken(held[Flusher]) THEN 1 ELSE 0)
    <= Cardinality(lockers)

LateInv == PopOrder /\ LockersInv /\ LateCount

=============================================================================

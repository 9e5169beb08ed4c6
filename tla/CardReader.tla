----------------------------- MODULE CardReader -----------------------------
(***************************************************************************)
(* The card reader's driver (driver/rc522_drv.c): commands to the chip,    *)
(* each waited for at most 20 ms under dev->lock, the interrupt that ends   *)
(* the wait and takes no lock, the poll timer and its work that detect a    *)
(* card, and read(), ioctl() and the antenna switch of the callers.        *)
(*                                                                         *)
(* A command is one step of the model and its answer another.  The chip    *)
(* interrupts when a frame is sent, when an answer is in and when its own  *)
(* timer expires (ComIEnReg = 0x71), so that an interrupt says nothing     *)
(* about the answer and may come after the wait for its command is over.   *)
(* SPI errors are lost commands.  One card at most is in the field.        *)
(***************************************************************************)
EXTENDS Integers, Sequences

CONSTANTS
  Cards,      (* cards that are held to the reader        *)
  Callers,    (* threads that have /dev/rc522_dev open    *)
  Worker,     (* the work queue's thread: detect_work     *)
  NoCard      (* what a UID buffer holds before           *)

ASSUME CardReaderAssumption == Worker \notin Callers /\ NoCard \notin Cards

VARIABLES
  rc522Lock,      (* dev->lock: its holder, in a set                        *)
  job, todo,      (* what the holder does: its command and what is to follow *)
  uid,            (* the UID the holder has got from the anticollision      *)
  spi_done,
  onAir,          (* the command the chip is transmitting                   *)
  irq,            (* whether an interrupt of the chip is on its way         *)
  fifo,           (* the answer in the chip's FIFO                          *)
  antenna,
  field,          (* the card in the field, in a set                        *)
  cardState,      (* the card's own state: ISO 14443-3                      *)
  card_present, last_uid,
  old_present,    (* detect_work's copy, read before the lock               *)
  detect_work,    (* "none", "queued", "working", "waking"                  *)
  reader,         (* where a caller is in read()                            *)
  answered        (* history: cards that answered since the job began       *)

chipVars == <<spi_done, onAir, irq, fifo>>
cardVars == <<field, cardState>>
detectVars == <<card_present, last_uid, old_present, detect_work>>
rc522Vars == <<rc522Lock, job, todo, uid, chipVars, antenna, cardVars, detectVars,
               reader, answered>>

(* The chip commands an operation is made of: rc522_get_uid selects a card,  *)
(* rc522_mifare_auth follows it in RC522_IOC_AUTH.                           *)
Select == <<"reqa", "anticollision", "select">>

CommandsOf == [detect |-> Select, get_uid |-> Select, auth |-> Append(Select, "auth"),
               read_block |-> <<"read">>, write_block |-> <<"write">>]

IoctlOps == {"get_uid", "auth", "read_block", "write_block"}

CardReaderTypeOK ==
  /\ rc522Lock \subseteq Callers \cup {Worker}
  /\ job \in {"none", "selected", "failed"} \cup DOMAIN CommandsOf
  /\ uid \in Cards \cup {NoCard} /\ last_uid \in Cards \cup {NoCard}
  /\ spi_done \in BOOLEAN /\ irq \in BOOLEAN /\ antenna \in BOOLEAN
  /\ field \subseteq Cards /\ cardState \in {"idle", "ready", "active", "authed"}
  /\ card_present \in BOOLEAN /\ old_present \in BOOLEAN
  /\ detect_work \in {"none", "queued", "working", "waking"}
  /\ reader \in [Callers -> {"out", "waiting", "woken"}]

(* rc522_probe *)
CardReaderInit ==
  /\ rc522Lock = {} /\ job = "none" /\ todo = <<>> /\ uid = NoCard
  /\ spi_done = FALSE /\ onAir = "none" /\ irq = FALSE /\ fifo = "empty"
  /\ antenna = TRUE
  /\ field = {} /\ cardState = "idle"
  /\ card_present = FALSE /\ last_uid = NoCard
  /\ old_present = FALSE /\ detect_work = "none"
  /\ reader = [c \in Callers |-> "out"]
  /\ answered = {}

-----------------------------------------------------------------------------
(* The chip and the card. *)

CardComes(c) ==
  /\ field = {}
  /\ field' = {c} /\ cardState' = "idle"
  /\ UNCHANGED <<rc522Lock, job, todo, uid, chipVars, antenna, detectVars, reader,
                 answered>>

CardLeaves ==
  /\ field # {}
  /\ field' = {} /\ cardState' = "idle"
  /\ UNCHANGED <<rc522Lock, job, todo, uid, chipVars, antenna, detectVars, reader,
                 answered>>

(* What a card in a state answers, and the state it is in then.  A frame it  *)
(* does not expect there takes it back to idle without an answer.            *)
CardAnswer(command) ==
  CASE command = "reqa" /\ cardState = "idle"            -> <<"atqa", "ready">>
    [] command = "anticollision" /\ cardState = "ready"  -> <<"uid", "ready">>
    [] command = "select" /\ cardState = "ready"         -> <<"sak", "active">>
    [] command = "auth" /\ cardState = "active"          -> <<"empty", "authed">>
    [] command = "read" /\ cardState = "authed"          -> <<"block", "authed">>
    [] command = "write" /\ cardState = "authed"         -> <<"ack", "authed">>
    [] OTHER                                             -> <<"empty", "idle">>

Answers ==
  /\ onAir # "none" /\ field # {} /\ antenna
  /\ fifo' = CardAnswer(onAir)[1] /\ cardState' = CardAnswer(onAir)[2]
  /\ answered' = IF fifo' = "uid" THEN answered \cup field ELSE answered
  /\ onAir' = "none"
  /\ UNCHANGED <<rc522Lock, job, todo, uid, spi_done, irq, antenna, field, detectVars,
                 reader>>

(* A command that is still going on will interrupt once more. *)
rc522_irq_handler ==
  /\ irq
  /\ spi_done' = TRUE
  /\ irq' \in {FALSE, onAir # "none"}
  /\ UNCHANGED <<rc522Lock, job, todo, uid, onAir, fifo, antenna, cardVars, detectVars,
                 reader, answered>>

-----------------------------------------------------------------------------
(* The holder of the lock. *)

(* mutex_lock, and the first command: the FIFO is cleared, spi_done reset    *)
(* and the chip started.                                                    *)
Transmit(command) ==
  /\ onAir' = command /\ fifo' = "empty"
  /\ spi_done' = FALSE /\ irq' = TRUE

Begin(t, operation) ==
  /\ rc522Lock = {}
  /\ rc522Lock' = {t}
  /\ job' = operation /\ todo' = CommandsOf[operation]
  /\ Transmit(Head(todo'))
  /\ uid' = NoCard /\ answered' = {}
  /\ UNCHANGED <<antenna, cardVars>>

(* Mutant: the length of the anticollision's answer is not looked at. *)
AcceptedAnyLength(command) ==
  IF command = "read" THEN fifo = "block" ELSE TRUE

(* What the driver wants to see beside spi_done: four bytes of UID, sixteen  *)
(* of a block.                                                              *)
Accepted(command) ==
  CASE command = "anticollision" -> fifo = "uid"
    [] command = "read"          -> fifo = "block"
    [] OTHER                     -> TRUE

(* The wait was ended by an interrupt, the answer is accepted and the chip   *)
(* reports no error: on to the next command, or the operation has succeeded. *)
CommandSucceeds ==
  /\ todo # <<>> /\ spi_done /\ Accepted(Head(todo))
  /\ todo' = Tail(todo)
  /\ uid' = IF Head(todo) = "anticollision" /\ fifo = "uid"
              THEN CHOOSE c \in answered : TRUE ELSE uid
  /\ IF todo' = <<>>
       THEN job' = (IF job = "detect" THEN "selected" ELSE job) /\ UNCHANGED chipVars
       ELSE Transmit(Head(todo')) /\ UNCHANGED job
  /\ UNCHANGED <<rc522Lock, antenna, cardVars, detectVars, reader, answered>>

(* 20 ms are over, or ErrorReg says so, or the answer is too short. *)
CommandFails ==
  /\ todo # <<>>
  /\ todo' = <<>> /\ job' = "failed"
  /\ UNCHANGED <<rc522Lock, uid, chipVars, antenna, cardVars, detectVars, reader,
                 answered>>

-----------------------------------------------------------------------------
(* Detection by polling. *)

rc522_poll_timer_callback ==
  /\ detect_work = "none"
  /\ detect_work' = "queued"
  /\ UNCHANGED <<rc522Lock, job, todo, uid, chipVars, antenna, cardVars, card_present,
                 last_uid, old_present, reader, answered>>

ReadOldPresent ==
  /\ detect_work = "queued"
  /\ detect_work' = "working"
  /\ old_present' = card_present
  /\ UNCHANGED <<rc522Lock, job, todo, uid, chipVars, antenna, cardVars, card_present,
                 last_uid, reader, answered>>

DetectBegins ==
  /\ detect_work = "working"
  /\ Begin(Worker, "detect")
  /\ UNCHANGED <<detectVars, reader>>

(* card_detect, and mutex_unlock. *)
card_detect ==
  /\ rc522Lock = {Worker} /\ todo = <<>>
  /\ card_present' = (job = "selected")
  /\ last_uid' = IF job = "selected" THEN uid ELSE last_uid
  /\ detect_work' = "waking"
  /\ job' = "none" /\ rc522Lock' = {}
  /\ UNCHANGED <<todo, uid, chipVars, antenna, cardVars, old_present, reader, answered>>

(* card_present is read once more, without the lock. *)
WakeReaders ==
  /\ detect_work = "waking"
  /\ detect_work' = "none"
  /\ reader' = IF card_present = old_present \/ ~card_present THEN reader
               ELSE [c \in Callers |-> IF reader[c] = "waiting" THEN "woken" ELSE reader[c]]
  /\ UNCHANGED <<rc522Lock, job, todo, uid, chipVars, antenna, cardVars, card_present,
                 last_uid, old_present, answered>>

-----------------------------------------------------------------------------
(* The callers. *)

(* read() with O_NONBLOCK, as the sensor thread calls it; no card: -EAGAIN. *)
ReadNonblocking(c) ==
  /\ reader[c] = "out" /\ rc522Lock = {} /\ card_present
  /\ card_present' = FALSE
  /\ UNCHANGED <<rc522Lock, job, todo, uid, chipVars, antenna, cardVars, last_uid,
                 old_present, detect_work, reader, answered>>

(* wait_event_interruptible: the condition is looked at before the sleep. *)
ReadBlocks(c) ==
  /\ reader[c] = "out" /\ rc522Lock # {c}
  /\ reader' = [reader EXCEPT ![c] = IF card_present THEN "woken" ELSE "waiting"]
  /\ UNCHANGED <<rc522Lock, job, todo, uid, chipVars, antenna, cardVars, detectVars,
                 answered>>

(* The rest, under the lock; whether the card is still there is not asked.   *)
ReadReturns(c) ==
  /\ reader[c] = "woken" /\ rc522Lock = {}
  /\ reader' = [reader EXCEPT ![c] = "out"]
  /\ card_present' = FALSE
  /\ UNCHANGED <<rc522Lock, job, todo, uid, chipVars, antenna, cardVars, last_uid,
                 old_present, detect_work, answered>>

rc522_ioctl(c, operation) ==
  /\ reader[c] = "out"
  /\ Begin(c, operation)
  /\ UNCHANGED <<detectVars, reader>>

IoctlReturns(c) ==
  /\ rc522Lock = {c} /\ todo = <<>>
  /\ rc522Lock' = {} /\ job' = "none"
  /\ UNCHANGED <<todo, uid, chipVars, antenna, cardVars, detectVars, reader, answered>>

(* RC522_IOC_SET_ANTENNA, the sysfs file, and open(), which turns it on. *)
rc522_antenna_on(on) ==
  /\ rc522Lock = {}
  /\ antenna' = on
  /\ cardState' = IF on THEN cardState ELSE "idle"
  /\ UNCHANGED <<rc522Lock, job, todo, uid, chipVars, field, detectVars, reader,
                 answered>>

DriverSteps ==
  \/ Answers \/ rc522_irq_handler \/ CommandSucceeds \/ CommandFails
  \/ rc522_poll_timer_callback \/ ReadOldPresent \/ DetectBegins \/ card_detect
  \/ WakeReaders

CallerSteps(c) ==
  \/ ReadNonblocking(c) \/ ReadBlocks(c) \/ ReadReturns(c) \/ IoctlReturns(c)
  \/ \E operation \in IoctlOps : rc522_ioctl(c, operation)

CardReaderNext ==
  \/ DriverSteps
  \/ CardLeaves \/ \E c \in Cards : CardComes(c)
  \/ \E c \in Callers : CallerSteps(c)
  \/ \E on \in BOOLEAN : rc522_antenna_on(on)

CardReaderSpec == CardReaderInit /\ [][CardReaderNext]_rc522Vars

-----------------------------------------------------------------------------
(* Properties. *)

(* A UID that a detection puts down, and that logs a member in, was answered  *)
(* by a card in the field during that detection, however late interrupts of   *)
(* earlier commands end the waits of this one (rc522_drv.c:176, 189-197,      *)
(* 313-315, 328).                                                            *)
DetectedUidIsGenuine ==
  [][card_present' /\ (last_uid' # last_uid \/ ~card_present)
       => last_uid' \in answered]_rc522Vars

(* A reader that blocks is woken by the card that comes.  Violated:          *)
(* detect_work_func compares with a card_present read outside the lock and    *)
(* wakes nobody if a read() has cleared the flag in between                  *)
(* (rc522_drv.c:338-345).                                                    *)
BlockedReaderServed ==
  \A c \in Callers : reader[c] = "waiting" /\ card_present => detect_work = "waking"

(* rc522_drv.c:471: "keep existing auth state".  Violated: the detection      *)
(* that polls every 200 ms selects the card anew and its sector is no longer  *)
(* authenticated (rc522_drv.c:353, 457-472).                                 *)
AuthSurvives ==
  [][cardState = "authed" /\ field' = field /\ antenna' = antenna
       => cardState' = "authed" \/ \E c \in Callers : rc522Lock = {c}]_rc522Vars

-----------------------------------------------------------------------------
(* The inductive invariant behind DetectedUidIsGenuine. *)

(* An answer in the FIFO that is a UID was given since the job began, and    *)
(* the job of detection goes on only with the UID of a card that answered.   *)
DetectInv ==
  /\ fifo = "uid" => answered # {}
  /\ job = "detect" =>
       \/ todo = Select
       \/ todo = <<"anticollision", "select">>
       \/ todo = <<"select">> /\ uid \in answered
  /\ job = "selected" => uid \in answered

=============================================================================

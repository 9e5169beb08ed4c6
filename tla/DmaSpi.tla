------------------------------- MODULE DmaSpi -------------------------------
(***************************************************************************)
(* A transfer of the DMA SPI driver (driver/dma_spi_drv.c): write() and    *)
(* read() under dev->lock, the two DMA channels, their completions and the *)
(* error paths of dma_spi_transfer.  A channel makes its descriptors one    *)
(* after the other; a descriptor that an error path leaves submitted is     *)
(* made all the same, and its callback completes whatever transfer waits    *)
(* then.  What happens before the lock is taken changes nothing and is      *)
(* left out, and so are the statistics, which nothing below depends on.     *)
(***************************************************************************)
EXTENDS Integers, Sequences

CONSTANT QueueLen   (* bound: descriptors a channel holds *)

ASSUME DmaSpiAssumption == QueueLen \in Nat \ {0}

VARIABLES
  transfer,     (* "none", "write", "read": the one under the lock          *)
  dmaAt,        (* where it is                                              *)
  txQueue, rxQueue,  (* the channels: "own" for this transfer's descriptor, *)
                     (* "old" for one of an earlier transfer                *)
  tx_done, rx_done,  (* the completions: who completed them, or "none"      *)
  result,       (* what the last transfer returned                          *)
  spiFailed     (* history: the spi_sync of some read has failed            *)

dmaVars == <<transfer, dmaAt, txQueue, rxQueue, tx_done, rx_done, result, spiFailed>>

DmaSpiTypeOK ==
  /\ transfer \in {"none", "write", "read"}
  /\ dmaAt \in {"out", "tx", "rx", "spi", "tx_wait", "rx_wait", "copy"}
  /\ {txQueue, rxQueue} \subseteq Seq({"own", "old"})
  /\ {tx_done, rx_done} \subseteq {"none", "own", "old"}
  /\ result \in {"none", "len", "ENOMEM", "EIO", "ETIMEDOUT"}
  /\ spiFailed \in BOOLEAN

(* dma_spi_probe *)
DmaSpiInit ==
  /\ transfer = "none" /\ dmaAt = "out"
  /\ txQueue = <<>> /\ rxQueue = <<>> /\ tx_done = "none" /\ rx_done = "none"
  /\ result = "none" /\ spiFailed = FALSE

AllOld(queue) == [i \in DOMAIN queue |-> "old"]

AsOld(done) == IF done = "own" THEN "old" ELSE done

(* mutex_lock; a length of zero returns at once.  tx_done is reinitialised.   *)
TransferBegins(kind) ==
  /\ transfer = "none"
  /\ transfer' = kind /\ dmaAt' = "tx"
  /\ txQueue' = AllOld(txQueue) /\ rxQueue' = AllOld(rxQueue)
  /\ tx_done' = "none" /\ rx_done' = AsOld(rx_done)
  /\ UNCHANGED <<result, spiFailed>>

Return(value) ==
  /\ transfer' = "none" /\ dmaAt' = "out"
  /\ result' = value

(* dmaengine_prep_slave_single, dmaengine_submit and issue_pending. *)
SubmitTx ==
  /\ dmaAt = "tx" /\ Len(txQueue) < QueueLen
  /\ txQueue' = Append(txQueue, "own")
  /\ IF transfer = "read"
       THEN dmaAt' = "rx" /\ rx_done' = "none"
       ELSE dmaAt' = "spi" /\ UNCHANGED rx_done
  /\ UNCHANGED <<transfer, rxQueue, tx_done, result, spiFailed>>

SubmitRx ==
  /\ dmaAt = "rx" /\ Len(rxQueue) < QueueLen
  /\ rxQueue' = Append(rxQueue, "own")
  /\ dmaAt' = "spi"
  /\ UNCHANGED <<transfer, txQueue, tx_done, rx_done, result, spiFailed>>

(* No descriptor to be had. *)
PrepFails ==
  /\ dmaAt \in {"tx", "rx"}
  /\ Return("ENOMEM")
  /\ UNCHANGED <<txQueue, rxQueue, tx_done, rx_done, spiFailed>>

spi_sync ==
  /\ dmaAt = "spi"
  /\ dmaAt' = IF transfer = "write" THEN "tx_wait" ELSE "rx_wait"
  /\ UNCHANGED <<transfer, txQueue, rxQueue, tx_done, rx_done, result, spiFailed>>

SpiSyncFails ==
  /\ dmaAt = "spi"
  /\ Return("EIO") /\ spiFailed' = (spiFailed \/ transfer = "read")
  /\ UNCHANGED <<txQueue, rxQueue, tx_done, rx_done>>

(* The callbacks. *)
dma_spi_tx_callback ==
  /\ txQueue # <<>>
  /\ tx_done' = Head(txQueue) /\ txQueue' = Tail(txQueue)
  /\ UNCHANGED <<transfer, dmaAt, rxQueue, rx_done, result, spiFailed>>

dma_spi_rx_callback ==
  /\ rxQueue # <<>>
  /\ rx_done' = Head(rxQueue) /\ rxQueue' = Tail(rxQueue)
  /\ UNCHANGED <<transfer, dmaAt, txQueue, tx_done, result, spiFailed>>

WaitEnds ==
  \/ dmaAt = "tx_wait" /\ tx_done # "none"
  \/ dmaAt = "rx_wait" /\ rx_done # "none"

(* rx_buf is copied, and the lock given back. *)
TransferEnds ==
  /\ WaitEnds
  /\ Return("len")
  /\ UNCHANGED <<txQueue, rxQueue, tx_done, rx_done, spiFailed>>

(* Mutant: the channel of a receive that timed out goes on. *)
TimeoutLeavesRx ==
  /\ dmaAt \in {"tx_wait", "rx_wait"} /\ ~WaitEnds
  /\ txQueue' = IF dmaAt = "tx_wait" THEN <<>> ELSE txQueue
  /\ Return("ETIMEDOUT")
  /\ UNCHANGED <<rxQueue, tx_done, rx_done, spiFailed>>

(* 5 s are over: dmaengine_terminate_sync on the channel waited for. *)
WaitTimesOut ==
  /\ dmaAt \in {"tx_wait", "rx_wait"} /\ ~WaitEnds
  /\ txQueue' = IF dmaAt = "tx_wait" THEN <<>> ELSE txQueue
  /\ rxQueue' = IF dmaAt = "rx_wait" THEN <<>> ELSE rxQueue
  /\ Return("ETIMEDOUT")
  /\ UNCHANGED <<tx_done, rx_done, spiFailed>>

DmaSpiNext ==
  \/ TransferBegins("write") \/ TransferBegins("read")
  \/ SubmitTx \/ SubmitRx \/ PrepFails \/ spi_sync \/ SpiSyncFails
  \/ dma_spi_tx_callback \/ dma_spi_rx_callback
  \/ TransferEnds \/ WaitTimesOut

DmaSpiSpec == DmaSpiInit /\ [][DmaSpiNext]_dmaVars

-----------------------------------------------------------------------------
(* Properties. *)

(* A read() that succeeds was completed by its own descriptor, so the buffer  *)
(* it copies is full; timeouts and transfers that got no descriptor before    *)
(* it do not matter.  Only an spi_sync that failed after both descriptors     *)
(* were submitted leaves one behind (dma_spi_drv.c:128-143, 156-160,         *)
(* 172-180).                                                                *)
ReadIsItsOwn ==
  [][TransferEnds /\ transfer = "read" /\ rx_done = "old" => spiFailed]_dmaVars

(* dma_spi_drv.c:162-170 waits for the TX completion of the transfer.          *)
(* Violated: a read() before submits a descriptor nobody waits for.           *)
WriteIsItsOwn ==
  [][TransferEnds /\ transfer = "write" => tx_done = "own" \/ spiFailed]_dmaVars

-----------------------------------------------------------------------------
(* The inductive invariant behind ReadIsItsOwn. *)

(* Where a transfer may be. *)
PlacesOf == [none |-> {"out"}, write |-> {"tx", "spi", "tx_wait"},
             read |-> {"tx", "rx", "spi", "rx_wait"}]

(* Until the spi_sync of a read fails, the receive channel holds nothing but *)
(* the descriptor of the read that is under way, and that read's completion  *)
(* was reset after the last one before it.                                   *)
RxInv ==
  /\ dmaAt \in PlacesOf[transfer]
  /\ ~ spiFailed =>
       /\ rxQueue # <<>> =>
            /\ rxQueue = <<"own">> /\ rx_done = "none"
            /\ transfer = "read" /\ dmaAt \in {"spi", "rx_wait"}
       /\ transfer = "read" /\ dmaAt = "rx" => rx_done = "none"
       /\ transfer = "read" /\ dmaAt \in {"spi", "rx_wait"} => rx_done # "old"

=============================================================================

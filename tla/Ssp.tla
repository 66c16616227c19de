-------------------------------- MODULE Ssp --------------------------------
(***************************************************************************)
(* A transfer on the SPI bus (drivers/ssp.c): the loop that feeds one FIFO *)
(* and empties the other, between any two steps of which the hardware may  *)
(* move any number of frames, since interrupts hold the loop up.  Frame i  *)
(* is answered by reply i.                                                 *)
(***************************************************************************)
EXTENDS Integers, Sequences, SequencesExt

CONSTANTS
    FifoSize,       \* frames in each FIFO: 8 on the chip
    FrameCounts     \* the sizes of transfers asked for

ASSUME SspSizes == FifoSize \in Nat \ {0} /\ FrameCounts \subseteq Nat

VARIABLES
    ssp_pc,         \* "idle", "fill" or "read": the two inner loops
    ssp_size,       \* frames to transfer
    ssp_count,      \* frames handed to the TX FIFO
    tx_fifo, shift, rx_fifo,    \* hardware: frames that wait, go out, have come in
    data_in,        \* the replies stored
    rx_overrun      \* LPC_SSP_INTR_RX_OVERRUN happened in this transfer

ssp_vars == <<ssp_pc, ssp_size, ssp_count, tx_fifo, shift, rx_fifo, data_in, rx_overrun>>

SspInit ==
    /\ ssp_pc = "idle" /\ ssp_size = 0 /\ ssp_count = 0
    /\ tx_fifo = <<>> /\ shift = <<>> /\ rx_fifo = <<>>
    /\ data_in = <<>> /\ rx_overrun = FALSE

TxNotFull == Len(tx_fifo) < FifoSize
RxFull    == Len(rx_fifo) = FifoSize
Busy      == tx_fifo # <<>> \/ shift # <<>>
TxHalfEmpty == Len(tx_fifo) * 2 <= FifoSize

spi_transfer_bytes ==
    /\ ssp_pc = "idle"
    /\ ssp_size' \in FrameCounts
    /\ ssp_pc' = "fill" /\ ssp_count' = 0 /\ data_in' = <<>> /\ rx_overrun' = FALSE
    /\ UNCHANGED <<tx_fifo, shift, rx_fifo>>

\* The first inner loop.
CanFill == ssp_count < ssp_size /\ TxNotFull /\ ~RxFull
FillTx ==
    /\ ssp_pc = "fill"
    /\ IF CanFill
       THEN /\ tx_fifo' = Append(tx_fifo, ssp_count + 1)
            /\ ssp_count' = ssp_count + 1
            /\ UNCHANGED ssp_pc
       ELSE ssp_pc' = "read" /\ UNCHANGED <<tx_fifo, ssp_count>>
    /\ UNCHANGED <<ssp_size, shift, rx_fifo, data_in, rx_overrun>>

\* The second, of spi_transfer_bytes.  That of spi_transfer_words, the mutant,
\* does not look at RX_FULL: with a full RX FIFO and an empty TX FIFO neither
\* loop has anything to do while frames remain.
MustReadAsWords ==
    rx_fifo # <<>> /\ ~(ssp_count < ssp_size /\ TxHalfEmpty)
MustRead ==
    RxFull \/ (rx_fifo # <<>> /\ ~(ssp_count < ssp_size /\ TxHalfEmpty))

\* Mutant: the transfer ends with its last frame sent instead of received.
GoOnForFrames == ssp_count < ssp_size
GoOn == ssp_count < ssp_size \/ Busy \/ rx_fifo # <<>>

ReadReply ==
    /\ ssp_pc = "read"
    /\ IF MustRead
       THEN /\ data_in' = Append(data_in, Head(rx_fifo)) /\ rx_fifo' = Tail(rx_fifo)
            /\ UNCHANGED ssp_pc
       ELSE ssp_pc' = (IF GoOn THEN "fill" ELSE "idle") /\ UNCHANGED <<data_in, rx_fifo>>
    /\ UNCHANGED <<ssp_size, ssp_count, tx_fifo, shift, rx_overrun>>

FrameStarts ==
    /\ shift = <<>> /\ tx_fifo # <<>>
    /\ shift' = <<Head(tx_fifo)>> /\ tx_fifo' = Tail(tx_fifo)
    /\ UNCHANGED <<ssp_pc, ssp_size, ssp_count, rx_fifo, data_in, rx_overrun>>

\* SSP_0_Handler only counts the overruns; the reply is lost.
FrameEnds ==
    /\ shift # <<>> /\ shift' = <<>>
    /\ IF RxFull THEN rx_overrun' = TRUE /\ UNCHANGED rx_fifo
                 ELSE rx_fifo' = rx_fifo \o shift /\ UNCHANGED rx_overrun
    /\ UNCHANGED <<ssp_pc, ssp_size, ssp_count, tx_fifo, data_in>>

SspLoop == FillTx \/ ReadReply
SspNext == spi_transfer_bytes \/ SspLoop \/ FrameStarts \/ FrameEnds

SspSpec == SspInit /\ [][SspNext]_ssp_vars

\* The loop is resumed after each interrupt, and the bus's clock runs.
SspFairness == WF_ssp_vars(SspLoop) /\ WF_ssp_vars(FrameStarts) /\ WF_ssp_vars(FrameEnds)

----------------------------------------------------------------------------
SspTypeOK ==
    /\ ssp_pc \in {"idle", "fill", "read"} /\ ssp_size \in FrameCounts \cup {0}
    /\ ssp_count \in 0 .. ssp_size
    /\ Len(tx_fifo) <= FifoSize /\ Len(shift) <= 1 /\ Len(rx_fifo) <= FifoSize
    /\ rx_overrun \in BOOLEAN

\* The replies are stored in the order of their frames, and a transfer in which
\* the RX FIFO never overflowed ends with all of them ("there's no need to count
\* Rx data as it is equal to Tx data", ssp.c:228).
RepliesInOrder ==
    /\ \A i, j \in DOMAIN data_in : i < j => data_in[i] < data_in[j]
    /\ ssp_pc = "idle" /\ ~rx_overrun => data_in = [i \in 1 .. ssp_size |-> i]

\* A transfer, which must end however long interrupts hold its loop up between
\* two of its steps.
SspWaits == ssp_pc # "idle"

============================================================================

------------------------------- MODULE SdMmc --------------------------------
(***************************************************************************)
(* A memory card on the SPI bus (extdrv/sdmmc.c), which the main loop uses *)
(* while an interrupt reads a thermocouple (extdrv/max31855_thermocouple.c)*)
(* on the same bus: one mutex, one chip select each.  Old cards are        *)
(* addressed in bytes, large ones in sectors; a block may be smaller than  *)
(* a sector.  A sector is SectorSize units, and a buffer holds one value.  *)
(***************************************************************************)
EXTENDS Integers

CONSTANTS
    SectorSize,         \* MMC_MAX_SECTOR_SIZE
    BlockSizes,         \* powers of two, SectorSize at most
    Blocks, Values

ASSUME SdAssumption ==
    /\ SectorSize \in Nat \ {0} /\ BlockSizes \subseteq 1 .. SectorSize
    /\ Blocks \subseteq Nat

CardKinds == {"SC", "HC"}
Units == 0 .. (SectorSize * (1 + CHOOSE n \in Blocks : \A m \in Blocks : n >= m)) - 1

VARIABLES
    sd_pc,              \* "idle", "held", "deselect" or "unlock": of a card operation
    sd_op,              \* the operation in progress
    th_pc,              \* "idle" or "reading": the interrupt
    spi_mutex,          \* the bus is taken
    selected,           \* the chips that are selected
    card,               \* the card in the slot, or "none"
    card_state,         \* "off", "idle" or "ready"
    card_blocklen,
    card_mem,
    card_type,          \* the driver's, "unknown" at first
    block_size,         \* the driver's
    sd_ready,           \* the caller has seen the card ready, and no sdmmc_init since
    sd_initialized,     \* sdmmc_init_end has been called and no sdmmc_init since
    sd_written,         \* history: the value of each block, or "unsure"
    sd_read             \* the values of the last block read, and which

sd_card == <<card, card_state, card_blocklen, card_mem>>
sd_driver == <<card_type, block_size, sd_ready, sd_initialized>>
sd_vars == <<sd_pc, sd_op, th_pc, spi_mutex, selected, sd_card, sd_driver, sd_written, sd_read>>

NothingRead == [block |-> -1, values |-> {}]
SdOp(name, block, value) == [name |-> name, block |-> block, value |-> value]
NoSdOp == SdOp("none", -1, "none")

SdInit ==
    /\ sd_pc = "idle" /\ sd_op = NoSdOp /\ th_pc = "idle"
    /\ spi_mutex = FALSE /\ selected = {}
    /\ card \in CardKinds /\ card_state = "off" /\ card_blocklen = SectorSize
    /\ card_mem = [u \in Units |-> "blank"]
    /\ card_type = "unknown" /\ block_size \in BlockSizes
    /\ sd_ready = FALSE /\ sd_initialized = FALSE
    /\ sd_written = [b \in Blocks |-> "unsure"] /\ sd_read = NothingRead

\* The operations, in the order a caller may use them in: sdmmc_init_end comes
\* when sdmmc_init_wait_card_ready has returned 0 (nothing in the driver checks it:
\* before, a large card does not say yet that it is one), blocks are read and
\* written after it, and then only if the type is known.
SdOperations ==
    {SdOp("init", -1, "none")}
    \cup (IF card_type # "unknown" THEN {SdOp("wait", -1, "none")} ELSE {})
    \cup (IF card_type # "unknown" /\ sd_ready THEN {SdOp("end", -1, "none")} ELSE {})
    \cup (IF sd_initialized /\ card_type # "unknown"
          THEN {SdOp("read", b, "none") : b \in Blocks} \cup [name: {"write"}, block: Blocks, value: Values]
          ELSE {})

\* What an operation does first: spi_get_mutex and its chip select.  sdmmc_init
\* forgets the type before.
SdCall ==
    /\ sd_pc = "idle" /\ th_pc = "idle" /\ sd_pc' = "held"
    /\ sd_op' \in SdOperations
    /\ spi_mutex' = TRUE /\ selected' = selected \cup {"card"}
    /\ card_type' = IF sd_op'.name = "init" THEN "unknown" ELSE card_type
    /\ sd_ready' = (sd_ready /\ sd_op'.name # "init")
    /\ sd_initialized' = (sd_initialized /\ sd_op'.name # "init")
    /\ sd_read' = NothingRead
    /\ UNCHANGED <<th_pc, sd_card, block_size, sd_written>>

\* An operation is over, by its end or by a goto to it.
SdGoto == sd_pc' = "deselect" /\ UNCHANGED sd_op

\* What a card has become when an operation fails after the card has done its part.
CardAfter(name) ==
    IF card_state = "off" /\ name # "init" THEN <<card_state, card_blocklen>>
    ELSE CASE name = "init" -> <<"idle", SectorSize>>
           [] name = "wait" -> <<"ready", card_blocklen>>
           [] name = "end"  -> <<card_state, block_size>>
           [] OTHER         -> <<card_state, card_blocklen>>

\* A command fails: no answer, an error bit, a timeout or a sum that differs.
\* After a write that fails the block is the old one, the new one or neither.
SdFails ==
    /\ sd_pc = "held" /\ th_pc = "idle"
    /\ SdGoto
    /\ sd_written' = IF sd_op.name = "write"
                     THEN [b \in Blocks |-> IF b = sd_op.block THEN "unsure" ELSE sd_written[b]]
                     ELSE sd_written
    \* sdmmc_init keeps the type it has found when its last command fails, and
    \* sdmmc_init_end loses it only when the block length is refused
    /\ card_type' \in (CASE sd_op.name = "init" -> {"unknown", "SC"}
                         [] sd_op.name = "end" -> {card_type, "unknown"}
                         [] OTHER -> {card_type})
    /\ sd_initialized' = (sd_initialized \/ (sd_op.name = "end" /\ card_type' = "unknown"))
    /\ \E done \in BOOLEAN :
         LET after == IF done /\ card # "none" THEN CardAfter(sd_op.name)
                      ELSE <<card_state, card_blocklen>>
         IN  card_state' = after[1] /\ card_blocklen' = after[2]
    /\ UNCHANGED <<th_pc, spi_mutex, selected, card, card_mem, block_size, sd_ready, sd_read>>

\* sdmmc_init: the card goes to its idle state and tells its version; whether
\* it is a large one is asked later.
sdmmc_init ==
    /\ sd_pc = "held" /\ th_pc = "idle" /\ sd_op.name = "init" /\ card # "none"
    /\ card_state' = "idle" /\ card_blocklen' = SectorSize /\ card_type' = "SC"
    /\ SdGoto
    /\ UNCHANGED <<th_pc, spi_mutex, selected, card, card_mem, block_size, sd_ready,
                   sd_initialized, sd_written, sd_read>>

\* sdmmc_init_wait_card_ready, which its caller repeats until it returns 0.
sdmmc_init_wait_card_ready ==
    /\ sd_pc = "held" /\ th_pc = "idle" /\ sd_op.name = "wait" /\ card_state # "off"
    /\ card_state' \in {card_state, "ready"}
    /\ sd_ready' = (card_state' = "ready")
    /\ SdGoto
    /\ UNCHANGED <<th_pc, spi_mutex, selected, card, card_blocklen, card_mem, card_type,
                   block_size, sd_initialized, sd_written, sd_read>>

\* sdmmc_init_end: the card's addressing and the length of its blocks.
sdmmc_init_end ==
    /\ sd_pc = "held" /\ th_pc = "idle" /\ sd_op.name = "end" /\ card_state = "ready"
    /\ card_type' = card /\ card_blocklen' = block_size /\ sd_initialized' = TRUE
    /\ SdGoto
    /\ UNCHANGED <<th_pc, spi_mutex, selected, card, card_state, card_mem, block_size,
                   sd_ready, sd_written, sd_read>>

\* Mutant: the shift of the address is left out.
BlockNumber(block) == block
\* The address in a command: "Non SDHC cards use address and not block number".
BlockAddress(block) == IF card_type = "HC" THEN block ELSE block * block_size

\* The units the card gives or takes for an address, in its own way of counting,
\* and those the driver keeps: the rest of a sector is dropped, or written with
\* the same data again.
CardUnits(address) ==
    IF card = "HC" THEN (address * SectorSize) .. (address * SectorSize + SectorSize - 1)
    ELSE address .. (address + card_blocklen - 1)
DriverUnits(address) ==
    IF card = "HC" THEN (address * SectorSize) .. (address * SectorSize + block_size - 1)
    ELSE CardUnits(address)

\* A transfer has the length and the sum the card expects.
SameLength == card = card_type \/ block_size = SectorSize

\* sdmmc_read_block: a card that is not ready says so in the answer.
sdmmc_read_block ==
    /\ sd_pc = "held" /\ th_pc = "idle" /\ sd_op.name = "read" /\ card_state = "ready"
    /\ SameLength /\ CardUnits(BlockAddress(sd_op.block)) \subseteq Units
    /\ sd_read' = [block |-> sd_op.block,
                   values |-> {card_mem[u] : u \in DriverUnits(BlockAddress(sd_op.block))}]
    /\ SdGoto
    /\ UNCHANGED <<th_pc, spi_mutex, selected, sd_card, sd_driver, sd_written>>

\* sdmmc_write_block.  The card may store the block and then time out.
sdmmc_write_block ==
    /\ sd_pc = "held" /\ th_pc = "idle" /\ sd_op.name = "write" /\ card_state = "ready"
    /\ SameLength /\ CardUnits(BlockAddress(sd_op.block)) \subseteq Units
    /\ card_mem' = [u \in Units |-> IF u \in CardUnits(BlockAddress(sd_op.block))
                                    THEN sd_op.value ELSE card_mem[u]]
    /\ sd_written' \in {[b \in Blocks |-> IF b = sd_op.block THEN v ELSE sd_written[b]]
                          : v \in {sd_op.value, "unsure"}}
    /\ SdGoto
    /\ UNCHANGED <<th_pc, spi_mutex, selected, card, card_state, card_blocklen, sd_driver, sd_read>>

\* The release at the end of every operation.
SdRelease ==
    /\ th_pc = "idle"
    /\ \/ sd_pc = "deselect" /\ sd_pc' = "unlock" /\ selected' = selected \ {"card"}
          /\ UNCHANGED <<sd_op, spi_mutex>>
       \/ sd_pc = "unlock" /\ sd_pc' = "idle" /\ spi_mutex' = FALSE /\ sd_op' = NoSdOp
          /\ UNCHANGED selected
    /\ UNCHANGED <<th_pc, sd_card, sd_driver, sd_written, sd_read>>

\* max31855_sensor_read in an interrupt, which gives up when the bus is taken.
\* Mutant: it does not look at what spi_get_mutex returns.
ReadAnyway ==
    \/ th_pc = "idle" /\ th_pc' = "reading"
       /\ spi_mutex' = TRUE /\ selected' = selected \cup {"thermocouple"}
       /\ UNCHANGED <<sd_pc, sd_op, sd_card, sd_driver, sd_written, sd_read>>
    \/ th_pc = "reading" /\ th_pc' = "idle"
       /\ spi_mutex' = FALSE /\ selected' = selected \ {"thermocouple"}
       /\ UNCHANGED <<sd_pc, sd_op, sd_card, sd_driver, sd_written, sd_read>>
max31855_sensor_read ==
    \/ th_pc = "idle" /\ ~spi_mutex /\ th_pc' = "reading"
       /\ spi_mutex' = TRUE /\ selected' = selected \cup {"thermocouple"}
       /\ UNCHANGED <<sd_pc, sd_op, sd_card, sd_driver, sd_written, sd_read>>
    \/ th_pc = "reading" /\ th_pc' = "idle"
       /\ spi_mutex' = FALSE /\ selected' = selected \ {"thermocouple"}
       /\ UNCHANGED <<sd_pc, sd_op, sd_card, sd_driver, sd_written, sd_read>>

\* The card is taken out, or another one put in: it has yet to be initialised.
CardSwapped ==
    /\ card' \in CardKinds \cup {"none"} /\ card_state' = "off" /\ card_blocklen' = SectorSize
    /\ card_mem' = [u \in Units |-> "blank"]
    /\ sd_written' = [b \in Blocks |-> "unsure"] /\ sd_read' = NothingRead
    /\ UNCHANGED <<sd_pc, sd_op, th_pc, spi_mutex, selected, sd_driver>>

SdNext ==
    \/ SdCall \/ SdFails \/ sdmmc_init \/ sdmmc_init_wait_card_ready \/ sdmmc_init_end
    \/ sdmmc_read_block \/ sdmmc_write_block \/ SdRelease
    \/ max31855_sensor_read \/ CardSwapped
SdSpec == SdInit /\ [][SdNext]_sd_vars

SdTypeOK ==
    /\ sd_pc \in {"idle", "held", "deselect", "unlock"} /\ th_pc \in {"idle", "reading"}
    /\ spi_mutex \in BOOLEAN /\ selected \subseteq {"card", "thermocouple"}
    /\ card \in CardKinds \cup {"none"} /\ card_state \in {"off", "idle", "ready"}
    /\ card_blocklen \in 1 .. SectorSize /\ card_mem \in [Units -> Values \cup {"blank"}]
    /\ card_type \in CardKinds \cup {"unknown"} /\ block_size \in BlockSizes

\* One chip at a time is selected, by whoever holds the mutex; and whatever has
\* failed, an operation leaves the bus to the next one (sdmmc.c:368-375).
BusIsShared ==
    /\ \A c, d \in selected : c = d
    /\ selected # {} => spi_mutex
    /\ sd_pc = "idle" /\ th_pc = "idle" => ~spi_mutex

\* A block that is read is the one last written at its number, whatever the
\* kind of card, the size of blocks, the failures and the cards swapped since.
ReadsWhatWasWritten ==
    sd_read.block # -1 /\ sd_written[sd_read.block] # "unsure" =>
        sd_read.values = {sd_written[sd_read.block]}

=============================================================================

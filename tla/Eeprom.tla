------------------------------- MODULE Eeprom -------------------------------
(***************************************************************************)
(* The I2C eeprom (extdrv/eeprom.c): a write is cut at the pages of the    *)
(* chip, which wraps inside a page and acknowledges nothing while it       *)
(* stores one; the driver polls it after each page.  The kind of chip is   *)
(* detected once and remembered, "none" included.                          *)
(***************************************************************************)
EXTENDS Integers

CONSTANTS
    PageSize, MemSize,  \* of the chip; MemSize a multiple of PageSize
    WriteCalls          \* records: offset, count

ASSUME EepromSizes ==
    /\ PageSize \in Nat \ {0} /\ MemSize \in Nat \ {0} /\ MemSize % PageSize = 0
    /\ WriteCalls \subseteq [offset: Nat, count: Nat]

VARIABLES
    ee_pc,          \* "idle", "page" or "poll" of eeprom_write
    eeprom_type,    \* "unknown", "none" or "found"
    ee_call,        \* the call of eeprom_write in progress, or the last one
    write_count,
    ee_ret,         \* "none", "error" or "count": what the last write returned
    ee_here,        \* the chip is powered
    ee_storing,     \* and in a write cycle
    ee_mem,         \* the addresses stored since the call began
    ee_cut          \* history: the chip lost its power since the call began

ee_vars == <<ee_pc, eeprom_type, ee_call, write_count, ee_ret,
             ee_here, ee_storing, ee_mem, ee_cut>>

EepromInit ==
    /\ ee_pc = "idle" /\ eeprom_type = "unknown"
    /\ ee_call = [offset |-> 0, count |-> 0] /\ write_count = 0 /\ ee_ret = "none"
    /\ ee_here = TRUE /\ ee_storing = FALSE /\ ee_mem = {} /\ ee_cut = FALSE

\* eeprom_detect: a chip that does not acknowledge its address is none; a bus
\* that is in use or fails is an error, which get_eeprom_type does not keep.
Detections ==
    IF eeprom_type # "unknown" THEN {eeprom_type}
    ELSE {"unknown", IF ee_here /\ ~ee_storing THEN "found" ELSE "none"}

\* The addresses a page write of size bytes at offset stores: the chip's
\* counter wraps at the end of the page.
Stored(offset, size) ==
    LET page == offset - (offset % PageSize)
    IN {(page + ((offset + i) % PageSize)) % MemSize : i \in 0 .. size - 1}

\* eeprom_write up to its loop, for a chip it finds and for one it does not.
eeprom_write ==
    /\ ee_pc = "idle"
    /\ ee_call' \in WriteCalls
    /\ eeprom_type' \in Detections
    /\ ee_mem' = {} /\ write_count' = 0 /\ ee_cut' = ~ee_here
    /\ IF eeprom_type' = "found" /\ ee_call'.count > 0
       THEN ee_pc' = "page" /\ ee_ret' = "none"
       ELSE ee_pc' = "idle" /\ ee_ret' = IF eeprom_type' = "found" THEN "count" ELSE "error"
    /\ UNCHANGED <<ee_here, ee_storing>>

\* Mutant: the first page is not cut at its end.
SizeOfFullPages(offset, rest) == IF PageSize > rest THEN rest ELSE PageSize
PageWriteSize(offset, rest) ==
    LET toEnd == PageSize - (offset % PageSize)
    IN IF toEnd > rest THEN rest ELSE toEnd

EepromOffset == ee_call.offset + write_count
EepromSize == PageWriteSize(EepromOffset, ee_call.count - write_count)

\* One turn of the loop: the page is written, or the transaction stops after
\* some of its bytes, which the chip stores.
WritePage ==
    /\ ee_pc = "page" /\ ee_here /\ ~ee_storing
    /\ \E n \in 0 .. EepromSize :
          /\ ee_mem' = ee_mem \cup Stored(EepromOffset, n)
          /\ ee_storing' = (n > 0)
          /\ \/ n = EepromSize /\ ee_pc' = "poll" /\ UNCHANGED ee_ret
             \/ n < EepromSize /\ ee_pc' = "idle" /\ ee_ret' = "error"
    /\ UNCHANGED <<eeprom_type, ee_call, write_count, ee_here, ee_cut>>

PageRefused ==
    /\ ee_pc = "page" /\ ~(ee_here /\ ~ee_storing)
    /\ ee_pc' = "idle" /\ ee_ret' = "error"
    /\ UNCHANGED <<eeprom_type, ee_call, write_count, ee_here, ee_storing, ee_mem, ee_cut>>

\* The wait for the page: its address is refused until it is stored.
EepromPoll ==
    /\ ee_pc = "poll" /\ ee_here /\ ~ee_storing
    /\ write_count' = write_count + EepromSize
    /\ IF write_count' < ee_call.count
       THEN ee_pc' = "page" /\ UNCHANGED ee_ret
       ELSE ee_pc' = "idle" /\ ee_ret' = "count"
    /\ UNCHANGED <<eeprom_type, ee_call, ee_here, ee_storing, ee_mem, ee_cut>>

StoringEnds ==
    /\ ee_storing
    /\ ee_storing' = FALSE
    /\ UNCHANGED <<ee_pc, eeprom_type, ee_call, write_count, ee_ret, ee_here, ee_mem, ee_cut>>

\* The chip loses its power, and the page it was storing with it, or gets it back.
ChipPower ==
    /\ ee_here' = ~ee_here /\ ee_storing' = FALSE /\ ee_cut' = TRUE
    /\ \/ UNCHANGED ee_mem
       \/ ee_storing /\ ee_mem' = ee_mem \ Stored(EepromOffset, EepromSize)
    /\ UNCHANGED <<ee_pc, eeprom_type, ee_call, write_count, ee_ret>>

\* The board restarts; the chip goes on with what it was storing.
EepromBoardRestarts ==
    /\ ee_pc' = "idle" /\ eeprom_type' = "unknown" /\ ee_ret' = "none"
    /\ write_count' = 0
    /\ UNCHANGED <<ee_call, ee_here, ee_storing, ee_mem, ee_cut>>

EepromNext ==
    \/ eeprom_write \/ WritePage \/ PageRefused \/ EepromPoll
    \/ StoringEnds \/ ChipPower \/ EepromBoardRestarts

EepromSpec == EepromInit /\ [][EepromNext]_ee_vars

\* The driver goes on polling and the chip ends what it stores.
EepromFairness == WF_ee_vars(WritePage \/ PageRefused \/ EepromPoll) /\ WF_ee_vars(StoringEnds)

EepromTypeOK ==
    /\ ee_pc \in {"idle", "page", "poll"} /\ eeprom_type \in {"unknown", "none", "found"}
    /\ ee_call \in WriteCalls \cup {[offset |-> 0, count |-> 0]} /\ write_count \in Nat
    /\ ee_ret \in {"none", "error", "count"} /\ {ee_here, ee_storing, ee_cut} \subseteq BOOLEAN
    /\ ee_mem \subseteq 0 .. MemSize - 1

\* Whatever stops a write, and wherever, only bytes of the buffer's place have
\* changed; and one that returns its count has stored them all (eeprom.c:154),
\* unless the chip lost its power meanwhile: the poll takes any answer for its end.
OnlyItsPlace ==
    LET place == {(ee_call.offset + i) % MemSize : i \in 0 .. ee_call.count - 1}
    IN ee_mem \subseteq place /\ (ee_ret = "count" /\ ~ee_cut => ee_mem = place)

\* eeprom_write, which ends unless the chip has gone away while it polls.
EepromWaits == ee_pc # "idle" /\ ee_here

============================================================================

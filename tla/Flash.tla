------------------------------- MODULE Flash --------------------------------
(***************************************************************************)
(* Programming of the flash (core/iap.c, and the commands of the boot ROM  *)
(* in core/rom_helpers.c): a sector is prepared, then erased or written,   *)
(* and the board may restart between any two commands or in one of them.   *)
(***************************************************************************)
EXTENDS Integers, FiniteSets

CONSTANTS
    FlashAddresses,     \* of half a kilobyte each, the smallest part written
    ImageSizes          \* of the parts given to flash_program_page

HalfKilo == 512
\* The sectors of the chip: sixteen of 4 kB, the others of 32 kB.
SectorStart(s) == IF s <= 16 THEN s * 4096 ELSE 65536 + (s - 16) * 32768
LastSector == 20

ASSUME FlashAssumption ==
    /\ FlashAddresses \subseteq {a \in 0 .. SectorStart(LastSector) - 1 : a % HalfKilo = 0}
    /\ ImageSizes \subseteq {HalfKilo, 2 * HalfKilo}

VARIABLES
    fl_mem,         \* what each part holds: what was written since it was erased
    fl_prepared,    \* the sectors the chip lets the next command change
    fl_call, fl_pc, \* the call under way, and its next command
    fl_known        \* history: what each part must hold, or "unknown"

flash_vars == <<fl_mem, fl_prepared, fl_call, fl_pc, fl_known>>

\* A part with a code that would protect the flash, and one without.
Images == {"plain", "protected"}
NoFlashCall == [op |-> "none", addr |-> 0, size |-> 0, image |-> "plain"]

FlashInit ==
    /\ fl_mem = [a \in FlashAddresses |-> {}] /\ fl_prepared = {}
    /\ fl_call = NoFlashCall /\ fl_pc = "idle"
    /\ fl_known = [a \in FlashAddresses |-> "erased"]

\* The sector in the chip's own terms, and the one the driver computes.
ChipSector(addr) ==
    CHOOSE s \in 0 .. LastSector - 1 : SectorStart(s) <= addr /\ addr < SectorStart(s + 1)
get_sector_number(addr) ==
    LET sector == addr \div 4096
    IN IF sector >= 16 THEN 14 + sector \div 8 ELSE sector

Covered(call) == {call.addr, call.addr + call.size - HalfKilo}
SectorsOf(call) == {ChipSector(a) : a \in Covered(call)}
PartsOf(call) ==
    {a \in FlashAddresses :
       IF call.op = "erase" THEN ChipSector(a) = ChipSector(call.addr) ELSE a \in Covered(call)}

----------------------------------------------------------------------------
FlashReturns == fl_call' = NoFlashCall /\ fl_pc' = "idle"

flash_erase_sector ==
    /\ fl_pc = "idle"
    /\ \E a \in FlashAddresses :
          fl_call' = [op |-> "erase", addr |-> a, size |-> HalfKilo, image |-> "plain"]
    /\ fl_pc' = "prepare" /\ UNCHANGED <<fl_mem, fl_prepared, fl_known>>

\* Callers erase a part before they write it.  The code that protects the flash
\* is in the second half kilobyte; it is looked for in the part for the start of the
\* flash, beyond the end of one of half a kilobyte.
Refused(call) ==
    call.addr = 0 /\ (call.size = HalfKilo \/ call.image = "protected")
Accepted(call) ==
    call.addr # 0 \/ call.size = HalfKilo \/ call.image = "plain"

flash_program_page ==
    /\ fl_pc = "idle"
    /\ \E call \in [op: {"program"}, addr: FlashAddresses, size: ImageSizes, image: Images] :
          /\ \A a \in Covered(call) : a \in FlashAddresses /\ fl_mem[a] = {}
          /\ \/ Refused(call) /\ FlashReturns
             \/ Accepted(call) /\ fl_call' = call /\ fl_pc' = "prepare"
    /\ UNCHANGED <<fl_mem, fl_prepared, fl_known>>

\* The ROM prepares the sector, or is busy.
iap_prepare_flash ==
    /\ fl_pc = "prepare"
    /\ \/ /\ fl_prepared' = {get_sector_number(fl_call.addr)}
          /\ fl_pc' = "command" /\ UNCHANGED fl_call
       \/ FlashReturns /\ UNCHANGED fl_prepared
    /\ UNCHANGED <<fl_mem, fl_known>>

\* What the parts of the call hold once it is done.
Changed(call, a) == IF call.op = "erase" THEN {} ELSE fl_mem[a] \cup {call.image}
Contents(call) == IF call.op = "erase" THEN "erased" ELSE call.image

\* iap_erase_flash_sectors and iap_copy_ram_to_flash, with the interrupts masked.
FlashCommand ==
    /\ fl_pc = "command" /\ fl_prepared' = {}
    /\ \/ /\ SectorsOf(fl_call) \subseteq fl_prepared
          /\ fl_mem' = [a \in FlashAddresses |->
                          IF a \in PartsOf(fl_call) THEN Changed(fl_call, a) ELSE fl_mem[a]]
          /\ fl_known' = [a \in FlashAddresses |->
                            IF a \in PartsOf(fl_call) THEN Contents(fl_call) ELSE fl_known[a]]
          /\ FlashReturns
       \/ /\ ~(SectorsOf(fl_call) \subseteq fl_prepared)
          /\ FlashReturns /\ UNCHANGED <<fl_mem, fl_known>>

\* The board restarts, in the command or before it: what the command was to change
\* is then unknown.
FlashRestart ==
    /\ fl_pc # "idle" /\ fl_prepared' = {}
    /\ FlashReturns
    /\ \/ UNCHANGED <<fl_mem, fl_known>>
       \/ /\ fl_pc = "command" /\ SectorsOf(fl_call) \subseteq fl_prepared
          /\ \E cut \in SUBSET PartsOf(fl_call) :
                /\ fl_mem' = [a \in FlashAddresses |->
                                IF a \in cut THEN {"torn"} ELSE fl_mem[a]]
                /\ fl_known' = [a \in FlashAddresses |->
                                  IF a \in cut THEN "unknown" ELSE fl_known[a]]

FlashNext ==
    \/ flash_erase_sector \/ flash_program_page \/ iap_prepare_flash \/ FlashCommand
    \/ FlashRestart

FlashSpec == FlashInit /\ [][FlashNext]_flash_vars

----------------------------------------------------------------------------
FlashTypeOK ==
    /\ fl_mem \in [FlashAddresses -> SUBSET (Images \cup {"torn"})]
    /\ fl_prepared \subseteq 0 .. LastSector
    /\ fl_call.addr \in FlashAddresses \cup {0} /\ fl_pc \in {"idle", "prepare", "command"}
    /\ fl_known \in [FlashAddresses -> Images \cup {"unknown", "erased"}]

\* The driver knows the sectors as the chip does: it prepares the one its address is
\* in, so only data that goes on in the next sector are refused; and through restarts,
\* refusals and a busy ROM a part holds what the last command that succeeded put there.
FlashHolds ==
    /\ \A a \in FlashAddresses : get_sector_number(a) = ChipSector(a)
    /\ fl_pc = "command" => fl_prepared = {ChipSector(fl_call.addr)}
    /\ \A a \in FlashAddresses :
          /\ fl_known[a] = "erased" => fl_mem[a] = {}
          /\ fl_known[a] \in Images => fl_mem[a] = {fl_known[a]}

============================================================================

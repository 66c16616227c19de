------------------------------- MODULE Tmp101 -------------------------------
(***************************************************************************)
(* The temperature sensor (extdrv/tmp101_temp_sensor.c).  The chip answers *)
(* a read with the register its pointer designates; the driver remembers   *)
(* the register it wrote there last, and does not write it again.  A       *)
(* transaction is complete or stops after some of its bytes (module        *)
(* I2cBus); the board may restart without the chip.                        *)
(***************************************************************************)
EXTENDS Integers

CONSTANTS Registers     \* TMP_REG_TEMPERATURE is "temperature", TMP_REG_CONFIG "config"

ASSUME RegistersType == {"temperature", "config"} \subseteq Registers

VARIABLES
    probe_ok,                   \* conf->probe_ok == 1
    last_accessed_register,
    tmp_pointer,                \* the chip's register pointer
    tmp_measured,               \* the register the last successful read returned
    lost                        \* history: a restart, or a read refused before its
                                \*   pointer was written, since the last write of it

tmp_vars == <<probe_ok, last_accessed_register, tmp_pointer, tmp_measured, lost>>

TmpInit ==
    /\ probe_ok = FALSE
    /\ last_accessed_register = "temperature" /\ tmp_pointer = "temperature"
    /\ tmp_measured = "none" /\ lost = FALSE

\* How far a transaction goes: the address is refused, the register is
\* refused, the register is written and the rest fails, or all of it is done.
Progress == {"no_address", "no_register", "register", "done"}
PointerWritten(p) == p \in {"register", "done"}

\* tmp101_probe_sensor fails.
tmp101_probe_sensor ==
    /\ ~probe_ok
    /\ UNCHANGED tmp_vars

\* tmp101_sensor_read: the pointer is written only if it is thought elsewhere.
ReadRegister(p) ==
    IF last_accessed_register = "temperature"
    THEN /\ tmp_measured' = IF p = "done" THEN tmp_pointer ELSE tmp_measured
         /\ UNCHANGED <<last_accessed_register, tmp_pointer, lost>>
    ELSE /\ tmp_pointer' = IF PointerWritten(p) THEN "temperature" ELSE tmp_pointer
         /\ tmp_measured' = IF p = "done" THEN tmp_pointer' ELSE tmp_measured
         /\ last_accessed_register' = "temperature"
         /\ lost' = ~PointerWritten(p)

tmp101_sensor_read ==
    \E p \in Progress : ReadRegister(p) /\ probe_ok' = (p = "done")

\* Mutant: the register written is not remembered.
WriteUnnoted ==
    \E p \in Progress :
        /\ tmp_pointer' = IF PointerWritten(p) THEN "config" ELSE tmp_pointer
        /\ lost' = (lost /\ ~PointerWritten(p))
        /\ probe_ok' = (p = "done")
        /\ UNCHANGED <<last_accessed_register, tmp_measured>>
\* tmp101_sensor_config and tmp101_sensor_start_conversion.
WriteConfig ==
    \E p \in Progress :
        /\ tmp_pointer' = IF PointerWritten(p) THEN "config" ELSE tmp_pointer
        /\ last_accessed_register' = "config"
        /\ lost' = (lost /\ ~PointerWritten(p))
        /\ probe_ok' = (p = "done")
        /\ UNCHANGED tmp_measured

\* The board restarts: its structures are as they were declared.
BoardRestarts ==
    /\ probe_ok' = FALSE /\ last_accessed_register' = "temperature"
    /\ tmp_measured' = "none" /\ lost' = TRUE
    /\ UNCHANGED tmp_pointer

\* The chip loses its power; its pointer comes back to the temperature.
ChipRestarts ==
    /\ tmp_pointer' = "temperature"
    /\ UNCHANGED <<probe_ok, last_accessed_register, tmp_measured, lost>>

TmpNext ==
    \/ tmp101_probe_sensor \/ tmp101_sensor_read \/ WriteConfig
    \/ BoardRestarts \/ ChipRestarts

TmpSpec == TmpInit /\ [][TmpNext]_tmp_vars

TmpTypeOK ==
    /\ probe_ok \in BOOLEAN /\ lost \in BOOLEAN
    /\ last_accessed_register \in Registers /\ tmp_pointer \in Registers
    /\ tmp_measured \in Registers \cup {"none"}

\* The driver knows the chip's pointer when it reads without writing it, unless
\* the board restarted or a read failed before the pointer was written.
PointerKnown ==
    (last_accessed_register = "temperature" /\ ~lost) => tmp_pointer = "temperature"

============================================================================

----------------------------- MODULE I2cSensors -----------------------------
(***************************************************************************)
(* The sensors of the I2C bus that have to be configured: humidity         *)
(* (extdrv/bme280_humidity_sensor.c), light (tsl256x_light_sensor.c), UV   *)
(* (veml6070_uv_sensor.c) and soil (chirp.c).  A call is several           *)
(* transactions, each of which is done or fails (module I2cBus), and a     *)
(* sensor may lose its power between two of them.                          *)
(***************************************************************************)
EXTENDS Integers, Sequences

CONSTANTS
    Channel0s, Channel1s,   \* raw values of the light sensor's channels
    ChScale,                \* chScale, in 1/2^CH_SCALE: 1024 at 402 ms and gain 16
    CS                      \* the light sensor is in a CS package

ASSUME LightConstants ==
    /\ Channel0s \subseteq Nat /\ Channel1s \subseteq Nat /\ ChScale \in Nat \ {0} /\ CS \in BOOLEAN

VARIABLES
    bme_probe_ok, bme_step,     \* the transaction bme280_configure is at
    bme_regs,                   \* the chip's configuration: "reset", "partial" or "set"
    cal,                        \* the parts of conf->cal that have been read
    bme_configured,             \* history: bme280_configure returned 0, and since then
                                \*   it was not called and the chip kept its power
    tsl_probe_ok, tsl_step,
    tsl_powered, tsl_timing,    \* the chip: powered up, timing set
    tsl_configured,             \* history: tsl256x_configure returned 0, and the chip
                                \*   has kept its power since it was probed
    tsl_read,                   \* the last values: channel0, channel1 and lux
    veml_probe_ok, veml_on,
    uv_raw,                     \* conversions its MSB and its LSB come from; 0 is none
    conversion, veml_msb,       \* the sensor's conversions, and the MSB a call has read
    chirp_probe_ok, light       \* chirp: "old", "converting" or "new"

bme_vars == <<bme_probe_ok, bme_step, bme_regs, cal, bme_configured>>
tsl_vars == <<tsl_probe_ok, tsl_step, tsl_powered, tsl_timing, tsl_configured, tsl_read>>
veml_vars == <<veml_probe_ok, veml_on, uv_raw, conversion, veml_msb>>
chirp_vars == <<chirp_probe_ok, light>>
sensors_vars == <<bme_vars, tsl_vars, veml_vars, chirp_vars>>

SensorsInit ==
    /\ bme_probe_ok = FALSE /\ bme_step = "idle" /\ bme_regs = "reset" /\ cal = {}
    /\ bme_configured = FALSE
    /\ tsl_probe_ok = FALSE /\ tsl_step = "idle" /\ tsl_powered = FALSE /\ tsl_timing = FALSE
    /\ tsl_configured = FALSE /\ tsl_read = [channel0 |-> 0, channel1 |-> 0, lux |-> 0]
    /\ veml_probe_ok = FALSE /\ veml_on = FALSE /\ uv_raw = [msb |-> 0, lsb |-> 0]
    /\ conversion = 1 /\ veml_msb = 0
    /\ chirp_probe_ok = FALSE /\ light = "old"

----------------------------------------------------------------------------
(* BME280. *)

\* What follows each transaction of bme280_configure: humidity's calibration is
\* in two parts, and is stored after the second one.
NextTransaction(step) ==
    CASE step = "write" -> "T" [] step = "T" -> "P" [] step = "P" -> "Ha"
      [] step = "Ha" -> "Hb" [] OTHER -> "idle"
CalPart(step) == CASE step = "T" -> {"T"} [] step = "P" -> {"P"} [] step = "Hb" -> {"H"} [] OTHER -> {}

bme280_probe_sensor == IF bme_probe_ok THEN {TRUE} ELSE BOOLEAN

\* bme280_configure, or bme280_get_calibration_data alone.
bme280_configure ==
    /\ bme_step = "idle"
    /\ \E ok \in bme280_probe_sensor, first \in {"write", "T"} :
          /\ bme_probe_ok' = ok
          /\ bme_step' = IF ok THEN first ELSE "idle"
          /\ bme_configured' = (bme_configured /\ (~ok \/ first = "T"))
    /\ UNCHANGED <<bme_regs, cal, tsl_vars, veml_vars, chirp_vars>>

GoesTo(ok) == IF ok THEN NextTransaction(bme_step) ELSE "idle"

Bme280Step ==
    /\ bme_step # "idle"
    /\ \E ok \in BOOLEAN :
          /\ bme_step' = GoesTo(ok)
          /\ bme_probe_ok' = (ok /\ bme_probe_ok)
          /\ cal' = IF ok THEN cal \cup CalPart(bme_step) ELSE cal
          /\ bme_regs' \in IF bme_step # "write" THEN {bme_regs}
                            ELSE IF ok THEN {"set"} ELSE {bme_regs, "partial"}
          /\ bme_configured' = (bme_configured \/ (bme_step = "Hb" /\ bme_step' = "idle" /\ ok
                                                      /\ bme_regs = "set"))
    /\ UNCHANGED <<tsl_vars, veml_vars, chirp_vars>>

\* A sensor that does not answer is probed again, and not configured.
bme280_sensor_read ==
    /\ bme_step = "idle"
    /\ \E found \in bme280_probe_sensor, ok \in BOOLEAN : bme_probe_ok' = (found /\ ok)
    /\ UNCHANGED <<bme_step, bme_regs, cal, bme_configured, tsl_vars, veml_vars, chirp_vars>>

Bme280LosesPower ==
    /\ bme_regs' = "reset" /\ bme_configured' = FALSE
    /\ UNCHANGED <<bme_probe_ok, bme_step, cal, tsl_vars, veml_vars, chirp_vars>>

----------------------------------------------------------------------------
(* TSL256x. *)

\* The probe powers the sensor up, and reads its control register half a second
\* later; a sensor already probed is not powered up again.
tsl256x_configure ==
    /\ tsl_step = "idle"
    /\ tsl_step' = IF tsl_probe_ok THEN "timing" ELSE "power"
    /\ tsl_configured' = (tsl_configured /\ tsl_probe_ok)
    /\ UNCHANGED <<tsl_probe_ok, tsl_powered, tsl_timing, tsl_read, bme_vars, veml_vars, chirp_vars>>

TslPower(ok) ==
    /\ tsl_step = "power"
    /\ tsl_powered' = (tsl_powered \/ ok)
    /\ tsl_step' = IF ok THEN "check" ELSE "idle"
    /\ UNCHANGED <<tsl_probe_ok, tsl_timing, tsl_configured>>

TslCheck(ok) ==
    /\ tsl_step = "check"
    /\ tsl_probe_ok' = ok /\ tsl_step' = IF ok THEN "timing" ELSE "idle"
    /\ tsl_configured' = (ok /\ tsl_powered)
    /\ UNCHANGED <<tsl_powered, tsl_timing>>

TslTiming(ok) ==
    /\ tsl_step = "timing"
    /\ tsl_timing' = (tsl_timing \/ ok) /\ tsl_step' = "idle"
    /\ tsl_probe_ok' = ok /\ tsl_configured' = (tsl_configured /\ ok)
    /\ UNCHANGED tsl_powered

Tsl256xStep ==
    /\ \E ok \in BOOLEAN : TslPower(ok) \/ TslCheck(ok) \/ TslTiming(ok)
    /\ UNCHANGED <<tsl_read, bme_vars, veml_vars, chirp_vars>>

\* calculate_lux: a line for each range of the ratio of the channels.
Line(k, b, m) == [k |-> k, b |-> b, m |-> m]
Lines ==
    IF CS
    THEN <<Line(67, 516, 429), Line(133, 552, 705), Line(200, 595, 867), Line(266, 642, 991),
           Line(333, 375, 477), Line(410, 257, 295), Line(666, 55, 43), Line(666, 0, 0)>>
    ELSE <<Line(64, 498, 446), Line(128, 532, 721), Line(192, 575, 891), Line(256, 624, 1022),
           Line(312, 367, 508), Line(410, 210, 251), Line(666, 24, 18), Line(666, 0, 0)>>

Scaled(channel) == (channel * ChScale) \div 1024
Ratio(c0, c1) == ((IF c0 # 0 THEN (c1 * 1024) \div c0 ELSE 0) + 1) \div 2
LineOf(ratio) ==
    CHOOSE i \in 1 .. 8 : /\ i = 8 \/ ratio <= Lines[i].k
                          /\ \A j \in 1 .. i - 1 : ratio > Lines[j].k

\* The unsigned difference of 32 bits, rounded and without its 14 lowest bits:
\* "lux < 0" is never true of it.
Difference(c0, c1) == LET line == Lines[LineOf(Ratio(c0, c1))] IN c0 * line.b - c1 * line.m
calculate_lux(c0, c1) == ((Difference(c0, c1) + 8192) \div 16384) % 262144

\* tsl256x_sensor_read, whether the sensor was probed or not.
tsl256x_sensor_read ==
    /\ tsl_step = "idle"
    /\ \/ /\ tsl_probe_ok' = FALSE /\ UNCHANGED tsl_read
       \/ /\ \E ch0 \in Channel0s, ch1 \in Channel1s :
                LET c0 == IF tsl_powered THEN Scaled(ch0) ELSE 0
                    c1 == IF tsl_powered THEN Scaled(ch1) ELSE 0
                IN tsl_read' = [channel0 |-> c0, channel1 |-> c1, lux |-> calculate_lux(c0, c1)]
          /\ UNCHANGED tsl_probe_ok
    /\ UNCHANGED <<tsl_step, tsl_powered, tsl_timing, tsl_configured, bme_vars, veml_vars, chirp_vars>>

Tsl256xLosesPower ==
    /\ tsl_powered' = FALSE /\ tsl_timing' = FALSE /\ tsl_configured' = FALSE
    /\ UNCHANGED <<tsl_probe_ok, tsl_step, tsl_read, bme_vars, veml_vars, chirp_vars>>

----------------------------------------------------------------------------
(* VEML6070: the two bytes of a value are read by two transactions, a       *)
(* millisecond apart, and the sensor goes on converting.                    *)

veml6070_configure ==
    /\ veml_msb = 0
    /\ \E found \in (IF veml_probe_ok THEN {TRUE} ELSE BOOLEAN), ok \in BOOLEAN :
          /\ veml_probe_ok' = (found /\ ok)
          /\ veml_on' = (veml_on \/ (found /\ ok))
    /\ UNCHANGED <<uv_raw, conversion, veml_msb, bme_vars, tsl_vars, chirp_vars>>

\* The first byte overwrites the caller's value.
veml6070_sensor_read ==
    /\ veml_msb = 0
    /\ \E found \in (IF veml_probe_ok THEN {TRUE} ELSE BOOLEAN), ok \in BOOLEAN :
          /\ veml_probe_ok' = (found /\ ok)
          /\ IF found /\ ok
             THEN veml_msb' = conversion /\ uv_raw' = [msb |-> conversion, lsb |-> 0]
             ELSE UNCHANGED <<veml_msb, uv_raw>>
    /\ UNCHANGED <<veml_on, conversion, bme_vars, tsl_vars, chirp_vars>>

Veml6070ReadsLsb ==
    /\ veml_msb # 0
    /\ \E ok \in BOOLEAN :
          /\ veml_probe_ok' = ok
          /\ uv_raw' = IF ok THEN [uv_raw EXCEPT !.lsb = conversion] ELSE uv_raw
    /\ veml_msb' = 0
    /\ UNCHANGED <<veml_on, conversion, bme_vars, tsl_vars, chirp_vars>>

\* A conversion lasts far longer than the millisecond between the two bytes.
Veml6070Converts ==
    /\ veml_on /\ conversion < 3 /\ (veml_msb # 0 => conversion = veml_msb)
    /\ conversion' = conversion + 1
    /\ UNCHANGED <<veml_probe_ok, veml_on, uv_raw, veml_msb, bme_vars, tsl_vars, chirp_vars>>

----------------------------------------------------------------------------
(* Chirp: a read never waits for the light it has asked for. *)

chirp_probe_sensor == IF chirp_probe_ok THEN {TRUE} ELSE BOOLEAN

\* A read that fails makes the next call probe the sensor again,
chirp_sensor_read ==
    /\ \E found \in chirp_probe_sensor, ok \in BOOLEAN : chirp_probe_ok' = (found /\ ok)
    /\ UNCHANGED <<light, bme_vars, tsl_vars, veml_vars>>

\* a write that fails does not.  chirp_sensor_start_light_conversion, chirp_reset.
chirp_sensor_write ==
    /\ \E found \in chirp_probe_sensor, ok \in BOOLEAN, lights \in {"converting", "old"} :
          /\ chirp_probe_ok' = found
          /\ light' = IF found /\ ok THEN lights ELSE light
    /\ UNCHANGED <<bme_vars, tsl_vars, veml_vars>>

ChirpConverted ==
    /\ light = "converting" /\ light' = "new"
    /\ UNCHANGED <<chirp_probe_ok, bme_vars, tsl_vars, veml_vars>>

----------------------------------------------------------------------------
Bme280Next == bme280_configure \/ Bme280Step \/ bme280_sensor_read \/ Bme280LosesPower
Tsl256xNext == tsl256x_configure \/ Tsl256xStep \/ tsl256x_sensor_read \/ Tsl256xLosesPower
Veml6070Next ==
    veml6070_configure \/ veml6070_sensor_read \/ Veml6070ReadsLsb \/ Veml6070Converts
ChirpNext == chirp_sensor_read \/ chirp_sensor_write \/ ChirpConverted

SensorsNext == Bme280Next \/ Tsl256xNext \/ Veml6070Next \/ ChirpNext

SensorsSpec == SensorsInit /\ [][SensorsNext]_sensors_vars

----------------------------------------------------------------------------
SensorsTypeOK ==
    /\ bme_probe_ok \in BOOLEAN /\ bme_step \in {"idle", "write", "T", "P", "Ha", "Hb"}
    /\ bme_regs \in {"reset", "partial", "set"} /\ cal \subseteq {"T", "P", "H"}
    /\ tsl_step \in {"idle", "power", "check", "timing"}
    /\ tsl_read \in [channel0: Nat, channel1: Nat, lux: 0 .. 262143]
    /\ uv_raw \in [msb: 0 .. 3, lsb: 0 .. 3] /\ conversion \in 1 .. 3 /\ veml_msb \in 0 .. 3
    /\ light \in {"old", "converting", "new"}
    /\ \A b \in {bme_configured, tsl_probe_ok, tsl_powered, tsl_timing, tsl_configured,
                 veml_probe_ok, veml_on, chirp_probe_ok} : b \in BOOLEAN

\* A sensor whose configuration succeeded measures as configured, its calibration
\* read, as long as it keeps its power: failed reads and new probes change nothing.
ConfiguredSensorsMeasure ==
    /\ bme_configured => bme_regs = "set" /\ cal = {"T", "P", "H"}
    /\ (tsl_configured /\ tsl_step = "idle") => tsl_powered /\ tsl_timing

\* The lux of a sensor whose first channel sees light is at most what that channel says:
\* the difference of the channels does not wrap below 0.  In a CS package it does, above
\* the 8192 counts that the rounding makes up for: the last line is steeper than its
\* range, and "do not allow negative lux value" (tsl256x_light_sensor.c:259) has no effect.
LuxIsBounded ==
    (tsl_read.channel0 # 0 /\ (CS => tsl_read.channel0 <= 8192)) =>
        tsl_read.lux <= tsl_read.channel0

============================================================================

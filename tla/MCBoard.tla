------------------------------ MODULE MCBoard ------------------------------
(***************************************************************************)
(* The boards' code for TLC, one instance of each module.  A behaviour is  *)
(* one of its parts, chosen at first: what they share (a UART, the I2C and *)
(* SPI buses, the tick) is in each of their modules as that part sees it.  *)
(***************************************************************************)
EXTENDS SensorBuffer, Serial, I2c, Ssp, Systick, SysTime, Watchdog, DtPlug,
        Tmp101, RtcPcf85363a, Eeprom, Ncn5120, SdMmc, Displays,
        CounterTimers, Gpio, LpcRtc, Adc, LinkedList, HostLink,
        I2cSensors, Cc1101, Clocks, Library, Ws2812, RadioFrames,
        Flash, Usleep

VARIABLE part

\* The transactions of the drivers of extdrv/: probes, a read without and one
\* with a register, and writes.
I2cTransactions ==
    {[cmd |-> <<"R">>, restart |-> 0, count |-> 0],
     [cmd |-> <<"R">>, restart |-> 0, count |-> 2],
     [cmd |-> <<"W">>, restart |-> 0, count |-> 0],
     [cmd |-> <<"W", "d", "d">>, restart |-> 0, count |-> 0],
     [cmd |-> <<"W", "d", "R">>, restart |-> 2, count |-> 2],
     [cmd |-> <<"W", "d", "d", "R">>, restart |-> 3, count |-> 1]}

\* Writes of the EEPROM within a page, over its end and over a whole page, at
\* the start, in the middle and before the end of the memory.
EepromWrites == [offset: {0, 3, 5}, count: {1, 2, 6}]

DtPackets ==
    [type: {"ping", "reset"}, quick: {TRUE}, fits: {TRUE}, needs: {FALSE}]
      \cup [type: {"errors", "other"}, quick: {TRUE}, fits: {TRUE}, needs: {TRUE}]
      \cup [type: {"other"}, quick: {TRUE}, fits: {TRUE}, needs: {FALSE}]
      \cup [type: {"set_time"}, quick: {FALSE}, fits: BOOLEAN, needs: {FALSE}]
      \cup [type: {"set_time", "user_info"}, quick: {FALSE}, fits: {TRUE}, needs: {TRUE}]

TmpRegisters == {"temperature", "config"}
TwoCallbacks == {"first", "second"}
SectorValues == {"a", "b"}

\* A timer whose first match resets it and raises the interrupt and whose second
\* one stops it, on the clock, on an input and with an input that clears it, and
\* one configured by specific code; PWMs, one without a period.
TimerConfig ==
    [specific |-> FALSE, counter |-> FALSE, count_chan |-> 0, reset_on_cap |-> MAX_CHANNELS,
     uses_match |-> TRUE, match |-> [c \in Channels |-> c + 1],
     match_control |-> [c \in Channels |-> IF c = 0 THEN {"interrupt", "reset"} ELSE {"stop"}],
     cap_control |-> [c \in Channels |-> IF c = 0 THEN {} ELSE {"edge", "interrupt"}]]
TimerUses ==
    {TimerConfig, [TimerConfig EXCEPT !.counter = TRUE], [TimerConfig EXCEPT !.specific = TRUE],
     [TimerConfig EXCEPT !.counter = TRUE, !.reset_on_cap = 1, !.uses_match = FALSE]}
PwmUses ==
    [period: {0, 2}, period_chan: {0}, outputs: {{1}}, match_values: {[c \in Channels |-> 1]}]

\* A packet that announces errors, a quick one whose second byte is the start, a reply
\* without data whose size was never set, and one whose data look like a start.
ModulePackets ==
    {[kind |-> "error", type |-> 1, info |-> <<5, 0>>, data |-> << >>],
     [kind |-> "quick", type |-> 14, info |-> <<7, 35>>, data |-> << >>],
     [kind |-> "none", type |-> 1, info |-> <<2, 0>>, data |-> << >>],
     [kind |-> "data", type |-> 14, info |-> << >>, data |-> <<35, 35>>]}

\* Formats of the applications: numbers in text, of each sign, base and padding, and
\* texts, some of which a small buffer cuts.
Number(kind, flags, width, num) ==
    [kind |-> kind, flags |-> flags, width |-> width, num |-> num, text |-> << >>]
Text(length) ==
    [kind |-> "s", flags |-> {}, width |-> 0, num |-> 0, text |-> [i \in 1 .. length |-> Letter]]
PrintedFormats ==
    {<<Text(3), left_of, Text(1), right_of, Text(1)>> :
        left_of \in {Number("d", {}, 3, 42), Number("d", {"0"}, 4, -7), Number("d", {"+"}, 5, 105)},
        right_of \in {Number("x", {"#"}, 0, 47), Number("x", {"0"}, 4, 10), Number("u", {}, 0, 0),
               Number("d", {" "}, 0, -120)}}

\* Words on both sides of every power of two; a block's bytes, every one of which
\* takes another entry of the table; numbers and what may follow them.
BitWords == UNION {{2 ^ k - 1, 2 ^ k, 2 ^ k + 6} : k \in 0 .. 30}
AllBytes == 0 .. 255
NumberStrings == {<< >>, <<1, 2, 9>>, <<15, 3>>, <<0, 7, 16, 1>>, <<4, 10, 11>>}

\* The library's functions keep no state: on these inputs they are compared with what
\* they should compute, once, before any behaviour.
ASSUME LibraryIsRight ==
    /\ \A format \in PrintedFormats, size \in {1, 5, 9, 16} : PrintedIsRight(format, size)
    /\ \A x \in BitWords : CountsAreExact(x)
    /\ \A byte \in AllBytes : CrcIsExact(0, <<byte>>, <<171, 171>>)
    /\ \A str \in NumberStrings, base \in {10, 16} : NumberIsRead(str, base)

Parts == {"buffer", "serial", "i2c", "ssp", "systick", "time", "watchdog", "dtplug",
          "tmp101", "rtc", "eeprom", "ncn5120", "sdmmc", "ssd130x", "lcd",
          "timer", "gpio", "lpcrtc", "adc", "list", "host",
          "bme280", "tsl256x", "veml6070", "chirp", "cc1101", "clocks", "epaper",
          "ws2812", "frames", "flash", "usleep"}
SensorParts == {"bme280", "tsl256x", "veml6070", "chirp"}

BoardInit ==
    /\ part \in Parts
    /\ Init /\ SerialInit /\ I2cInit /\ SspInit /\ SystickInit /\ SysTimeInit
    /\ WatchdogInit /\ DtPlugInit /\ TmpInit /\ RtcInit /\ EepromInit /\ NcnInit
    /\ SdInit /\ SsdInit /\ LcdInit /\ CounterTimersInit /\ GpioInit /\ LpcRtcInit
    /\ AdcInit /\ ListInit /\ HostInit /\ SensorsInit /\ Cc1101Init
    /\ ClocksInit /\ EpaperInit /\ WsInit /\ RadioFramesInit
    /\ FlashInit /\ UsleepInit
    /\ part # "sdmmc" => card = "HC" /\ block_size = SectorSize
    /\ ram = [c \in Cells |-> 1]

\* The step is of this part, and leaves the others as they are.
Others(p) ==
    /\ part = p /\ UNCHANGED part
    /\ p # "buffer"   => UNCHANGED vars
    /\ p # "serial"   => UNCHANGED serial_vars
    /\ p # "i2c"      => UNCHANGED i2c_vars
    /\ p # "ssp"      => UNCHANGED ssp_vars
    /\ p # "systick"  => UNCHANGED systick_vars
    /\ p # "time"     => UNCHANGED time_vars
    /\ p # "watchdog" => UNCHANGED wd_vars
    /\ p # "dtplug"   => UNCHANGED dt_vars
    /\ p # "tmp101"   => UNCHANGED tmp_vars
    /\ p # "rtc"      => UNCHANGED rtc_vars
    /\ p # "eeprom"   => UNCHANGED ee_vars
    /\ p # "ncn5120"  => UNCHANGED ncn_vars
    /\ p # "sdmmc"    => UNCHANGED sd_vars
    /\ p # "ssd130x"  => UNCHANGED ssd_vars
    /\ p # "lcd"      => UNCHANGED lcd_vars
    /\ p # "timer"    => UNCHANGED ct_vars
    /\ p # "gpio"     => UNCHANGED gpio_vars
    /\ p # "lpcrtc"   => UNCHANGED lpcrtc_vars
    /\ p # "adc"      => UNCHANGED adc_vars
    /\ p # "list"     => UNCHANGED list_vars
    /\ p # "host"     => UNCHANGED host_vars
    /\ p \notin SensorParts => UNCHANGED sensors_vars
    /\ p # "cc1101"   => UNCHANGED cc1101_vars
    /\ p # "clocks"   => UNCHANGED clocks_vars
    /\ p # "epaper"   => UNCHANGED ep_vars
    /\ p # "ws2812"   => UNCHANGED ws_vars
    /\ p # "frames"   => UNCHANGED fr_vars
    /\ p # "flash"    => UNCHANGED flash_vars
    /\ p # "usleep"   => UNCHANGED us_vars

BoardNext ==
    \/ Others("buffer")   /\ Next
    \/ Others("serial")   /\ SerialNext
    \/ Others("i2c")      /\ I2cNext
    \/ Others("ssp")      /\ SspNext
    \/ Others("systick")  /\ SystickNext
    \/ Others("time")     /\ SysTimeNext
    \/ Others("watchdog") /\ WatchdogNext
    \/ Others("dtplug")   /\ DtPlugNext
    \/ Others("tmp101")   /\ TmpNext
    \/ Others("rtc")      /\ RtcNext
    \/ Others("eeprom")   /\ EepromNext
    \/ Others("ncn5120")  /\ NcnNext
    \/ Others("sdmmc")    /\ SdNext
    \/ Others("ssd130x")  /\ SsdNext
    \/ Others("lcd")      /\ LcdNext
    \/ Others("timer")    /\ CounterTimersNext
    \/ Others("gpio")     /\ GpioNext
    \/ Others("lpcrtc")   /\ LpcRtcNext
    \/ Others("adc")      /\ AdcNext
    \/ Others("list")     /\ ListNext
    \/ Others("host")     /\ HostNext
    \/ Others("bme280")   /\ Bme280Next
    \/ Others("tsl256x")  /\ Tsl256xNext
    \/ Others("veml6070") /\ Veml6070Next
    \/ Others("chirp")    /\ ChirpNext
    \/ Others("cc1101")   /\ Cc1101Next
    \/ Others("clocks")   /\ ClocksNext
    \/ Others("epaper")   /\ EpaperNext
    \/ Others("ws2812")   /\ WsNext
    \/ Others("frames")   /\ RadioFramesNext
    \/ Others("flash")    /\ FlashNext
    \/ Others("usleep")   /\ UsleepNext

board_vars ==
    <<part, vars, serial_vars, i2c_vars, ssp_vars, systick_vars, time_vars, wd_vars, dt_vars,
      tmp_vars, rtc_vars, ee_vars, ncn_vars, sd_vars, ssd_vars, lcd_vars,
      ct_vars, gpio_vars, lpcrtc_vars, adc_vars, list_vars, host_vars, sensors_vars,
      cc1101_vars, clocks_vars, ep_vars, ws_vars, fr_vars,
      flash_vars, us_vars>>

\* The fairness of each part; in the others' behaviours its actions are disabled.
BoardSpec ==
    /\ BoardInit /\ [][BoardNext]_board_vars
    /\ WF_vars(MainLoop) /\ WF_vars(Acknowledged)
    /\ SerialFairness /\ I2cFairness /\ SspFairness /\ SystickFairness
    /\ EepromFairness /\ DtPlugFairness /\ NcnFairness

----------------------------------------------------------------------------
\* Every variable of every part keeps the values its code gives it: those of the
\* behaviour's part, the others being as they were at first.
BoardTypeOK ==
    /\ part \in Parts
    /\ part = "buffer"   => TypeOK
    /\ part = "serial"   => SerialTypeOK
    /\ part = "i2c"      => I2cTypeOK /\ InBuffers
    /\ part = "ssp"      => SspTypeOK
    /\ part = "systick"  => SystickTypeOK
    /\ part = "time"     => SysTimeTypeOK
    /\ part = "watchdog" => WatchdogTypeOK
    /\ part = "dtplug"   => DtPlugTypeOK
    /\ part = "tmp101"   => TmpTypeOK
    /\ part = "rtc"      => RtcTypeOK
    /\ part = "eeprom"   => EepromTypeOK
    /\ part = "ncn5120"  => NcnTypeOK
    /\ part = "sdmmc"    => SdTypeOK
    /\ part = "ssd130x"  => SsdTypeOK
    /\ part = "lcd"      => LcdTypeOK
    /\ part = "timer"    => CounterTimersTypeOK
    /\ part = "gpio"     => GpioTypeOK
    /\ part = "lpcrtc"   => LpcRtcTypeOK
    /\ part = "adc"      => AdcTypeOK
    /\ part = "list"     => ListTypeOK
    /\ part = "host"     => HostTypeOK
    /\ part \in SensorParts => SensorsTypeOK
    /\ part = "cc1101"   => Cc1101TypeOK
    /\ part = "clocks"   => ClocksTypeOK
    /\ part = "epaper"   => EpaperTypeOK
    /\ part = "ws2812"   => WsTypeOK
    /\ part = "frames"   => RadioFramesTypeOK
    /\ part = "flash"    => FlashTypeOK
    /\ part = "usleep"   => UsleepTypeOK

\* Every active wait of the drivers ends: those of the UART, the I2C and SPI
\* transfers, msleep, the eeprom's polling, the KNX transceiver's answers and the
\* packet receiver of DTPlug, each unless its module says what keeps it.
CallWaits ==
    \/ SerialWaits \/ I2cWaits \/ SspWaits \/ SystickWaits \/ EepromWaits \/ DtPlugWaits \/ NcnWaits
CallsReturn == []<>~CallWaits

============================================================================

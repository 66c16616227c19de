------------------------------- MODULE Clocks -------------------------------
(***************************************************************************)
(* The main clock (core/system.c) and the dividers the UARTs, the I2C and  *)
(* SPI buses and the ADC derive from it: drivers/serial.c, i2c.c, ssp.c    *)
(* and adc.c compute theirs when they are turned on, and again when        *)
(* clock_config propagates a change.                                      *)
(***************************************************************************)
EXTENDS Integers

CONSTANTS
    FreqSels,   \* main clocks asked for, in multiples of the 12 MHz oscillator
    BaudRates, I2cRates, SspRates

\* At 60 MHz a lower baudrate needs a divisor of more than the 16 bits of the latch, and
\* 16 times a higher one does not fit in 32 bits; for a lower rate no prescaler of 8 bits
\* lets the search of ssp_clk_on end.
ASSUME ClockConstants ==
    /\ FreqSels \subseteq 1 .. 5
    /\ I2cRates \subseteq Nat \ {0}
    /\ BaudRates \subseteq {rate \in Nat : rate >= 58 /\ rate < 268435456}
    /\ SspRates \subseteq {rate \in Nat : rate >= 923}

VARIABLES
    main_clk,   \* the source of the main clock: "irc" or "pll"
    pll,        \* the PLL: its multiplier, 0 when powered off, and whether it has locked
    flash,      \* the flash access time, as configured for a frequency
    main_clock, \* lpc_private.main_clock
    clk_pc, freq_sel,           \* clock_config
    uart_clk,   \* saved baudrate, 0 when off; divisor latch; whether fractional_div is used
    i2c_clk,    \* saved frequency; clk_duty_high and clk_duty_low
    ssp_clk,    \* saved rate; the prescaler and ssp0_clk_div
    adc_power, adc_clkdiv  \* the ADC is powered; the divider in its control register

clock_vars == <<main_clk, pll, flash, main_clock, clk_pc, freq_sel>>
adc_clk == <<adc_power, adc_clkdiv>>
divider_vars == <<uart_clk, i2c_clk, ssp_clk, adc_clk>>
clocks_vars == <<clock_vars, divider_vars>>

LPC_IRC_OSC_CLK == 12000000
adc_clk_Val == 9000000

\* Up to 24 MHz the flash is read in one cycle.
FlashFor(sel) == IF sel <= 2 THEN "one cycle" ELSE IF sel = 5 THEN "slow" ELSE "multiple"

\* The dividers of a bus that is off matter no more: it sets them when turned on.
I2cOff == [clock |-> 0, high |-> 0, low |-> 0]
SspOff == [current |-> 0, prescale |-> 0, div |-> 0]

ClocksInit ==
    /\ main_clk = "irc" /\ pll = [m |-> 0, locked |-> FALSE] /\ flash = "multiple"
    /\ main_clock = LPC_IRC_OSC_CLK /\ clk_pc = "idle" /\ freq_sel = 1
    /\ uart_clk = [baudrate |-> 0, divisor |-> 1, fractional |-> FALSE]
    /\ i2c_clk = I2cOff /\ ssp_clk = SspOff
    /\ adc_power = FALSE /\ adc_clkdiv = 0

----------------------------------------------------------------------------
(* The dividers, from the main clock the system knows of. *)

LatchSize == 65536      \* the divisor has the 16 bits of two registers
Divisor(baudrate) == main_clock \div (baudrate * 16)

\* A low rate may be the nearest one.
ByInteger(baudrate) == baudrate <= 115200 \/ Divisor(baudrate) * baudrate * 16 = main_clock

InTable(baudrate) == main_clock = 48000000 /\ baudrate <= 1152000

\* A high rate that no integer gives is looked up in a table made for 48 MHz, and
\* left as it was with another clock.  The fraction is never taken back.
UartClk(baudrate) ==
    LET saved == [uart_clk EXCEPT !.baudrate = baudrate]
    IN IF ByInteger(baudrate) THEN [saved EXCEPT !.divisor = Divisor(baudrate) % LatchSize]
       ELSE IF ~InTable(baudrate) THEN saved
       ELSE IF baudrate <= 250000 THEN [saved EXCEPT !.divisor = 12, !.fractional = FALSE]
       ELSE [saved EXCEPT !.divisor = 2, !.fractional = TRUE]

I2cClk(clock) ==
    LET scl == main_clock \div clock
    IN [clock |-> clock, high |-> scl \div 2, low |-> scl - scl \div 2]

\* The smallest even prescaler with which the divider fits in its 8 bits.
Fits(div, p) == p % 2 = 0 /\ div \div p <= 255
Prescale(rate) ==
    LET div == main_clock \div rate
    IN CHOOSE p \in 2 .. 254 : Fits(div, p) /\ \A q \in 2 .. p - 1 : ~Fits(div, q)
SspDividers(rate) ==
    [prescale |-> Prescale(rate), div |-> (main_clock \div rate) \div Prescale(rate)]

\* The bits of the divider are set in the register, where none is cleared.
BitsOf(n) == {weight \in {1, 2, 4, 8, 16, 32, 64, 128} : (n \div weight) % 2 = 1}
AdcClkDiv ==
    CHOOSE n \in 0 .. 255 : BitsOf(n) = BitsOf(main_clock \div adc_clk_Val) \cup BitsOf(adc_clkdiv)

----------------------------------------------------------------------------
(* Turning the blocks on and off. *)

Ready == clk_pc = "idle"

uart_clk_on ==
    /\ Ready
    /\ \E baudrate \in BaudRates : uart_clk' = UartClk(baudrate)
    /\ UNCHANGED <<clock_vars, i2c_clk, ssp_clk, adc_clk>>

uart_clk_off ==
    /\ Ready /\ uart_clk' = [uart_clk EXCEPT !.baudrate = 0]
    /\ UNCHANGED <<clock_vars, i2c_clk, ssp_clk, adc_clk>>

i2c_on ==
    /\ Ready
    /\ \E clock \in I2cRates : i2c_clk' = I2cClk(clock)
    /\ UNCHANGED <<clock_vars, uart_clk, ssp_clk, adc_clk>>

i2c_off ==
    /\ Ready /\ i2c_clk' = I2cOff
    /\ UNCHANGED <<clock_vars, uart_clk, ssp_clk, adc_clk>>

\* ssp_master_on, and ssp_slave_on with a rate 16 times that of the master: what
\* is saved is the rate that was achieved.
ssp_on ==
    /\ Ready
    /\ \E rate \in SspRates :
          LET d == SspDividers(rate)
          IN /\ d.div > 0
             /\ ssp_clk' = [current |-> main_clock \div (d.prescale * d.div),
                            prescale |-> d.prescale, div |-> d.div]
    /\ UNCHANGED <<clock_vars, uart_clk, i2c_clk, adc_clk>>

ssp_off ==
    /\ Ready /\ ssp_clk' = SspOff
    /\ UNCHANGED <<clock_vars, uart_clk, i2c_clk, adc_clk>>

AdcPower ==
    /\ Ready /\ adc_power' = ~adc_power
    /\ adc_clkdiv' = IF adc_power' THEN AdcClkDiv ELSE adc_clkdiv
    /\ UNCHANGED <<clock_vars, uart_clk, i2c_clk, ssp_clk>>

----------------------------------------------------------------------------
(* clock_config, with interrupts masked.                                   *)

\* It falls back on the internal oscillator, which no longer needs the PLL.
clock_config_begins ==
    /\ Ready
    /\ \E sel \in FreqSels : freq_sel' = sel
    /\ main_clk' = "irc" /\ clk_pc' = "flash"
    /\ UNCHANGED <<pll, flash, main_clock, divider_vars>>

flash_accelerator_config ==
    /\ clk_pc = "flash"
    /\ flash' = FlashFor(freq_sel) /\ pll' = [m |-> 0, locked |-> FALSE]
    /\ main_clock' = freq_sel * LPC_IRC_OSC_CLK
    /\ clk_pc' = IF freq_sel = 1 THEN "propagate" ELSE "pll"
    /\ UNCHANGED <<main_clk, freq_sel, divider_vars>>

PowerUpPll ==
    /\ clk_pc = "pll"
    /\ pll' = [m |-> freq_sel, locked |-> FALSE] /\ clk_pc' = "lock"
    /\ UNCHANGED <<main_clk, flash, main_clock, freq_sel, divider_vars>>

PllLocks ==
    /\ pll.m # 0 /\ ~pll.locked /\ pll' = [pll EXCEPT !.locked = TRUE]
    /\ UNCHANGED <<main_clk, flash, main_clock, clk_pc, freq_sel, divider_vars>>

SwitchToPll ==
    /\ clk_pc = "lock" /\ pll.locked
    /\ main_clk' = "pll" /\ clk_pc' = "propagate"
    /\ UNCHANGED <<pll, flash, main_clock, freq_sel, divider_vars>>

\* Only what is turned on is updated.
uart_clk_update ==
    uart_clk' = IF uart_clk.baudrate # 0 THEN UartClk(uart_clk.baudrate) ELSE uart_clk
i2c_clock_update ==
    i2c_clk' = IF i2c_clk.clock # 0 THEN I2cClk(i2c_clk.clock) ELSE i2c_clk
ssp_clk_update ==
    ssp_clk' = IF ssp_clk.current = 0 THEN ssp_clk
               ELSE LET d == SspDividers(ssp_clk.current)
                    IN [ssp_clk EXCEPT !.prescale = d.prescale, !.div = d.div]

\* The ADC always is updated, and may take the write of
\* its register without power or not.
propagate_main_clock ==
    /\ clk_pc = "propagate"
    /\ uart_clk_update /\ i2c_clock_update /\ ssp_clk_update
    /\ adc_clkdiv' \in {AdcClkDiv} \cup (IF adc_power THEN {} ELSE {adc_clkdiv})
    /\ clk_pc' = "idle"
    /\ UNCHANGED <<main_clk, pll, flash, main_clock, freq_sel, adc_power>>

\* The board wakes up by a reset.
enter_deep_power_down ==
    /\ Ready /\ main_clk' = "irc" /\ clk_pc' = "down"
    /\ UNCHANGED <<pll, flash, main_clock, freq_sel, divider_vars>>

ClocksNext ==
    \/ uart_clk_on \/ uart_clk_off \/ i2c_on \/ i2c_off \/ ssp_on \/ ssp_off \/ AdcPower
    \/ clock_config_begins \/ flash_accelerator_config \/ PowerUpPll \/ PllLocks \/ SwitchToPll
    \/ propagate_main_clock \/ enter_deep_power_down

ClocksSpec == ClocksInit /\ [][ClocksNext]_clocks_vars

----------------------------------------------------------------------------
ClocksTypeOK ==
    /\ main_clk \in {"irc", "pll"} /\ pll \in [m: {0} \cup FreqSels, locked: BOOLEAN]
    /\ flash \in {"one cycle", "multiple", "slow"} /\ main_clock \in Nat /\ freq_sel \in 1 .. 5
    /\ clk_pc \in {"idle", "flash", "pll", "lock", "propagate", "down"}
    /\ uart_clk \in [baudrate: {0} \cup BaudRates, divisor: 0 .. LatchSize - 1, fractional: BOOLEAN]
    /\ i2c_clk \in [clock: {0} \cup I2cRates, high: Nat, low: Nat]
    /\ ssp_clk \in [current: Nat, prescale: 0 .. 254, div: 0 .. 255]
    /\ adc_power \in BOOLEAN /\ adc_clkdiv \in 0 .. 255

RealClock == IF main_clk = "irc" THEN LPC_IRC_OSC_CLK ELSE pll.m * LPC_IRC_OSC_CLK

\* n cycles of the main clock are the fewest steps of step cycles at rate or above.
Gives(rate, n, step) == rate * n <= RealClock /\ RealClock < rate * (n + step)

\* The program never runs on a PLL that has not locked or faster than the flash
\* is read, and once the clock is set, whatever it was when a block was turned on
\* and however often it has changed, the rates are those asked for (of an UART, an
\* integer one) and the ADC converts at 9 MHz at most.
RatesFollow ==
    /\ main_clk = "pll" => pll.m # 0 /\ pll.locked /\ flash = FlashFor(pll.m)
    /\ clk_pc = "idle" =>
         /\ main_clock = RealClock
         /\ (uart_clk.baudrate # 0 /\ uart_clk.baudrate <= 115200 /\ ~uart_clk.fractional) =>
              Gives(uart_clk.baudrate, 16 * uart_clk.divisor, 16)
         /\ i2c_clk.clock # 0 => Gives(i2c_clk.clock, i2c_clk.high + i2c_clk.low, 1)
         /\ ssp_clk.current # 0 =>
              Gives(ssp_clk.current, ssp_clk.prescale * ssp_clk.div, ssp_clk.prescale)
         /\ adc_power => RealClock <= adc_clk_Val * (adc_clkdiv + 1)

============================================================================

----------------------------- MODULE Displays -----------------------------
(***************************************************************************)
(* The displays of the boards: what each is sent, and what it then shows.  *)
(***************************************************************************)
EXTENDS Integers, Sequences

----------------------------------------------------------------------------
(***************************************************************************)
(* The OLED display (extdrv/ssd130x_oled_driver.c, ssd130x_oled_buffer.c): *)
(* a picture in memory, drawn there and then sent, whole or one tile at a  *)
(* time.  The chip writes what it gets in a window, column by column, and  *)
(* the driver sends no window when it believes it to be the whole screen.  *)
(* The I2C interrupt sends the bytes, from the memory: a call waits for it *)
(* or, in the asynchronous mode, returns success as soon as it has started *)
(* the transfer.                                                           *)
(***************************************************************************)

CONSTANTS
    Columns, Pages,     \* of the screen
    TileWidth           \* columns of a tile; a tile is one page high

ASSUME ScreenAssumption ==
    /\ {Columns, Pages, TileWidth} \subseteq Nat \ {0} /\ Columns % TileWidth = 0

VARIABLES
    gddram,             \* the picture in memory
    fullscreen,         \* the chip's window is believed to be the whole screen
    ssd_async,          \* the asynchronous mode, which the board chooses
    ssd_source,         \* the part of the picture that the last transfer sends
    ssd_left,           \* and how many of its bytes are still to be sent
    ram,                \* the chip's memory
    window,             \* its columns and pages
    pointer,            \* where the next byte goes
    ssd_torn,           \* history: a whole picture was cut, and no window sent since
    ssd_astray,         \* history: the chip took bytes of a picture as commands
    ssd_shown,          \* history: what was sent and has not been drawn over
    ssd_clean           \* history: nothing drawn, refused or cut since the transfer began

ssd_memory == <<gddram, fullscreen, ssd_async>>
ssd_transfer == <<ssd_source, ssd_left>>
ssd_chip == <<ram, window, pointer>>
ssd_vars == <<ssd_memory, ssd_transfer, ssd_chip, ssd_torn, ssd_astray, ssd_shown, ssd_clean>>

Cells == (0 .. Columns - 1) \X (0 .. Pages - 1)
Tiles == (0 .. (Columns \div TileWidth) - 1) \X (0 .. Pages - 1)
TileCells(t) == (t[1] * TileWidth .. t[1] * TileWidth + TileWidth - 1) \X {t[2]}
Window(c0, c1, p0, p1) == [c0 |-> c0, c1 |-> c1, p0 |-> p0, p1 |-> p1]
Whole == Window(0, Columns - 1, 0, Pages - 1)
TileWindow(t) == Window(t[1] * TileWidth, (t[1] + 1) * TileWidth - 1, t[2], t[2])

Width(w) == w.c1 - w.c0 + 1
Height(w) == w.p1 - w.p0 + 1
Size(w) == Width(w) * Height(w)
Corner(w) == <<w.c0, w.p0>>
\* The cell the pointer is at after n bytes: the chip goes along the columns of
\* its window, then to its next page, and from its end to its start.
After(w, p, n) ==
    LET at == (p[2] - w.p0) * Width(w) + (p[1] - w.c0) + n
    IN <<w.c0 + (at % Width(w)), w.p0 + ((at \div Width(w)) % Height(w))>>

SsdInit ==
    /\ gddram = [c \in Cells |-> 0] /\ fullscreen = FALSE /\ ssd_async \in BOOLEAN
    /\ ssd_source = Whole /\ ssd_left = 0
    /\ ram \in {[c \in Cells |-> v] : v \in {0, 1}}
    /\ window = Whole /\ pointer = <<0, 0>>
    /\ ssd_torn = FALSE /\ ssd_astray = FALSE /\ ssd_shown = {} /\ ssd_clean = FALSE

\* The n-th byte of the transfer is this cell of the picture.
SourceCell(n) == After(ssd_source, Corner(ssd_source), n)
BytesSent == Size(ssd_source) - ssd_left

\* The I2C interrupt sends the next byte, as the memory has it now.
ssd_send_byte ==
    /\ ssd_left > 0 /\ ssd_left' = ssd_left - 1
    /\ ram' = [ram EXCEPT ![pointer] = gddram[SourceCell(BytesSent)]]
    /\ pointer' = After(window, pointer, 1)
    /\ ssd_shown' = IF ssd_torn \/ ssd_astray THEN ssd_shown \ {pointer}
                    ELSE ssd_shown \cup {SourceCell(BytesSent)}
    /\ UNCHANGED <<ssd_memory, ssd_source, window, ssd_torn, ssd_astray, ssd_clean>>

\* The transfer is cut: the bus is lost, or the chip refuses a byte.  A call that
\* waits for it returns the error; in the asynchronous mode nobody is told.
ssd_cut ==
    /\ ssd_left > 0 /\ ssd_left' = 0
    /\ ssd_torn' = (ssd_torn \/ (fullscreen /\ BytesSent # 0))
    /\ ssd_clean' = FALSE
    /\ UNCHANGED <<ssd_memory, ssd_source, ssd_chip, ssd_astray, ssd_shown>>

\* ssd130x_buffer_set, _set_pixel and _set_tile: the picture alone changes, byte
\* after byte; in the asynchronous mode the interrupt may come between them.
buffer_set ==
    /\ ssd_async \/ ssd_left = 0
    /\ \E c \in Cells, v \in {0, 1} :
          /\ gddram[c] # v
          /\ gddram' = [gddram EXCEPT ![c] = v]
          /\ ssd_shown' = ssd_shown \ {c}
    /\ ssd_clean' = FALSE
    /\ UNCHANGED <<fullscreen, ssd_async, ssd_transfer, ssd_chip, ssd_torn, ssd_astray>>

\* ssd130x_display_on: the chip is reset, which leaves its window whole and makes
\* it refuse what is being sent to it; any of the commands that follow may fail,
\* which the caller is told and calls again.
display_on ==
    /\ ssd_async \/ ssd_left = 0
    /\ fullscreen' = FALSE /\ ssd_left' = 0
    /\ window' = Whole /\ pointer' = <<0, 0>> /\ ssd_torn' = FALSE /\ ssd_astray' = FALSE
    /\ ssd_clean' = FALSE
    /\ UNCHANGED <<gddram, ssd_async, ssd_source, ram, ssd_shown>>

\* The window's two commands, which wait for the bus and of which any may fail:
\* the chip then has none, its columns, or both of them, and the caller returns.
WindowRefused(w) ==
    /\ \/ UNCHANGED <<window, pointer>>
       \/ /\ window' = [window EXCEPT !.c0 = w.c0, !.c1 = w.c1]
          /\ pointer' = <<w.c0, pointer[2]>>
    /\ ssd_clean' = FALSE
    /\ UNCHANGED <<gddram, ssd_async, ssd_transfer, ram, ssd_torn, ssd_astray, ssd_shown>>

\* The transfer of a part of the picture is started.
SendsFrom(source) ==
    /\ ssd_source' = source /\ ssd_left' = Size(source)
    /\ ssd_clean' = ~(ssd_torn' \/ ssd_astray)
    /\ UNCHANGED <<gddram, ssd_async, ram, ssd_astray, ssd_shown>>

\* Mutant: the driver goes on believing in the whole screen.
TileForgotten == UNCHANGED fullscreen
TileNoted == fullscreen' = FALSE

\* ssd130x_send_data puts the chip's address and a control byte over the two bytes
\* of the picture before the tile and takes them back when the write returns: in
\* the asynchronous mode, most often before the interrupt has read them.  It then
\* addresses no chip, or another one, or ours, which takes what follows as commands
\* and data: what it shows is then not followed until it is reset.  The call
\* returns 0.
TileOvertaken(w) ==
    /\ ssd_async
    /\ window' = w /\ pointer' = Corner(w) /\ ssd_torn' = FALSE
    /\ \/ ssd_astray' = TRUE /\ ssd_shown' = {}
       \/ UNCHANGED <<ssd_astray, ssd_shown>>
    /\ ssd_clean' = FALSE
    /\ UNCHANGED <<gddram, ssd_async, ssd_transfer, ram>>

\* ssd130x_update_tile: the window, and the tile.
update_tile ==
    /\ ssd_left = 0 /\ TileNoted
    /\ \E t \in Tiles :
          \/ WindowRefused(TileWindow(t))
          \/ /\ window' = TileWindow(t) /\ pointer' = Corner(TileWindow(t))
             /\ ssd_torn' = FALSE /\ SendsFrom(TileWindow(t))
          \/ TileOvertaken(TileWindow(t))

\* ssd130x_display_full_screen: the window, if it is not believed to be whole
\* already, and the picture, from wherever the chip's pointer is.  The two bytes
\* before it are kept for the address.
display_full_screen ==
    /\ ssd_left = 0
    /\ \/ ~fullscreen /\ WindowRefused(Whole) /\ UNCHANGED fullscreen
       \/ /\ fullscreen' = TRUE
          /\ IF fullscreen THEN UNCHANGED <<window, pointer, ssd_torn>>
             ELSE window' = Whole /\ pointer' = <<0, 0>> /\ ssd_torn' = FALSE
          /\ SendsFrom(Whole)

SsdNext ==
    \/ ssd_send_byte \/ ssd_cut \/ buffer_set \/ display_on
    \/ update_tile \/ display_full_screen
SsdSpec == SsdInit /\ [][SsdNext]_ssd_vars

SsdTypeOK ==
    /\ gddram \in [Cells -> {0, 1}] /\ ram \in [Cells -> {0, 1}] /\ pointer \in Cells
    /\ {fullscreen, ssd_async, ssd_torn, ssd_astray, ssd_clean} \subseteq BOOLEAN
    /\ window.c0 <= window.c1 /\ window.p0 <= window.p1
    /\ ssd_left \in 0 .. Columns * Pages /\ ssd_shown \subseteq Cells

\* What was sent is on the screen, at its place, until it is drawn over: tiles and
\* whole pictures may alternate, any of them be cut, and in the asynchronous mode
\* the picture be drawn while it is sent.  A call that waits for its transfer and
\* returns success has shown all its part.  Two things are not claimed: what comes
\* after a whole picture that was cut, which shifts all those that send no window,
\* and the tiles of the asynchronous mode whose address was taken back too early.
ShownIsDrawn ==
    /\ \A c \in ssd_shown : ram[c] = gddram[c]
    /\ ssd_clean => \A n \in 0 .. BytesSent - 1 : SourceCell(n) \in ssd_shown

----------------------------------------------------------------------------
(***************************************************************************)
(* The character display on a four bit bus (extdrv/lcd_char.c): every byte *)
(* is two nibbles, and nothing but their count tells the chip which one it *)
(* gets.  The board may restart between two nibbles while the display      *)
(* keeps its power; lcdc_init must find its way back.                      *)
(***************************************************************************)

CONSTANT
    CharBytes       \* the bytes given to lcdc_write

ASSUME CharsAreBytes == CharBytes \subseteq 0 .. 255

VARIABLES
    lcd_steps,          \* what the board has still to put on the bus
    lcd_ready,          \* lcdc_init has returned
    lcd_eight,          \* the chip takes a byte per transfer
    lcd_half,           \* the high nibble the chip holds, or -1
    lcd_commands        \* history: the last instruction the chip has executed

lcd_vars == <<lcd_steps, lcd_ready, lcd_eight, lcd_half, lcd_commands>>

\* Transfers: a nibble of an instruction, of data (which the chip keeps), or
\* of a read, of which it is the nibble that counts and not the value.
Nibble(kind, value) == [kind |-> kind, value |-> value]
Transfers == [kind: {"instruction", "data", "read"}, value: 0 .. 15]

\* lcdc_perform_write: two nibbles, and after an instruction the reads of the
\* busy flag, a byte each, as often as the chip says it is busy (once here).
perform_write(byte, kind) ==
    <<Nibble(kind, byte \div 16), Nibble(kind, byte % 16)>>
        \o (IF kind = "instruction" THEN <<Nibble("read", 0), Nibble("read", 0)>> ELSE << >>)

\* Mutant: one transfer of 3 before the change to four bits.
InitOnce == <<Nibble("instruction", 3)>> \o perform_write(50, "instruction")
\* lcdc_init in four bit mode: 3, 3, and 0x32; then the function, the display
\* off and clear, and the mode.
InitSequence ==
    <<Nibble("instruction", 3), Nibble("instruction", 3)>> \o perform_write(50, "instruction")
lcdc_init ==
    InitSequence \o perform_write(40, "instruction") \o perform_write(8, "instruction")
        \o perform_write(1, "instruction") \o perform_write(6, "instruction")

\* A display that has just been powered takes bytes; the board starts lcdc_init.
LcdInit ==
    /\ lcd_steps = lcdc_init /\ lcd_ready = FALSE
    /\ lcd_eight = TRUE /\ lcd_half = -1 /\ lcd_commands = -1

\* The chip executes an instruction: 0x2n and 0x3n choose the width of its bus.
Executed(byte) ==
    /\ lcd_commands' = byte
    /\ lcd_eight' = IF byte \div 16 = 3 THEN TRUE ELSE IF byte \div 16 = 2 THEN FALSE ELSE lcd_eight

\* One pulse of the enable pin (lcdc_write_byte, lcdc_read_byte).
LcdTransfer ==
    /\ lcd_steps # << >>
    /\ lcd_steps' = Tail(lcd_steps)
    /\ lcd_ready' = (lcd_ready \/ lcd_steps' = << >>)
    /\ LET t == Head(lcd_steps) IN
       IF lcd_eight
       THEN /\ lcd_half' = -1   \* the low pins of the chip are not connected
            /\ IF t.kind = "instruction" THEN \E low \in {0, 15} : Executed(t.value * 16 + low)
               ELSE UNCHANGED <<lcd_eight, lcd_commands>>
       ELSE IF lcd_half = -1
       THEN lcd_half' = t.value /\ UNCHANGED <<lcd_eight, lcd_commands>>
       ELSE /\ lcd_half' = -1
            /\ IF t.kind = "instruction" THEN Executed(lcd_half * 16 + t.value)
               ELSE UNCHANGED <<lcd_eight, lcd_commands>>

\* lcdc_write, the instructions and lcdc_read, once the display is initialised.
lcdc_write ==
    /\ lcd_ready /\ lcd_steps = << >>
    /\ lcd_steps' \in {perform_write(b, "data") : b \in CharBytes}
    /\ UNCHANGED <<lcd_ready, lcd_eight, lcd_half, lcd_commands>>
lcdc_instruction ==
    /\ lcd_ready /\ lcd_steps = << >>
    /\ lcd_steps' \in {perform_write(b, "instruction") : b \in {1, 2, 12, 20, 64, 128, 192}}
    /\ UNCHANGED <<lcd_ready, lcd_eight, lcd_half, lcd_commands>>
lcdc_read ==
    /\ lcd_ready /\ lcd_steps = << >>
    /\ lcd_steps' = <<Nibble("read", 0), Nibble("read", 0)>>
    /\ UNCHANGED <<lcd_ready, lcd_eight, lcd_half, lcd_commands>>

\* The board restarts at any point, the display does not.
LcdBoardRestarts ==
    /\ lcd_steps' = lcdc_init /\ lcd_ready' = FALSE
    /\ UNCHANGED <<lcd_eight, lcd_half, lcd_commands>>

LcdNext == LcdTransfer \/ lcdc_write \/ lcdc_instruction \/ lcdc_read \/ LcdBoardRestarts
LcdSpec == LcdInit /\ [][LcdNext]_lcd_vars

LcdTypeOK ==
    /\ lcd_steps \in Seq(Transfers) /\ {lcd_ready, lcd_eight} \subseteq BOOLEAN
    /\ lcd_half \in -1 .. 15 /\ lcd_commands \in -1 .. 255

\* Once lcdc_init has returned the chip takes nibbles and is at the first one
\* whenever the driver is, however the board was restarted before; so the
\* instructions it executes are those that were sent.
NibblesInStep ==
    lcd_ready =>
        /\ ~lcd_eight
        /\ (lcd_steps = << >> \/ Len(lcd_steps) % 2 = 0) <=> lcd_half = -1

----------------------------------------------------------------------------
(***************************************************************************)
(* The e-paper display (extdrv/epaper.c): its controller is powered on and *)
(* off by a sequence of pins, registers and delays, and an image is sent   *)
(* again and again until the time of a stage has passed.  What the panel   *)
(* shows outlives its power and that of the board.                         *)
(***************************************************************************)

CONSTANTS
    Stages,         \* the enum epaper_stages that are drawn, and "uniform"
    EpLines,        \* lines of the panel: epaper_definition.lines
    StageTime,      \* stage_time, in ticks
    TickWrap,       \* bound: the tick counter wraps at it (2^32)
    MaxStages       \* bound: calls that draw

ASSUME EpaperConstants ==
    /\ "nothing" \notin Stages /\ EpLines \in Nat \ {0} /\ TickWrap \in Nat \ {0} /\ StageTime \in 0 .. TickWrap - 1
    /\ MaxStages \in Nat

VARIABLES
    pins,       \* output pins that are set
    pwm,        \* the PWM timer runs
    pumps,      \* register 5, the charge pumps: 0 when the panel is not powered
    output,     \* register 2: "off", "on" or "panel"
    ep_busy,    \* the busy pin: pulled up, it stays high without power
    ep_op, ep_pc,   \* the call under way and its step
    stage, ep_line,     \* what it draws, on the lines from first to last
    first, last,
    tick, start_tick,   \* the tick counter, and as it was when the call began
    ep_since,   \* history: ticks since then, up to StageTime
    shown,      \* what each line of the panel shows
    drawn       \* history: calls that drew, and what the last one has drawn to its end

power_vars == <<pins, pwm, pumps, output>>
ep_call == <<ep_op, ep_pc>>
frame_vars == <<stage, ep_line, first, last, start_tick>>
ep_vars == <<power_vars, ep_busy, ep_call, frame_vars, tick, ep_since, shown, drawn>>

EpLineNumbers == 0 .. EpLines - 1

EpaperInit ==
    /\ pins = {} /\ pwm = FALSE /\ pumps = 0 /\ output = "off" /\ ep_busy = TRUE
    /\ ep_op = "none" /\ ep_pc = 1
    /\ stage = "nothing" /\ ep_line = 0 /\ first = 0 /\ last = 0
    /\ tick = 0 /\ start_tick = 0 /\ ep_since = 0
    /\ shown = [i \in EpLineNumbers |-> "blank"]
    /\ drawn = [calls |-> 0, stage |-> "nothing", lines |-> {}]

----------------------------------------------------------------------------
(* Power on and power off, a step at a time. *)

\* epaper_cog_power_on, then epaper_cog_initialize.
OnSteps ==
    <<"clear pins", "start pwm", "power", "release", "reset", "release", "settings", "pump 1",
      "stop pwm", "pump 3", "pump 15", "enable">>

\* epaper_off, once its lines of nothing are sent.
OffSteps ==
    <<"border", "release", "disable", "pump 14", "pump 2", "pump 0", "power off", "discharge",
      "discharged">>

PinsAfter(step) ==
    CASE step \in {"clear pins", "power off", "discharged"} -> {}
      [] step = "power" -> {"power"}
      [] step = "release" -> {"power", "reset", "border"}
      [] step = "reset" -> pins \ {"reset"}
      [] step = "border" -> pins \ {"border"}
      [] step = "discharge" -> {"discharge"}
      [] OTHER -> pins

PumpsAfter(step) ==
    CASE step = "pump 1" -> 1 [] step = "pump 3" -> 3 [] step = "pump 15" -> 15
      [] step = "pump 14" -> 14 [] step = "pump 2" -> 2
      [] step \in {"pump 0", "reset", "clear pins", "power off"} -> 0 [] OTHER -> pumps

\* The first register is written once the controller is ready.
WaitsForReady(step) == step = "settings"

Does(step) ==
    /\ WaitsForReady(step) => ~ep_busy
    /\ pins' = PinsAfter(step) /\ pumps' = PumpsAfter(step)
    /\ pwm' = IF step = "start pwm" THEN TRUE ELSE IF step = "stop pwm" THEN FALSE ELSE pwm
    /\ output' = IF step = "enable" THEN "on"
                 ELSE IF step \in {"disable", "clear pins", "reset"} THEN "off" ELSE output
    /\ ep_busy' = (ep_busy \/ "power" \notin pins')

Steps == IF ep_op = "on" THEN OnSteps ELSE OffSteps

\* It must be off: see the header.
epaper_on ==
    /\ ep_op = "none" /\ pins = {}
    /\ ep_op' = "on" /\ ep_pc' = 1
    /\ UNCHANGED <<power_vars, ep_busy, frame_vars, tick, ep_since, shown, drawn>>

PowerStep ==
    /\ ep_op \in {"on", "off"}
    /\ Does(Steps[ep_pc])
    /\ IF ep_pc = Len(Steps) THEN ep_op' = "none" /\ ep_pc' = 1
       ELSE ep_pc' = ep_pc + 1 /\ UNCHANGED ep_op
    /\ UNCHANGED <<frame_vars, tick, ep_since, shown, drawn>>

----------------------------------------------------------------------------
(* Drawing. *)

BeginDrawing(what, a, b) ==
    /\ stage' = what /\ first' = a /\ last' = b /\ ep_line' = a
    /\ start_tick' = tick /\ ep_since' = 0
    /\ UNCHANGED <<power_vars, ep_busy, ep_pc, tick, shown>>

\* epaper_send_frame, epaper_send_partial_frame and epaper_uniform_display.
epaper_send_frame ==
    /\ ep_op = "none" /\ drawn.calls < MaxStages
    /\ \E what \in Stages, a, b \in EpLineNumbers :
          /\ a <= b /\ (what = "uniform" => a = 0 /\ b = EpLines - 1)
          /\ BeginDrawing(what, a, b)
    /\ ep_op' = "frame"
    /\ drawn' = [calls |-> drawn.calls + 1, stage |-> "nothing", lines |-> {}]

\* epaper_off first sends a frame of nothing, and a line beyond the panel.
epaper_off ==
    /\ ep_op = "none"
    /\ BeginDrawing("nothing", 0, EpLines)
    /\ ep_op' = "nothing" /\ UNCHANGED drawn

\* A line, each byte of which waits for the controller, and the output to the panel.
epaper_send_data_line ==
    /\ ep_op \in {"frame", "nothing"} /\ ep_line <= last /\ ~ep_busy
    /\ shown' = IF stage = "nothing" \/ output = "off" THEN shown
                ELSE [shown EXCEPT ![ep_line] = stage]
    /\ output' = "panel" /\ ep_line' = ep_line + 1
    /\ UNCHANGED <<pins, pwm, pumps, ep_busy, ep_call, stage, first, last, start_tick, tick, ep_since,
                   drawn>>

\* The unsigned difference: right over a wrap, whatever the FIXME says.
\* Mutant: the end of the stage, which wraps, is compared.
TimeLeftByEnd == tick < (start_tick + StageTime) % TickWrap
TimeLeft == (tick - start_tick) % TickWrap < StageTime

NextRound ==
    /\ ep_op = "frame" /\ ep_line > last
    /\ IF TimeLeft
       THEN ep_line' = first /\ UNCHANGED <<ep_call, drawn>>
       ELSE /\ ep_op' = "none"
            /\ drawn' = [drawn EXCEPT !.stage = stage, !.lines = first .. last]
            /\ UNCHANGED <<ep_pc, ep_line>>
    /\ UNCHANGED <<power_vars, ep_busy, stage, first, last, tick, start_tick, ep_since, shown>>

NothingSent ==
    /\ ep_op = "nothing" /\ ep_line > last
    /\ ep_op' = "off" /\ ep_pc' = 1
    /\ UNCHANGED <<power_vars, ep_busy, frame_vars, tick, ep_since, shown, drawn>>

----------------------------------------------------------------------------
(* The tick, the controller and the board. *)

EpTick ==
    /\ ep_op = "frame"
    /\ tick' = (tick + 1) % TickWrap
    /\ ep_since' = IF ep_since < StageTime THEN ep_since + 1 ELSE ep_since
    /\ UNCHANGED <<power_vars, ep_busy, ep_call, frame_vars, shown, drawn>>

BusyChanges ==
    /\ "power" \in pins /\ ep_busy' = ~ep_busy
    /\ UNCHANGED <<power_vars, ep_call, frame_vars, tick, ep_since, shown, drawn>>

\* A restart and epaper_config clear the pins; the panel goes on showing its lines.
EpBoardRestarts ==
    /\ pins' = {} /\ pwm' = FALSE /\ pumps' = 0 /\ output' = "off" /\ ep_busy' = TRUE
    /\ ep_op' = "none" /\ ep_pc' = 1 /\ tick' = 0 /\ ep_since' = 0
    /\ stage' = "nothing" /\ ep_line' = 0 /\ first' = 0 /\ last' = 0 /\ start_tick' = 0
    /\ UNCHANGED shown
    /\ drawn' = IF ep_op = "frame" THEN [drawn EXCEPT !.stage = "nothing", !.lines = {}] ELSE drawn

EpaperNext ==
    \/ epaper_on \/ PowerStep \/ epaper_send_frame \/ epaper_off \/ epaper_send_data_line
    \/ NextRound \/ NothingSent \/ EpTick \/ BusyChanges \/ EpBoardRestarts

EpaperSpec == EpaperInit /\ [][EpaperNext]_ep_vars

----------------------------------------------------------------------------
EpaperTypeOK ==
    /\ pins \subseteq {"power", "reset", "border", "discharge"} /\ pwm \in BOOLEAN
    /\ pumps \in {0, 1, 2, 3, 14, 15} /\ output \in {"off", "on", "panel"} /\ ep_busy \in BOOLEAN
    /\ ep_op \in {"none", "on", "frame", "nothing", "off"} /\ ep_pc \in 1 .. 12
    /\ stage \in Stages \cup {"nothing"} /\ {ep_line, last} \subseteq 0 .. EpLines + 1
    /\ tick \in 0 .. TickWrap - 1 /\ ep_since \in 0 .. StageTime
    /\ shown \in [EpLineNumbers -> Stages \cup {"blank"}]

\* The panel is never driven without its power, nor by more than its positive pumps
\* while the PWM still runs, and discharged only when it has neither; a stage lasts
\* its whole time, even over a wrap of the counter, and the lines of the last call
\* that drew to its end show it until another one begins, power and restarts or not.
EpaperIsSafe ==
    /\ pumps # 0 => "power" \in pins
    /\ pwm => pumps <= 1
    /\ "discharge" \in pins => pumps = 0 /\ "power" \notin pins
    /\ drawn.stage # "nothing" =>
         /\ ep_since = StageTime \/ stage # drawn.stage
         /\ \A i \in drawn.lines : shown[i] = drawn.stage

============================================================================

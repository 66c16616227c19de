-------------------------------- MODULE Gpio --------------------------------
(***************************************************************************)
(* The pins of a port and their interrupt (core/pio.c, drivers/gpio.c,     *)
(* extdrv/status_led.c).  The handler looks at the pins of the status it   *)
(* read, the lowest first: it calls the pin's callback, then clears its    *)
(* edge; levels and edges go on changing meanwhile.                        *)
(***************************************************************************)
EXTENDS Integers

CONSTANTS
    Pins,           \* the pins of the port: numbers
    RedPin, GreenPin,
    SensesUsed      \* the senses asked of set_gpio_callback

ASSUME GpioPins == Pins \subseteq Nat /\ RedPin \in Pins /\ GreenPin \in Pins

VARIABLES
    gpio_power,     \* the clock of the port: without it a register keeps its value
    callbacks,      \* gpio_callbacks_port0: the pins that have one
    data_dir,       \* the pins that are outputs
    level,          \* the pins that are high
    sense,          \* int_sense, int_both_edges and int_event of each pin
    int_enable, pio_irq,
    edges,          \* the edges detected and not cleared
    pio_status,         \* PIO_0_Handler: the pins it has still to deal with
    told,           \* its lowest pin has been called, and its edge is not yet cleared
    unheard         \* history: pins with an edge since their callback was last called

gpio_setup == <<gpio_power, callbacks, data_dir, sense, int_enable, pio_irq>>
gpio_vars == <<gpio_setup, level, edges, pio_status, told, unheard>>

Edges == {"both", "rising", "falling"}
Senses == Edges \cup {"low", "high"}

GpioInit ==
    /\ gpio_power = FALSE /\ callbacks = {} /\ data_dir = {} /\ level = {}
    /\ sense = [p \in Pins |-> "falling"] /\ int_enable = {} /\ pio_irq = FALSE
    /\ edges = {} /\ pio_status = {} /\ told = FALSE /\ unheard = {}

\* masked_int_status.
MaskedStatus ==
    {p \in int_enable : \/ p \in edges
                        \/ sense[p] = "low" /\ p \notin level
                        \/ sense[p] = "high" /\ p \in level}

Current == CHOOSE p \in pio_status : \A q \in pio_status : p <= q

\* The main loop runs while the handler does not.
Foreground == pio_status = {}

\* Is p's change to this level one that it detects ?
Detects(p, high) ==
    gpio_power /\ (sense[p] = "both" \/ sense[p] = (IF high THEN "rising" ELSE "falling"))

\* The levels change, by the code or from outside.  An edge that falls between
\* the call of its pin's callback and the clearing is not seen again.
Levels(now) ==
    LET Changed == (level \ now) \cup (now \ level)
        Seen == {p \in Changed : Detects(p, p \in now)}
        Lost == IF told THEN {Current} ELSE {}
    IN /\ level' = now /\ edges' = edges \cup Seen
       /\ unheard' = unheard \cup ((Seen \cap int_enable) \ Lost)

----------------------------------------------------------------------------
(* Configuration. *)

gpio_on ==
    /\ Foreground /\ gpio_power' = TRUE
    /\ UNCHANGED <<callbacks, data_dir, sense, int_enable, pio_irq, level, edges, pio_status, told, unheard>>

gpio_off ==
    /\ Foreground /\ gpio_power' = FALSE
    /\ UNCHANGED <<callbacks, data_dir, sense, int_enable, pio_irq, level, edges, pio_status, told, unheard>>

\* config_gpio: config_pio gives the pin its function; an output takes its value.
config_gpio(p, out, high) ==
    /\ Foreground
    /\ IF gpio_power
       THEN /\ data_dir' = IF out THEN data_dir \cup {p} ELSE data_dir \ {p}
            /\ Levels(IF ~out THEN level ELSE IF high THEN level \cup {p} ELSE level \ {p})
       ELSE UNCHANGED <<data_dir, level, edges, unheard>>
    /\ UNCHANGED <<gpio_power, callbacks, sense, int_enable, pio_irq, pio_status, told>>

\* set_gpio_callback: a sense it does not know leaves the callback registered.
set_gpio_callback(p, s) ==
    /\ Foreground
    /\ callbacks' = callbacks \cup {p}
    /\ data_dir' = IF gpio_power THEN data_dir \ {p} ELSE data_dir
    /\ IF gpio_power /\ s \in Senses
       THEN /\ sense' = [sense EXCEPT ![p] = s] /\ edges' = edges \ {p}
            /\ int_enable' = int_enable \cup {p} /\ unheard' = unheard \ {p}
       ELSE UNCHANGED <<sense, edges, int_enable, unheard>>
    /\ pio_irq' = (pio_irq \/ s \in Senses)
    /\ UNCHANGED <<gpio_power, level, pio_status, told>>

remove_gpio_callback(p) ==
    /\ Foreground
    /\ callbacks' = callbacks \ {p} /\ unheard' = unheard \ {p}
    /\ int_enable' = IF gpio_power THEN int_enable \ {p} ELSE int_enable
    /\ pio_irq' = (pio_irq /\ int_enable' # {})
    /\ UNCHANGED <<gpio_power, data_dir, sense, level, edges, pio_status, told>>

\* status_led: what its values set, clear and toggle; the rest of the port stays.
LedOrders ==
    {[set |-> {RedPin}, clear |-> {GreenPin}, toggle |-> {}],          \* red_only
     [set |-> {GreenPin}, clear |-> {RedPin}, toggle |-> {}],          \* green_only
     [set |-> {}, clear |-> {}, toggle |-> {RedPin}],                  \* red_toggle
     [set |-> {RedPin, GreenPin}, clear |-> {}, toggle |-> {}],        \* both
     [set |-> {}, clear |-> {}, toggle |-> {RedPin, GreenPin}],        \* toggle
     [set |-> {}, clear |-> {RedPin, GreenPin}, toggle |-> {}]}        \* none

Toggled(S) == (level \ S) \cup (S \ level)

status_led ==
    /\ Foreground /\ gpio_power
    /\ \E order \in LedOrders :
          LET Driven(S) == S \cap data_dir
          IN Levels((Toggled(Driven(order.toggle)) \cup Driven(order.set)) \ Driven(order.clear))
    /\ UNCHANGED <<gpio_setup, pio_status, told>>

----------------------------------------------------------------------------
(* The interrupt. *)

PIO_0_Handler ==
    /\ Foreground /\ pio_irq /\ gpio_power /\ MaskedStatus # {}
    /\ pio_status' = MaskedStatus
    /\ UNCHANGED <<gpio_setup, level, edges, told, unheard>>

PinCallback ==
    /\ ~Foreground /\ ~told
    /\ told' = TRUE /\ unheard' = unheard \ {Current}
    /\ UNCHANGED <<gpio_setup, level, edges, pio_status>>

EdgesAfterClear == edges \ {Current}

ClearEdge ==
    /\ ~Foreground /\ told
    /\ edges' = EdgesAfterClear /\ pio_status' = pio_status \ {Current} /\ told' = FALSE
    /\ UNCHANGED <<gpio_setup, level, unheard>>

\* A signal from outside changes an input.
PinChanges(p) ==
    /\ p \notin data_dir
    /\ Levels(IF p \in level THEN level \ {p} ELSE level \cup {p})
    /\ UNCHANGED <<gpio_setup, pio_status, told>>

GpioNext ==
    \/ gpio_on \/ gpio_off \/ status_led
    \/ \E p \in Pins :
          \/ \E out, high \in BOOLEAN : config_gpio(p, out, high)
          \/ \E s \in SensesUsed : set_gpio_callback(p, s)
          \/ remove_gpio_callback(p)
          \/ PinChanges(p)
    \/ PIO_0_Handler \/ PinCallback \/ ClearEdge

GpioSpec == GpioInit /\ [][GpioNext]_gpio_vars

----------------------------------------------------------------------------
GpioTypeOK ==
    /\ gpio_power \in BOOLEAN /\ pio_irq \in BOOLEAN /\ told \in BOOLEAN
    /\ callbacks \subseteq Pins /\ data_dir \subseteq Pins /\ level \subseteq Pins
    /\ int_enable \subseteq Pins /\ edges \subseteq Pins /\ pio_status \subseteq Pins
    /\ unheard \subseteq Pins /\ sense \in [Pins -> Senses]

\* An edge of a pin whose interrupt is enabled is not lost to the handling of
\* another pin: it is detected still, or its pin is one the handler has to call.
EdgeReachesItsPin == unheard \subseteq edges \cup pio_status

============================================================================

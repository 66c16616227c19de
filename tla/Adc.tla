-------------------------------- MODULE Adc --------------------------------
(***************************************************************************)
(* The analog to digital converter (drivers/adc.c).  Its control register  *)
(* keeps the channels, the start condition and the burst mode of the last  *)
(* start, and is changed a field at a time; conversions end while the main *)
(* loop asks for others and reads values.                                  *)
(***************************************************************************)
EXTENDS Integers, FiniteSets

CONSTANTS AdcChannels       \* NB_ADC_CHANNELS is 8

VARIABLES
    adc_powered,
    adc_channels, adc_start,    \* ctrl: the channels, and "none", "now" or "event"
    adc_burst,
    int_en,                     \* the channels whose conversion raises the interrupt
    converting,                 \* a start condition has come and its conversion has not ended
    adc_data,                   \* of each channel: "read", "done" or "overrun"
    adc_callback,
    adc_asked                   \* history: channels and kind of the last start

adc_ctrl == <<adc_channels, adc_start, adc_burst>>
adc_vars == <<adc_powered, adc_ctrl, int_en, converting, adc_data, adc_callback, adc_asked>>

Asked(kind, channels) == [kind |-> kind, channels |-> channels]

AdcInit ==
    /\ adc_powered = FALSE /\ adc_channels = {} /\ adc_start = "none" /\ adc_burst = FALSE
    /\ int_en = {} /\ converting = FALSE /\ adc_callback = FALSE
    /\ adc_data = [c \in AdcChannels |-> "read"]
    /\ adc_asked = Asked("nothing", {})

\* adc_on prevents a start that is not configured, and leaves a burst as it was.
adc_on ==
    /\ adc_powered' = TRUE /\ adc_start' = "none" /\ int_en' = {}
    /\ adc_callback' \in BOOLEAN
    /\ UNCHANGED <<adc_channels, adc_burst, converting, adc_data, adc_asked>>

adc_off ==
    /\ adc_powered' = FALSE /\ adc_callback' = FALSE /\ converting' = FALSE
    /\ UNCHANGED <<adc_ctrl, int_en, adc_data, adc_asked>>

StartOnce(c) == adc_channels' = {c} /\ adc_start' = "now" /\ adc_burst' = FALSE

adc_start_convertion_once ==
    /\ adc_powered
    /\ \E c \in AdcChannels, use_int \in BOOLEAN :
          /\ StartOnce(c)
          /\ int_en' = IF use_int THEN {c} ELSE {}
          /\ adc_asked' = Asked("once", {c})
    /\ converting' = TRUE
    /\ UNCHANGED <<adc_powered, adc_data, adc_callback>>

adc_start_burst_conversion ==
    /\ adc_powered
    /\ \E channels \in SUBSET AdcChannels :
          adc_channels' = channels /\ adc_asked' = Asked("burst", channels)
    /\ adc_burst' = TRUE /\ adc_start' = "none" /\ int_en' = {}
    /\ UNCHANGED <<adc_powered, converting, adc_data, adc_callback>>

adc_prepare_conversion_on_event ==
    /\ adc_powered
    /\ \E channels \in SUBSET AdcChannels, use_int \in BOOLEAN :
          /\ adc_channels' = channels /\ adc_asked' = Asked("event", channels)
          /\ int_en' = IF use_int THEN int_en ELSE {}
    /\ adc_start' = "event" /\ adc_burst' = FALSE
    /\ UNCHANGED <<adc_powered, converting, adc_data, adc_callback>>

\* The event that was to start the conversion does not any more.
adc_trigger_sequence_conversion ==
    /\ adc_powered
    /\ adc_start' = "now" /\ converting' = TRUE
    /\ UNCHANGED <<adc_powered, adc_channels, adc_burst, int_en, adc_data, adc_callback, adc_asked>>

\* adc_get_value: 0 for a value that is new, 1 for an old one, 2 after an overrun.
adc_get_value(c) ==
    /\ adc_powered
    /\ adc_data' = [adc_data EXCEPT ![c] = "read"]
    /\ UNCHANGED <<adc_powered, adc_ctrl, int_en, converting, adc_callback, adc_asked>>

\* The hardware: an event, and the end of a conversion.
AdcEvent ==
    /\ adc_powered /\ adc_start = "event"
    /\ converting' = TRUE
    /\ UNCHANGED <<adc_powered, adc_ctrl, int_en, adc_data, adc_callback, adc_asked>>

Converted(c) ==
    /\ adc_powered /\ c \in adc_channels /\ (converting \/ adc_burst)
    /\ adc_data' = [adc_data EXCEPT ![c] = IF @ = "read" THEN "done" ELSE "overrun"]
    /\ converting' = FALSE
    /\ UNCHANGED <<adc_powered, adc_ctrl, int_en, adc_callback, adc_asked>>

AdcNext ==
    \/ adc_on \/ adc_off
    \/ adc_start_convertion_once \/ adc_start_burst_conversion
    \/ adc_prepare_conversion_on_event \/ adc_trigger_sequence_conversion
    \/ \E c \in AdcChannels : adc_get_value(c) \/ Converted(c)
    \/ AdcEvent

AdcSpec == AdcInit /\ [][AdcNext]_adc_vars

----------------------------------------------------------------------------
AdcTypeOK ==
    /\ adc_powered \in BOOLEAN /\ adc_burst \in BOOLEAN /\ converting \in BOOLEAN
    /\ adc_callback \in BOOLEAN
    /\ adc_channels \subseteq AdcChannels /\ int_en \subseteq AdcChannels
    /\ adc_start \in {"none", "now", "event"}
    /\ adc_data \in [AdcChannels -> {"read", "done", "overrun"}]
    /\ adc_asked \in [kind: {"nothing", "once", "burst", "event"}, channels: SUBSET AdcChannels]

\* Only what was asked for last is converted: after a single conversion or on an
\* event, a burst started earlier is over, and no other channel is converted.
ConvertsWhatWasAsked ==
    /\ adc_channels = adc_asked.channels
    /\ adc_burst => adc_asked.kind = "burst"

============================================================================

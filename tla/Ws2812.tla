------------------------------- MODULE Ws2812 -------------------------------
(***************************************************************************)
(* extdrv/ws2812.c: the colours of a chain of leds in a buffer, and the    *)
(* frame that shifts them out with the interrupts masked: each led keeps   *)
(* the first colour it sees and passes the others on.                      *)
(***************************************************************************)
EXTENDS Integers, Sequences, SequencesExt

CONSTANTS
    NB_LEDS,
    Colours,        \* what a pixel is set to
    LedSets         \* bound: calls of ws2812_set_pixel

ASSUME WsSizes == NB_LEDS \in Nat \ {0} /\ LedSets \in Nat

Off == "off"
Leds == 0 .. NB_LEDS - 1

VARIABLES
    led_data, max_led,
    led_shown,      \* what each led of the chain shows
    ws_ret,         \* what the last ws2812_send_frame returned, "none" since another call
    ws_asked,       \* history: the colours set since the last clear
    ws_sets         \* bound: calls of ws2812_set_pixel

ws_vars == <<led_data, max_led, led_shown, ws_ret, ws_asked, ws_sets>>

\* The leds keep what they show over a restart of the board.
WsInit ==
    /\ led_data = [p \in Leds |-> Off] /\ max_led = 0
    /\ led_shown = [p \in Leds |-> Off]
    /\ ws_ret = "none" /\ ws_asked = << >> /\ ws_sets = 0

----------------------------------------------------------------------------
\* A pixel is its three bytes, sent in the order they are stored.  The frame is one
\* led longer than nb_leds, the last one it sends to being the highest set; the
\* bytes after those of the last led reach none.
ws2812_bit_sender(last) ==
    led_shown' = [p \in Leds |-> IF p <= last THEN led_data[p] ELSE led_shown[p]]

ws2812_send_frame ==
    /\ \E nb_leds \in 0 .. NB_LEDS + 1 :
          IF nb_leds > NB_LEDS
          THEN ws_ret' = "refused" /\ UNCHANGED led_shown
          ELSE /\ ws_ret' = IF nb_leds = 0 THEN "all" ELSE "some"
               /\ ws2812_bit_sender(IF nb_leds = 0 THEN max_led ELSE nb_leds)
    /\ UNCHANGED <<led_data, max_led, ws_asked, ws_sets>>

\* ws2812_set_pixel, which refuses a pixel beyond the buffer.
ws2812_set_pixel ==
    /\ ws_sets < LedSets
    /\ \E pixel_num \in Leds, colour \in Colours :
          /\ led_data' = [led_data EXCEPT ![pixel_num] = colour]
          /\ max_led' = IF max_led < pixel_num THEN pixel_num ELSE max_led
          /\ ws_asked' = Append(ws_asked, [led |-> pixel_num, colour |-> colour])
    /\ ws_sets' = ws_sets + 1 /\ ws_ret' = "none"
    /\ UNCHANGED led_shown

Cleared ==
    /\ led_data' = [p \in Leds |-> Off] /\ max_led' = 0
    /\ ws_asked' = << >> /\ UNCHANGED ws_sets

ws2812_clear_buffer == Cleared /\ ws_ret' = "none" /\ UNCHANGED led_shown

\* ws2812_clear, which is ws2812_stop too: it sends what it has just cleared.
ws2812_clear ==
    /\ Cleared /\ ws_ret' = "all"
    /\ led_shown' = [p \in Leds |-> Off]

WsNext == ws2812_send_frame \/ ws2812_set_pixel \/ ws2812_clear_buffer \/ ws2812_clear

WsSpec == WsInit /\ [][WsNext]_ws_vars

----------------------------------------------------------------------------
WsTypeOK ==
    /\ {led_data, led_shown} \subseteq [Leds -> Colours \cup {Off}] /\ max_led \in Leds
    /\ ws_ret \in {"none", "all", "some", "refused"} /\ ws_sets \in 0 .. LedSets

\* A frame of all leds shows on each led the last colour it was given since the
\* buffer was cleared, whichever leds were set and in whatever order.
FrameShowsAll ==
    ws_ret = "all" =>
        \A i \in 1 .. Len(ws_asked) :
            (\A j \in i + 1 .. Len(ws_asked) : ws_asked[j].led # ws_asked[i].led) =>
                led_shown[ws_asked[i].led] = ws_asked[i].colour

============================================================================

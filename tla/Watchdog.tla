------------------------------ MODULE Watchdog ------------------------------
(***************************************************************************)
(* The watchdog (core/watchdog.c) and the clocks it shares with the rest   *)
(* of the chip (core/system.c).  Its locks only ever get stronger until a  *)
(* reset, and the hardware enforces them: an operation goes through its    *)
(* writes, those that a lock forbids having no effect.                     *)
(***************************************************************************)
EXTENDS Integers

VARIABLES
    powered,        \* the oscillators powered by powerdown_run_cfg: "IRC", "WDOSC", "PLL"
    main_clk_sel,   \* "IRC" or "PLL", which is fed by the IRC
    wd_enabled,     \* LPC_WDT_EN
    wd_clk,         \* clk_src_sel: "IRC" or "WDOSC"
    wd_locks,       \* "enable", "src", "power", "timer", "power_down"
    wd_block,       \* the watchdog's registers are clocked
    wd_irq,         \* WDT_IRQ is enabled
    wd_stop         \* what the last stop_watchdog returned, until the next configuration

wd_vars == <<powered, main_clk_sel, wd_enabled, wd_clk, wd_locks, wd_block, wd_irq, wd_stop>>

LockNames == {"enable", "src", "power", "timer", "power_down"}

WatchdogInit ==
    /\ powered = {"IRC"} /\ main_clk_sel = "IRC"
    /\ wd_enabled = FALSE /\ wd_clk = "IRC" /\ wd_locks = {}
    /\ wd_block = FALSE /\ wd_irq = FALSE /\ wd_stop = "none"

Running == wd_enabled /\ wd_clk \in powered

\* What the hardware lets through.
Select(clk, locks)   == IF "src" \in locks THEN wd_clk ELSE clk
PowerOff(osc, clk)   == IF "power" \in wd_locks /\ clk = osc THEN powered ELSE powered \ {osc}
Enable(on)           == IF "enable" \in wd_locks THEN wd_enabled \/ on ELSE on

\* What watchdog_config locks; more than one is as good as locked one by one after it.
ConfigLocks == {{}} \cup {{lock} : lock \in LockNames}
watchdog_config ==
    /\ \E clk \in {"IRC", "WDOSC"}, locks \in ConfigLocks :
          /\ powered' = powered \cup {clk}
          /\ wd_clk' = Select(clk, wd_locks)
          /\ wd_locks' = wd_locks \cup locks
    /\ wd_enabled' = TRUE
    /\ wd_block' = TRUE /\ wd_irq' = TRUE /\ wd_stop' = "none"
    /\ UNCHANGED main_clk_sel

\* watchdog_lock_enable, _clk_src, _clk_src_power, _timer_val, watchdog_disable_power_down.
watchdog_lock ==
    /\ \E lock \in LockNames : wd_locks' = wd_locks \cup {lock}
    /\ UNCHANGED <<powered, main_clk_sel, wd_enabled, wd_clk, wd_block, wd_irq, wd_stop>>

watchdog_lock_full ==
    /\ wd_locks' = wd_locks \cup {"enable", "timer", "power", "src"}
    /\ UNCHANGED <<powered, main_clk_sel, wd_enabled, wd_clk, wd_block, wd_irq, wd_stop>>

watchdog_feed ==
    /\ wd_block' = TRUE
    /\ UNCHANGED <<powered, main_clk_sel, wd_enabled, wd_clk, wd_locks, wd_irq, wd_stop>>

\* stop_watchdog by its clock: the source is moved to the IRC while the power of
\* the oscillator it runs from is locked.  Mutant: it is not moved.
DetourNever == wd_clk
Detour == IF wd_clk = "WDOSC" /\ "power" \in wd_locks THEN "IRC" ELSE wd_clk

\* The IRC is powered off last, when nothing runs from it: but clock_config only
\* ever feeds the PLL from it.
sys_pll_clk_sel == "IRC"
IrcIsFree == main_clk_sel # "IRC" /\ sys_pll_clk_sel # "IRC" /\ "power" \notin wd_locks
WithoutFreeIrc(on) == IF IrcIsFree THEN on \ {"IRC"} ELSE on

stop_watchdog ==
    /\ wd_irq' = FALSE /\ wd_block' = FALSE
    /\ \/ /\ "enable" \notin wd_locks
          /\ wd_enabled' = FALSE /\ wd_stop' = "stopped"
          /\ powered' = WithoutFreeIrc(powered)
          /\ UNCHANGED wd_clk
       \/ /\ "enable" \in wd_locks /\ "src" \notin wd_locks
          /\ powered' = WithoutFreeIrc(PowerOff("WDOSC", Detour))
          /\ wd_clk' = "WDOSC" /\ wd_stop' = "stopped"
          /\ UNCHANGED wd_enabled
       \/ /\ {"enable", "src"} \subseteq wd_locks
          /\ wd_stop' = "running"
          /\ UNCHANGED <<powered, wd_clk, wd_enabled>>
    /\ UNCHANGED <<main_clk_sel, wd_locks>>

startup_watchdog_disable ==
    /\ wd_enabled' = Enable(FALSE)
    /\ powered' = PowerOff("WDOSC", wd_clk)
    /\ wd_block' = FALSE /\ wd_irq' = FALSE /\ wd_stop' = "none"
    /\ UNCHANGED <<main_clk_sel, wd_clk, wd_locks>>

\* clock_config: by the IRC while the PLL is set.
clock_config ==
    /\ \E sel \in {"IRC", "PLL"} :
          /\ main_clk_sel' = sel
          /\ powered' = IF sel = "PLL" THEN powered \cup {"IRC", "PLL"}
                                       ELSE (powered \cup {"IRC"}) \ {"PLL"}
    /\ UNCHANGED <<wd_enabled, wd_clk, wd_locks, wd_block, wd_irq, wd_stop>>

\* A reset: the watchdog's, or any other.
Reset ==
    /\ powered' = {"IRC"} /\ main_clk_sel' = "IRC"
    /\ wd_enabled' = FALSE /\ wd_clk' = "IRC" /\ wd_locks' = {}
    /\ wd_block' = FALSE /\ wd_irq' = FALSE /\ wd_stop' = "none"

WatchdogNext ==
    \/ watchdog_config \/ watchdog_lock \/ watchdog_lock_full \/ watchdog_feed
    \/ stop_watchdog \/ startup_watchdog_disable \/ clock_config \/ Reset

WatchdogSpec == WatchdogInit /\ [][WatchdogNext]_wd_vars

WatchdogTypeOK ==
    /\ powered \subseteq {"IRC", "WDOSC", "PLL"} /\ main_clk_sel \in {"IRC", "PLL"}
    /\ wd_clk \in {"IRC", "WDOSC"} /\ wd_locks \subseteq LockNames
    /\ {wd_enabled, wd_block, wd_irq} \subseteq BOOLEAN
    /\ wd_stop \in {"none", "stopped", "running"}

\* "Return 0 if a solution has been found to stop the watchdog" (watchdog.c:218):
\* it has stopped, whatever was locked before and after, and the rest of the chip
\* still has its clock.
StoppedIsStopped ==
    /\ wd_stop = "stopped" => ~Running
    /\ "IRC" \in powered

============================================================================

--------------------------- MODULE KsResetButton ---------------------------
(***************************************************************************)
(* ksResetButton: the pin is looked at once per loop, and the length of a  *)
(* press decides between ignoring it, ending the application and erasing   *)
(* the configuration.  The component lives as long as its application; the *)
(* rotator comes back to that application later, whatever the user's       *)
(* finger is doing by then.  The clock, with the uptime and a timer of the  *)
(* same device, is KsClock's; erasing the configuration restarts it all.   *)
(***************************************************************************)
EXTENDS KsClock

CONSTANTS
    ShortTrigger,        \* SHORT_TRIGGER, in ticks
    LongTrigger,         \* LONG_TRIGGER, in ticks
    PressedAtInit        \* whether an application may start on a held button

ASSUME ButtonAssumption ==
    /\ ShortTrigger \in Nat \ {0} /\ LongTrigger \in Nat /\ LongTrigger > ShortTrigger
    /\ Width > LongTrigger + 1
    /\ PressedAtInit \in BOOLEAN

VARIABLES
    pressed,        \* digitalRead(pin) is triggerState
    live,           \* the component exists and is active
    lastPressed,    \* lastState is triggerState
    pressedTime,    \* millis() of the press, 0 in a fresh component
    config,         \* the stored configuration: "kept" or "erased"
    heldSince       \* history: true time of the first of the last looks that
                    \* have all found the button pressed, or NotHeld

clockVars  == <<now, timerVars, uptimeVars>>
buttonVars == <<pressed, live, lastPressed, pressedTime, config, heldSince>>

NotHeld == -1

ButtonTypeOK ==
    /\ TypeOK
    /\ pressed \in BOOLEAN /\ live \in BOOLEAN
    /\ lastPressed \in BOOLEAN /\ pressedTime \in 0..Width - 1
    /\ config \in {"kept", "erased"}
    /\ heldSince \in {NotHeld} \cup 0..now
    /\ live => (lastPressed <=> heldSince # NotHeld)

-----------------------------------------------------------------------------
\* Mutant of Duration: signed arithmetic on the two readings.
DurationSigned == millis - pressedTime

\* releasedTime - pressedTime, on uint32_t.
Duration == (millis - pressedTime) % Width

ButtonInit ==
    /\ Init
    /\ pressed = FALSE
    /\ live = FALSE /\ lastPressed = FALSE /\ pressedTime = 0
    /\ config = "kept" /\ heldSince = NotHeld

\* The application with the button is constructed, and the component's init
\* looks at the pin.
Start ==
    /\ ~live /\ (pressed => PressedAtInit)
    /\ live' = TRUE /\ lastPressed' = pressed /\ pressedTime' = 0
    /\ heldSince' = IF pressed THEN now ELSE NotHeld
    /\ UNCHANGED <<clockVars, pressed, config>>

SeePress ==
    /\ live /\ pressed /\ ~lastPressed
    /\ lastPressed' = TRUE /\ pressedTime' = millis /\ heldSince' = now
    /\ UNCHANGED <<clockVars, pressed, live, config>>

\* Mutant of SeeBounce: lastState is only stored when something is done.
SeeBounceUnrecorded ==
    /\ live /\ ~pressed /\ lastPressed /\ Duration <= ShortTrigger
    /\ heldSince' = NotHeld
    /\ UNCHANGED <<clockVars, pressed, live, lastPressed, pressedTime, config>>

\* Too short to count: contact bounce.
SeeBounce ==
    /\ live /\ ~pressed /\ lastPressed /\ Duration <= ShortTrigger
    /\ lastPressed' = FALSE /\ heldSince' = NotHeld
    /\ UNCHANGED <<clockVars, pressed, live, pressedTime, config>>

\* A short press: the loop returns false, and the application is dropped.
SeeShortPress ==
    /\ live /\ ~pressed /\ lastPressed
    /\ ShortTrigger < Duration /\ Duration <= LongTrigger
    /\ live' = FALSE /\ heldSince' = NotHeld
    /\ UNCHANGED <<clockVars, pressed, lastPressed, pressedTime, config>>

\* The device restarts, and all of its memory with it.
ClockRestarts ==
    /\ now' = 0 /\ restartedAt' = 0 /\ updatedAt' = 0
    /\ intervalMs' \in Intervals /\ lastTriggerTimeMs' = 0
    /\ uptime_low32' = 0 /\ uptime_high32' = 0

\* A long press: the configuration is erased and the device restarts.
SeeLongPress ==
    /\ live /\ ~pressed /\ lastPressed /\ Duration > LongTrigger
    /\ config' = "erased"
    /\ ClockRestarts
    /\ live' = FALSE /\ heldSince' = NotHeld
    /\ lastPressed' = FALSE /\ pressedTime' = 0
    /\ UNCHANGED pressed

\* The application ends for another reason.
Stop ==
    /\ live
    /\ live' = FALSE /\ heldSince' = NotHeld
    /\ UNCHANGED <<clockVars, pressed, lastPressed, pressedTime, config>>

\* The finger, and the bounce of the contact.
PinChanges ==
    /\ pressed' = ~pressed
    /\ UNCHANGED <<clockVars, live, lastPressed, pressedTime, config, heldSince>>

\* Nobody holds the button for a whole turn of millis(), 49 days.
ClockStep ==
    /\ Next
    /\ now' # now /\ heldSince # NotHeld => now - heldSince < Width - 1
    /\ UNCHANGED buttonVars

Look == SeePress \/ SeeBounce \/ SeeShortPress \/ SeeLongPress

ButtonNext == Start \/ Look \/ Stop \/ PinChanges \/ ClockStep

ButtonSpec == ButtonInit /\ [][ButtonNext]_<<clockVars, buttonVars>>

-----------------------------------------------------------------------------
(* Properties. *)

\* ksResetButton.h: on a long press it performs a factory reset.  Nothing
\* shorter does: the configuration is only erased when every look for longer
\* than the long trigger has found the button pressed.
EraseNeedsLongPress ==
    [][config' # config => heldSince # NotHeld /\ now - heldSince > LongTrigger]_<<clockVars, buttonVars>>

\* The button does what the length of the press asks for, also when millis()
\* wraps while it is held: bounce does nothing, a short press ends the
\* application and leaves the configuration alone, a long press erases it
\* (ksResetButton::loop).
PressActsByLength ==
    [][Look /\ heldSince # NotHeld =>
          CASE now - heldSince <= ShortTrigger -> live' /\ UNCHANGED config
            [] now - heldSince > LongTrigger   -> ~live' /\ config' = "erased"
            [] OTHER                           -> ~live' /\ UNCHANGED config]_<<clockVars, buttonVars>>
=============================================================================

---------------------------- MODULE KsFrontPanel ---------------------------
(***************************************************************************)
(* What a device has for its user to press or to look at: a reset button   *)
(* or a LED.  Both are components that keep times of millis(), and neither *)
(* knows of the other: a device of the model has one of them.              *)
(***************************************************************************)
EXTENDS KsResetButton, KsLed

VARIABLE fitted     \* the component the device has

panelVars == <<clockVars, buttonVars, ledVars, fitted>>

\* The types of both components; and the one that is not fitted is as it was.
PanelTypeOK ==
    /\ fitted \in {"button", "led"}
    /\ ButtonTypeOK /\ LedTypeOK
    /\ fitted = "button" => blinkIntervalMs = 0 /\ ~undisturbed
    /\ fitted = "led" => ~live /\ config = "kept"

PanelInit ==
    /\ fitted \in {"button", "led"}
    /\ ButtonInit /\ LedInit
    /\ IF fitted = "led" THEN intervalMs = 0
       ELSE blinkIntervalMs = 0 /\ ~activeLow /\ ~driveAsPushPull

PanelNext ==
    \/ fitted = "button" /\ ButtonNext /\ UNCHANGED <<ledVars, fitted>>
    \/ fitted = "led" /\ LedNext /\ UNCHANGED <<buttonVars, fitted>>

PanelSpec == PanelInit /\ [][PanelNext]_panelVars

=============================================================================

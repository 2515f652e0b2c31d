---------------------------- MODULE KsOtaUpdate ----------------------------
(***************************************************************************)
(* Firmware updates, and how a boot learns that it follows one: the        *)
(* portal's upload handlers, the indicator file written before the restart *)
(* and read when the framework starts, and resets at any point between.    *)
(***************************************************************************)
EXTENDS Naturals

CONSTANT MaxResets    \* bound of the model: unexpected resets

ASSUME ResetAssumption == MaxResets \in Nat

VARIABLES
    activity,       \* what the processor is doing
    otaIndicator,   \* content of /ksf.otabooted, "empty", or "none"
    otaBootType,    \* otaBootType, in RAM
    resetReason,    \* what the processor says of the last reset
    update,         \* the Update library
    finishing,      \* update that has ended in this life, if it could be noted
    endedBy,        \* history: finishing, when the last life came to its end
    leftover,       \* history: the indicator is one that could not be removed
    misled,         \* history: this boot has read such an indicator
    resets          \* number of unexpected resets so far

otaVars == <<activity, otaIndicator, otaBootType, resetReason, update,
             finishing, endedBy, leftover, misled, resets>>

history == <<endedBy, leftover, misled, resets>>

OTAType == {"NO_OTA", "OTA_GENERIC", "OTA_PORTAL"}

\* "idle" is outside the portal's loop, "serving" inside it; "saving" and
\* "erasing" belong to KsDevicePortal.
Activity == {"starting", "clearing", "idle", "serving", "uploading",
             "answering", "noting", "saving", "erasing", "restarting"}

-----------------------------------------------------------------------------
OtaInit ==
    /\ activity = "starting" /\ otaIndicator = "none"
    /\ otaBootType = "NO_OTA" /\ resetReason = "other"
    /\ update = "idle" /\ finishing = "NO_OTA" /\ endedBy = "NO_OTA"
    /\ leftover = FALSE /\ misled = FALSE /\ resets = 0

Proceed(from, to) == activity = from /\ activity' = to

\* Mutant of ReadIndicator: the size of the file is not looked at.
ReadIndicatorUnsized ==
    /\ activity = "starting"
    /\ activity' = IF otaIndicator = "none" THEN "idle" ELSE "clearing"
    /\ otaBootType' = IF otaIndicator = "none" THEN otaBootType ELSE otaIndicator
    /\ misled' = leftover
    /\ UNCHANGED <<otaIndicator, resetReason, update, finishing, endedBy, leftover, resets>>

\* A file created by a write that never came to its end is read as OTA_GENERIC.
ReadIndicator ==
    /\ activity = "starting"
    /\ activity' = IF otaIndicator = "none" THEN "idle" ELSE "clearing"
    /\ otaBootType' = IF otaIndicator = "none" THEN otaBootType
                      ELSE IF otaIndicator = "empty" THEN "OTA_GENERIC" ELSE otaIndicator
    /\ misled' = leftover
    /\ UNCHANGED <<otaIndicator, resetReason, update, finishing, endedBy, leftover, resets>>

\* Mutant of ClearIndicator: the file is not removed.
KeepIndicator ==
    /\ Proceed("clearing", "idle")
    /\ UNCHANGED <<otaIndicator, otaBootType, resetReason, update, finishing, history>>

\* Nobody looks at whether the file could be removed.
ClearIndicator ==
    /\ Proceed("clearing", "idle")
    /\ \/ otaIndicator' = "none" /\ leftover' = FALSE
       \/ leftover' = TRUE /\ UNCHANGED otaIndicator
    /\ UNCHANGED <<otaBootType, resetReason, update, finishing, endedBy, misled, resets>>

\* The portal's loop, entered and left.
EnterLoop ==
    /\ Proceed("idle", "serving")
    /\ UNCHANGED <<otaIndicator, otaBootType, resetReason, update, finishing, history>>

LeaveLoop ==
    /\ Proceed("serving", "idle")
    /\ UNCHANGED <<otaIndicator, otaBootType, resetReason, update, finishing, history>>

-----------------------------------------------------------------------------
(* An upload through the portal.  The library refuses to begin while it is *)
(* running and leaves its state alone; otherwise it begins or fails.       *)

BeginUpload ==
    /\ Proceed("serving", "uploading")
    /\ update' \in (IF update = "running" THEN {"running"} ELSE {"running", "failed"})
    /\ UNCHANGED <<otaIndicator, otaBootType, resetReason, finishing, history>>

\* A chunk that cannot be written; the others change nothing.
WriteFails ==
    /\ activity = "uploading" /\ update = "running"
    /\ update' = "failed"
    /\ UNCHANGED <<activity, otaIndicator, otaBootType, resetReason, finishing, history>>

\* Update.end(true): the image is activated or found bad.
CompleteUpload ==
    /\ Proceed("uploading", "answering")
    /\ update' \in (IF update = "running" THEN {"idle", "failed"} ELSE {update})
    /\ UNCHANGED <<otaIndicator, otaBootType, resetReason, finishing, history>>

\* The client goes away: the handler has no branch for it and leaves the
\* library running.
AbortUpload ==
    /\ Proceed("uploading", "serving")
    /\ UNCHANGED <<otaIndicator, otaBootType, resetReason, update, finishing, history>>

\* A request without a file goes straight to onRequest_otaFinish.
PostWithoutFile ==
    /\ Proceed("serving", "answering")
    /\ UNCHANGED <<otaIndicator, otaBootType, resetReason, update, finishing, history>>

\* onRequest_otaFinish: the library's error, and nothing else, decides.
OtaFinish ==
    /\ activity = "answering"
    /\ IF update = "failed"
       THEN activity' = "serving" /\ UNCHANGED finishing
       ELSE activity' = "noting" /\ finishing' = "OTA_PORTAL"
    /\ UNCHANGED <<otaIndicator, otaBootType, resetReason, update, history>>

\* ArduinoOTA: a whole transfer inside handle().
ArduinoOtaEnds ==
    /\ Proceed("serving", "noting") /\ update # "running"
    /\ update' = "idle" /\ finishing' = "OTA_GENERIC"
    /\ UNCHANGED <<otaIndicator, otaBootType, resetReason, history>>

ArduinoOtaFails ==
    /\ activity = "serving" /\ update # "running"
    /\ update' = "failed"
    /\ UNCHANGED <<activity, otaIndicator, otaBootType, resetReason, finishing, history>>

\* saveOtaBootIndicator; opening the file may fail.
SaveOtaBootIndicator ==
    /\ Proceed("noting", "restarting")
    /\ \/ otaIndicator' = finishing /\ leftover' = FALSE /\ UNCHANGED finishing
       \/ finishing' = "NO_OTA" /\ UNCHANGED <<otaIndicator, leftover>>
    /\ UNCHANGED <<otaBootType, resetReason, update, endedBy, misled, resets>>

-----------------------------------------------------------------------------
\* Any reset: what is in RAM is lost.
Reset(reason) ==
    /\ activity' = "starting"
    /\ otaBootType' = "NO_OTA" /\ update' = "idle" /\ finishing' = "NO_OTA"
    /\ resetReason' = reason /\ misled' = FALSE

\* ESP.restart().
Restart ==
    /\ activity = "restarting"
    /\ Reset("software")
    /\ endedBy' = finishing
    /\ UNCHANGED <<otaIndicator, leftover, resets>>

\* Power loss, a watchdog or an exception.  A write of the indicator that it
\* interrupts may leave the file created and empty.
UnexpectedReset ==
    /\ resets < MaxResets /\ resets' = resets + 1
    /\ Reset("other")
    /\ endedBy' = "NO_OTA"
    /\ \/ UNCHANGED <<otaIndicator, leftover>>
       \/ activity = "noting" /\ otaIndicator' = "empty" /\ leftover' = FALSE

Boot == ReadIndicator \/ ClearIndicator

EndUpload == CompleteUpload \/ AbortUpload \/ OtaFinish \/ SaveOtaBootIndicator

Upload ==
    \/ BeginUpload \/ WriteFails \/ PostWithoutFile
    \/ ArduinoOtaEnds \/ ArduinoOtaFails
    \/ EndUpload

-----------------------------------------------------------------------------
(* Properties. *)

Up == activity \notin {"starting", "clearing"}

\* getResetReason, as far as updates go.
ReportedUpdate == IF resetReason = "software" THEN otaBootType ELSE "NO_OTA"

OtaTypeOK ==
    /\ activity \in Activity /\ update \in {"idle", "running", "failed"}
    /\ otaIndicator \in {"OTA_GENERIC", "OTA_PORTAL", "empty", "none"}
    /\ otaBootType \in OTAType /\ finishing \in OTAType /\ endedBy \in OTAType
    /\ resetReason \in {"software", "other"}
    /\ leftover \in BOOLEAN /\ misled \in BOOLEAN /\ resets \in 0..MaxResets

\* ksConstants.h, getResetReason: a boot reports an update exactly when the life
\* before it ended with the restart after that update, wherever resets fall
\* between the writing of the indicator, its reading and its removal, unless the
\* boot has read an indicator that an earlier one had failed to remove.
ReportIsTrue == Up /\ ~misled => ReportedUpdate = endedBy
=============================================================================

--------------------------- MODULE CaptureFrames ---------------------------
(***************************************************************************)
(* The capture store with the preview each slot retains (capture.rs):      *)
(* snapshot and wait requests install previews, physical input on a window *)
(* invalidates those of its sessions, preview-based pointer input is       *)
(* mapped through what is retained.  A grab holds no lock while the        *)
(* backend produces its frame and while the frame is masked.               *)
(***************************************************************************)
EXTENDS CaptureSessions

CONSTANT Grabs          \* concurrent capture_snapshot and capture_wait requests

VARIABLES
    frame,          \* session -> latest_frame: "none", or how it stands to the user's input
    invalidated,    \* session -> latest_frame_user_invalidated
    grab,           \* request -> where it is, its session, and its frame
    local,          \* session -> the transform of latest_frame maps to the window
    overtaken,      \* history: sessions invalidated while a grab was in flight
    unannotated     \* history: sessions whose retained frame's grab was refused since

frameVars == <<frame, invalidated, grab, local, overtaken, unannotated>>
framesVars == <<captureVars, frameVars>>

Idle == [at |-> "idle", session |-> None, outdated |-> FALSE]

InitFrames ==
    /\ InitCapture
    /\ frame = [s \in Sessions |-> "none"]
    /\ invalidated = [s \in Sessions |-> FALSE]
    /\ grab = [g \in Grabs |-> Idle]
    /\ local = [s \in Sessions |-> FALSE]
    /\ overtaken = {} /\ unannotated = {}

\* The preview is part of the slot and leaves with it.
LeaveWithSlot ==
    /\ frame' = [s \in Sessions |-> IF slots'[s] = None THEN "none" ELSE frame[s]]
    /\ invalidated' = [s \in Sessions |-> slots'[s] # None /\ invalidated[s]]
    /\ local' = [s \in Sessions |-> slots'[s] # None /\ local[s]]
    /\ unannotated' = {s \in unannotated : slots'[s] # None}

StoreStep ==
    /\ NextCapture
    /\ LeaveWithSlot
    /\ UNCHANGED <<grab, overtaken>>

\* snapshot() and wait(), up to the backend call.
GrabFrame(g, s) ==
    /\ grab[g].at = "idle"
    /\ s \in Alive
    /\ Reap
    /\ grab' = [grab EXCEPT ![g] = [at |-> "grabbed", session |-> s, outdated |-> FALSE]]
    /\ LeaveWithSlot
    /\ UNCHANGED overtaken

\* The backend fails; when it says that the target is lost, the slot goes
\* with it: capture_backend_error().
GrabFails(g) ==
    LET s == grab[g].session
    IN  /\ grab[g].at = "grabbed"
        /\ RemoveSlot(s) \/ UNCHANGED captureVars
        /\ grab' = [grab EXCEPT ![g] = Idle]
        /\ LeaveWithSlot
        /\ UNCHANGED overtaken

\* Plausible bug: a new frame does not reset the flag of the user's input.
BugUpdateLatestFrame(g) ==
    /\ grab[g].session \in Active
    /\ frame' = [frame EXCEPT ![grab[g].session] =
                    IF grab[g].outdated THEN "outdated" ELSE "current"]
    /\ UNCHANGED invalidated

\* update_latest_frame(), for a session that still has its slot.
UpdateLatestFrame(g) ==
    /\ grab[g].session \in Active
    /\ frame' = [frame EXCEPT ![grab[g].session] =
                    IF grab[g].outdated THEN "outdated" ELSE "current"]
    /\ invalidated' = [invalidated EXCEPT ![grab[g].session] = FALSE]

\* The store retains the frame when the backend returns it, as the backend
\* gave it: in physical pixels from the origin, capture_frame_result() ...
RetainFrame(g) ==
    /\ grab[g].at = "grabbed"
    /\ \/ /\ UpdateLatestFrame(g) /\ grab' = [grab EXCEPT ![g].at = "masking"]
          /\ local' = [local EXCEPT ![grab[g].session] = FALSE]
          /\ unannotated' = unannotated \ {grab[g].session}
       \/ /\ grab[g].session \notin Active
          /\ grab' = [grab EXCEPT ![g] = Idle]
          /\ UNCHANGED <<frame, invalidated, local, unannotated>>
    /\ UNCHANGED <<captureVars, overtaken>>

OnWindow(s) == s \in Active /\ Exact(slots[s].source)

\* Plausible bug: the frame that is answered is not the one that is retained.
BugAnnotated(g) == local

\* annotate_exact_window_capture_transform(): the frame of an exact session
\* maps to its window now.
Annotated(g) == [local EXCEPT ![grab[g].session] = OnWindow(grab[g].session)]

\* ... and the handler does so once more, when protected regions are masked
\* or the window's place is known, unless that is refused.
RetainMasked(g) ==
    LET s == grab[g].session
    IN  /\ grab[g].at = "masking"
        /\ \/ /\ UpdateLatestFrame(g) /\ local' = Annotated(g)
              /\ unannotated' = unannotated \ {s}
           \/ /\ unannotated' = unannotated \cup ({s} \cap Active)
              /\ UNCHANGED <<frame, invalidated, local>>
        /\ grab' = [grab EXCEPT ![g] = Idle]
        /\ UNCHANGED <<captureVars, overtaken>>

SessionsOn(w) == {s \in Active : slots[s].source = w}
Overtakes(A) == {s \in A : \E g \in Grabs : grab[g].session = s}

\* Whatever a grab in flight holds was shown before the input.
OutdateGrabs(A) ==
    grab' = [g \in Grabs |-> [grab[g] EXCEPT !.outdated = @ \/ grab[g].session \in A]]

\* Plausible bug: the first session of the window stands for all of them.
BugInvalidateLatestFrames(w) ==
    LET A == SessionsOn(w)
    IN  /\ \E first \in A :
              /\ frame' = [s \in Sessions |-> IF s = first THEN "none"
                                              ELSE IF s \in A /\ frame[s] # "none" THEN "outdated"
                                              ELSE frame[s]]
              /\ invalidated' = [invalidated EXCEPT ![first] = TRUE]
        /\ OutdateGrabs(A)
        /\ overtaken' = overtaken \cup Overtakes(A)
        /\ UNCHANGED <<captureVars, local, unannotated>>

\* invalidate_latest_frames_for_window()
InvalidateLatestFrames(w) ==
    LET A == SessionsOn(w)
    IN  /\ A # {}
        /\ frame' = [s \in Sessions |-> IF s \in A THEN "none" ELSE frame[s]]
        /\ invalidated' = [s \in Sessions |-> s \in A \/ invalidated[s]]
        /\ local' = [s \in Sessions |-> s \notin A /\ local[s]]
        /\ unannotated' = unannotated \ A
        /\ OutdateGrabs(A)
        /\ overtaken' = overtaken \cup Overtakes(A)
        /\ UNCHANGED captureVars

NextFrames ==
    \/ StoreStep
    \/ \E g \in Grabs, s \in Sessions : GrabFrame(g, s)
    \/ \E g \in Grabs : GrabFails(g) \/ RetainFrame(g) \/ RetainMasked(g)
    \/ \E w \in Windows : InvalidateLatestFrames(w)

SpecFrames == InitFrames /\ [][NextFrames]_framesVars

-----------------------------------------------------------------------------
(* Type invariant: a session that is gone retains no preview, and an       *)
(* invalidated one has nothing to map a point through.                     *)
FramesTypeOK ==
    /\ CaptureTypeOK
    /\ frame \in [Sessions -> {"none", "current", "outdated"}]
    /\ invalidated \in [Sessions -> BOOLEAN]
    /\ grab \in [Grabs -> [at: {"idle", "grabbed", "masking"},
                           session: Sessions \cup {None}, outdated: BOOLEAN]]
    /\ local \in [Sessions -> BOOLEAN]
    /\ {overtaken, unannotated} \subseteq SUBSET Sessions
    /\ \A s \in Sessions : slots[s] = None \/ invalidated[s] => frame[s] = "none"

(* Mappable: resolve_capture_output_point() would map a point through it.  *)
Mappable(s) == frame[s] # "none" /\ ~invalidated[s]

(* A preview that shows a window before the user's last handled input on   *)
(* it is never used for pointer input, in whichever session of the window  *)
(* it is retained, unless its grab was in flight when the input was        *)
(* handled.                                                                *)
OutdatedOnlyIfOvertaken ==
    \A s \in Sessions : Mappable(s) /\ frame[s] = "outdated" => s \in overtaken

(* A preview-based point of an exact session is in its window's coordinates, *)
(* unless a grab of the session is in flight or was refused when its frame   *)
(* was retained already (capture.rs:344).                                    *)
PointsAreLocal ==
    \A s \in Sessions :
        OnWindow(s) /\ Mappable(s) /\ ~local[s] =>
            s \in unannotated \/ \E g \in Grabs : grab[g].at = "masking" /\ grab[g].session = s

(* A point that the store maps is of the window as the user left it         *)
(* (capture.rs:401, main.rs:2151).                                          *)
PreviewsMapTruly == OutdatedOnlyIfOvertaken /\ PointsAreLocal

(* "It also invalidates retained preview metadata for that target, so      *)
(* preview-based input requires a fresh frame" (agent-seat.md).            *)
PreviewIsFresh ==
    \A s \in Sessions : Mappable(s) => frame[s] # "outdated"
=============================================================================

----------------------------- MODULE Screenshots -----------------------------
(* The screenshots of screenshot.rs and compatibility_capture_backend.rs:    *)
(* where a picture comes from, what is written on the way, and how the       *)
(* windows of an application that the policy denies are blacked out in it.   *)
(* There is one such window; it may move, open and close at any time, and    *)
(* the daemon knows where it is only when it lists the windows.              *)
EXTENDS Naturals, FiniteSets

CONSTANTS
    Shots,          \* requests, each of one client at a time
    Outputs,        \* paths that clients name for pictures
    Spots,          \* where the denied window can be
    MaxShifts,      \* bound on its moves
    NoPlace

ASSUME ShotsAssumption ==
    MaxShifts \in Nat /\ 0 \notin Spots /\ NoPlace \notin Shots /\ Outputs # {}

ShotKinds == {"preview", "full", "tile", "crop", "screen", "area", "wait"}

\* Requests that name no portal target fall back on Spectacle.
FallsBack(kind) == kind \notin {"screen", "area"}

VARIABLES
    deniedAt,       \* spot of the denied window, 0 when there is none
    shifts,
    portalThere,    \* the Screenshot portal is there
    spectacleThere, \* the spectacle command is there
    shotLock,       \* holder of SCREENSHOT_CAPTURE_LOCK, or NoPlace
    files,          \* what is in the files that the daemon writes
    shot,           \* request -> where it is
    slipped,        \* history: files that a mask of another picture was put on
    abandoned       \* history: files of requests that failed before the mask

desktopVars == <<deniedAt, shifts, portalThere, spectacleThere>>
shotVars == <<desktopVars, shotLock, files, shot, slipped, abandoned>>

\* The picture that is answered; the full one beside it, one for each output
\* (temporary_capture_path()); and the one that a crop is cut from.
Output(r) == <<"output", shot[r].path>>
FullBeside(r) == <<"full", shot[r].path>>
Composed(r) == <<"composed", r>>
Files == ({"output", "full"} \X Outputs) \cup ({"composed"} \X Shots)

\* What is masked.
Masking(r) == IF shot[r].kind = "crop" THEN Composed(r) ELSE Output(r)

Ended == {"idle", "done", "failed"}
Shot(kind, path, place) ==
    [at |-> place, kind |-> kind, path |-> path, spare |-> FALSE, seen |-> {}, held |-> NoPlace]

InitShots ==
    /\ deniedAt \in {0} \cup Spots /\ shifts = 0
    /\ portalThere \in BOOLEAN /\ spectacleThere \in BOOLEAN
    /\ shotLock = NoPlace
    /\ files = [n \in Files |-> NoPlace]
    /\ shot = [r \in Shots |-> Shot("full", CHOOSE p \in Outputs : TRUE, "idle")]
    /\ slipped = {} /\ abandoned = {}

\* mapped: the picture begins where the desktop does.
Taken(r) ==
    [denied |-> deniedAt, black |-> {}, mapped |-> shot[r].kind # "area", by |-> r]

\* The request's picture of it, from which a tile or a crop may leave the window out.
Cut(r, picture) ==
    LET shown == {picture.denied} \cup (IF shot[r].kind \in {"tile", "crop"} THEN {0} ELSE {})
    IN  {[picture EXCEPT !.denied = denied, !.by = r] : denied \in shown}

Go(r, place) == shot' = [shot EXCEPT ![r].at = place]

Write(n, picture) ==
    /\ files' = [files EXCEPT ![n] = picture]
    /\ slipped' = slipped \ {n} /\ abandoned' = abandoned \ {n}

\* An error before the mask leaves the files as they are, the output written or
\* not, but for the picture that a crop is cut from.
FailShot(r) ==
    /\ Go(r, "failed")
    /\ \E output \in {files[Output(r)], Taken(r)} :
           /\ output # files[Output(r)] => shot[r].kind # "crop"
           /\ files' = [files EXCEPT ![Output(r)] = output, ![Composed(r)] = NoPlace]
    /\ abandoned' = abandoned \cup {Output(r), FullBeside(r)}
    /\ UNCHANGED slipped

Shift(to) ==
    /\ shifts < MaxShifts /\ to # deniedAt
    /\ deniedAt' = to /\ shifts' = shifts + 1
    /\ UNCHANGED <<portalThere, spectacleThere, shotLock, files, shot, slipped, abandoned>>

-----------------------------------------------------------------------------
(* The picture.                                                            *)

FirstStep == IF portalThere THEN "asking" ELSE "queueing"

\* ensure_exact_target_observable(), ensure_portal_target_observable(),
\* validate_portal_screenshot_target_request()
BeginShot(r, kind, path) ==
    /\ shot[r].at = "idle"
    /\ ~FallsBack(kind) => portalThere
    /\ kind = "area" => deniedAt = 0
    /\ shot' = [shot EXCEPT ![r] = Shot(kind, path, FirstStep)]
    /\ UNCHANGED <<desktopVars, shotLock, files, slipped, abandoned>>

\* capture_screenshot_portal() has the picture copied or scaled into the file;
\* a tile is cut from where the portal has left it.
PortalAnswers(r) ==
    /\ shot[r].at = "asking"
    /\ \E picture \in Cut(r, Taken(r)) : Write(Masking(r), picture)
    /\ Go(r, "listing")
    /\ UNCHANGED <<desktopVars, shotLock>>

\* The portal's error, and any after its answer; what is wrong with a tile of
\* the portal's picture is final.
PortalFails(r) ==
    LET kind == shot[r].kind
    IN  /\ shot[r].at = "asking"
        /\ \/ /\ FallsBack(kind) /\ spectacleThere
              /\ Go(r, "queueing")
              /\ \/ UNCHANGED <<files, slipped, abandoned>>
                 \/ kind # "tile" /\ Write(Masking(r), Taken(r))
           \/ (FallsBack(kind) /\ spectacleThere => kind = "tile") /\ FailShot(r)
        /\ UNCHANGED <<desktopVars, shotLock>>

\* The user's cancellation is never followed by Spectacle.
PortalCancels(r) ==
    /\ shot[r].at = "asking"
    /\ Go(r, "failed")
    /\ UNCHANGED <<desktopVars, shotLock, files, slipped, abandoned>>

\* Where capture_screenshot_spectacle() lets it write.
ShootsAt(r) == IF shot[r].kind \in {"full", "crop"} THEN Masking(r) ELSE FullBeside(r)

LockShot(r) ==
    /\ shot[r].at = "queueing" /\ spectacleThere /\ shotLock = NoPlace
    /\ shotLock' = r
    /\ Go(r, "shooting")
    /\ UNCHANGED <<desktopVars, files, slipped, abandoned>>

\* A tile is cut after the lock has been released.
Shoot(r) ==
    /\ shot[r].at = "shooting"
    /\ Write(ShootsAt(r), Taken(r))
    /\ shotLock' = IF shot[r].kind = "tile" THEN NoPlace ELSE r
    /\ shot' = [shot EXCEPT ![r].at = "cutting", ![r].spare = shot[r].kind = "tile"]
    /\ UNCHANGED desktopVars

\* write_preview_or_copy() or write_tile_preview(), and the configured regions
WritePicture(r) ==
    /\ shot[r].at = "cutting" /\ files[ShootsAt(r)] # NoPlace
    /\ \/ ShootsAt(r) = Masking(r) /\ UNCHANGED <<files, slipped, abandoned>>
       \/ /\ ShootsAt(r) # Masking(r)
          /\ \E picture \in Cut(r, files[FullBeside(r)]) :
                 files' = [files EXCEPT ![Output(r)] = picture,
                                        ![FullBeside(r)] = IF shot[r].spare THEN @ ELSE NoPlace]
          /\ slipped' = slipped \ {Output(r)} /\ abandoned' = abandoned \ {Output(r)}
    /\ shotLock' = IF shotLock = r THEN NoPlace ELSE shotLock
    /\ Go(r, "listing")
    /\ UNCHANGED desktopVars

\* Spectacle fails, its file is not a picture, or the tile is not inside it.
ShotFails(r) ==
    /\ \/ shot[r].at = "queueing" /\ ~spectacleThere
       \/ shot[r].at \in {"shooting", "cutting"}
    /\ FailShot(r)
    /\ shotLock' = IF shotLock = r THEN NoPlace ELSE shotLock
    /\ UNCHANGED desktopVars

-----------------------------------------------------------------------------
(* The mask: apply_protected_window_redactions().                          *)

Without(names) == files' = [n \in Files |-> IF n \in names THEN NoPlace ELSE files[n]]

Spare(r) == IF shot[r].spare THEN {FullBeside(r)} ELSE {}

\* Plausible bug: a picture that cannot be masked stays where it is.
BugDiscard(r) ==
    /\ Without(Spare(r) \cup {Composed(r)})
    /\ Go(r, "failed")

Discard(r) ==
    /\ Without(Spare(r) \cup {Masking(r)})
    /\ Go(r, "failed")

ListWindows(r) ==
    /\ shot[r].at = "listing"
    /\ shot' = [shot EXCEPT ![r].at = "painting", ![r].seen = {deniedAt} \ {0}]
    /\ slipped' = IF files[Masking(r)] # NoPlace /\ files[Masking(r)].denied \notin {0, deniedAt}
                  THEN slipped \cup {Masking(r)} ELSE slipped
    /\ UNCHANGED <<desktopVars, shotLock, files, abandoned>>

\* No list, a denied window in it whose place in the picture is unknown, or a
\* file that cannot be read or saved.
MaskFails(r) ==
    /\ \/ shot[r].at \in {"listing", "saving"}
       \/ shot[r].at = "painting" /\ shot[r].seen # {}
    /\ Discard(r)
    /\ UNCHANGED <<desktopVars, shotLock, slipped, abandoned>>

\* What becomes of a picture that has been masked.
AfterMask(r) ==
    CASE shot[r].kind = "crop" -> "cropping"
      [] shot[r].kind = "wait" -> "comparing"
      [] OTHER -> "done"

\* The mask is put on a copy of what the file holds now, and no other request
\* is kept from the file until it is saved.  In a picture of another request, or
\* one without the window, where the mask falls is a matter of chance.
PaintMask(r) ==
    LET picture == files[Masking(r)]
        sure == picture.by = r /\ picture.mapped /\ picture.denied \in shot[r].seen
    IN  /\ shot[r].at = "painting"
        /\ \/ /\ shot[r].seen = {} \/ (picture # NoPlace /\ ~sure)
              /\ Go(r, AfterMask(r)) /\ Without(Spare(r))
           \/ /\ shot[r].seen # {} /\ picture # NoPlace
              /\ \E hits \in IF sure THEN {shot[r].seen} ELSE {shot[r].seen, {}} :
                     shot' = [shot EXCEPT ![r].at = "saving",
                                          ![r].held = [picture EXCEPT !.black = @ \cup hits]]
              /\ UNCHANGED files
        /\ UNCHANGED <<desktopVars, shotLock, slipped, abandoned>>

\* Nothing that the file has been given since the copy was read is lost.
KeptBy(copy, picture) ==
    /\ picture # NoPlace
    /\ picture = [copy EXCEPT !.black = picture.black] /\ picture.black \subseteq copy.black

SaveMask(r) ==
    LET n == Masking(r)
        copy == shot[r].held
    IN  /\ shot[r].at = "saving"
        /\ files' = [m \in Files |->
                        IF m \in Spare(r) THEN NoPlace ELSE IF m = n THEN copy ELSE files[m]]
        /\ slipped' = IF KeptBy(copy, files[n]) THEN slipped ELSE slipped \cup {n}
        /\ shot' = [shot EXCEPT ![r].at = AfterMask(r), ![r].held = NoPlace]
        /\ UNCHANGED <<desktopVars, shotLock, abandoned>>

\* crop_visible_window(): the window's part of the picture, or an error
CutOut(r) ==
    /\ shot[r].at = "cropping"
    /\ \/ /\ Go(r, "done")
          /\ files[Composed(r)] # NoPlace
          /\ \E picture \in Cut(r, files[Composed(r)]) :
                 files' = [files EXCEPT ![Output(r)] = picture, ![Composed(r)] = NoPlace]
          /\ slipped' = IF Composed(r) \in slipped THEN slipped \cup {Output(r)}
                        ELSE slipped \ {Output(r)}
          /\ abandoned' = abandoned \ {Output(r)}
       \/ /\ Without({Composed(r)})
          /\ Go(r, "failed") /\ UNCHANGED <<slipped, abandoned>>
    /\ UNCHANGED <<desktopVars, shotLock>>

\* wait_for_change() takes another picture, answers the last, or cannot
\* compare it with the first.
CompareShots(r) ==
    /\ shot[r].at = "comparing"
    /\ Go(r, FirstStep) \/ Go(r, "done") \/ Go(r, "failed")
    /\ UNCHANGED <<desktopVars, shotLock, files, slipped, abandoned>>

NextShots ==
    \/ \E to \in {0} \cup Spots : Shift(to)
    \/ \E r \in Shots :
          \/ \E kind \in ShotKinds, path \in Outputs : BeginShot(r, kind, path)
          \/ PortalAnswers(r) \/ PortalFails(r) \/ PortalCancels(r)
          \/ LockShot(r) \/ Shoot(r) \/ WritePicture(r) \/ ShotFails(r)
          \/ ListWindows(r) \/ MaskFails(r) \/ PaintMask(r) \/ SaveMask(r)
          \/ CutOut(r) \/ CompareShots(r)

SpecShots == InitShots /\ [][NextShots]_shotVars

-----------------------------------------------------------------------------
Quiet(path) == \A r \in Shots : shot[r].path = path => shot[r].at \in Ended

(* When no request works on an output, the picture there shows no denied     *)
(* window and no full picture is left beside it, whatever requests have      *)
(* failed and shared the path, unless the window moved between a picture and *)
(* the list of its mask, a mask was saved over what another request had      *)
(* written since it was read, or a request failed before the mask            *)
(* (screenshot.rs:162, screenshot_image.rs:83).                              *)
OnlyMaskedLeft ==
    \A path \in Outputs :
        LET output == <<"output", path>>
            full == <<"full", path>>
        IN Quiet(path) =>
            /\ \/ output \in slipped \cup abandoned
               \/ files[output] = NoPlace
               \/ ~files[output].mapped
               \/ files[output].denied \in {0} \cup files[output].black
            /\ files[full] = NoPlace \/ full \in abandoned
            /\ \A r \in Shots : shot[r].at \in Ended => files[Composed(r)] = NoPlace

(* "portal window, active-window, and area targets fail closed when a        *)
(* protected window is present" (config.md): none is answered when the list  *)
(* that follows its picture has a denied window.                             *)
AreaFailsClosed ==
    \A r \in Shots : shot[r].at = "done" /\ shot[r].kind = "area" => shot[r].seen = {}
=============================================================================

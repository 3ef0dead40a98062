--------------------------- MODULE MCCaptureSide ---------------------------
(* Captures: the store of the daemon, below it the stream of one retained    *)
(* portal capture and the handshake that opens it, screenshots and their     *)
(* masks, and the geometry of all pictures.  To the store a stream is a      *)
(* session that yields frames, fails or ends; the parts share no state in    *)
(* these models, so that a behaviour is one of one part with the others at   *)
(* rest: what is explored is their sum and not their product.                *)
EXTENDS CaptureFrames, FrameStream, PortalHandshake, PictureGeometry, Screenshots, TLC

VARIABLE part

captureSideVars == <<part, framesVars, streamVars, portalVars, pictureVars, shotVars>>

\* At rest a part is in one state.
InitCaptureSide ==
    /\ part \in {"store", "stream", "portal", "picture", "shots"}
    /\ part # "stream" => protected = FALSE
    /\ part # "portal" => cast = TRUE
    /\ part # "picture" => scale = 4 /\ window = [x |-> 0, w |-> 1, deco |-> 0]
    /\ part # "shots" => deniedAt = 0 /\ portalThere = TRUE /\ spectacleThere = TRUE
    /\ InitFrames /\ InitStream /\ InitPortal /\ InitPicture /\ InitShots

Store ==
    /\ part = "store" /\ NextFrames
    /\ UNCHANGED <<part, streamVars, portalVars, pictureVars, shotVars>>

\* Frames are told apart by their look only on a window, and the first one's
\* is one of looks that differ by name.
SomeLook == CHOOSE look \in Revisions : TRUE

Stream ==
    /\ part = "stream" /\ NextStream
    /\ sent' # sent /\ (sent = 0 \/ protected) => revision'[sent'] = SomeLook
    /\ UNCHANGED <<part, framesVars, portalVars, pictureVars, shotVars>>

Portal ==
    /\ part = "portal" /\ NextPortal
    /\ UNCHANGED <<part, framesVars, streamVars, pictureVars, shotVars>>

Picture ==
    /\ part = "picture" /\ NextPicture
    /\ UNCHANGED <<part, framesVars, streamVars, portalVars, shotVars>>

Screenshot ==
    /\ part = "shots" /\ NextShots
    /\ UNCHANGED <<part, framesVars, streamVars, portalVars, pictureVars>>

NextCaptureSide == Store \/ Stream \/ Portal \/ Picture \/ Screenshot

SpecCaptureSide == InitCaptureSide /\ [][NextCaptureSide]_captureSideVars

(* Type invariants. *)
CaptureSideTypeOK == FramesTypeOK /\ PortalTypeOK

\* The clients of the stream and the screenshots are the owners of the store:
\* model values of two parts never meet.
SymmetryCaptureSide ==
    Permutations(Sessions) \cup Permutations(Owners) \cup Permutations(Spots)
=============================================================================

-------------------------- MODULE PortalHandshake --------------------------
(***************************************************************************)
(* The daemon's conversation with the XDG desktop portal (seatgeist-portal *)
(* lib.rs): requests made one after the other on a session, each answered  *)
(* by a Response signal on a path of its own, to open a ScreenCast or a    *)
(* RemoteDesktop session; then, of a ScreenCast, the retained capture on   *)
(* it (seatgeist-pipewire session.rs) until it is closed or revoked.  A    *)
(* signal reaches only who subscribed before it was sent.                  *)
(***************************************************************************)
EXTENDS Naturals

VARIABLES
    cast,           \* it is ScreenCast: the end of the session is listened for
    turn,           \* the request of the handshake: "create", "select", "start"
    phase,          \* where the daemon is
    path,           \* of the request made: the "expected" one or an "other"
    listening,      \* the path whose Response is subscribed to, or "none"
    asking,         \* the portal's side of the request: "none", "open", "answered"
    inbox,          \* the Response in the stream, or "none"
    portal,         \* the portal's session: "none", "open", "closed"
    closedSignals,  \* Session.Closed: "unheard", "heard" or "received"
    latched,        \* portal_closed
    frames,         \* the PipeWire stream: "none", "open", "ended", or "closed" by the daemon
    reported        \* the lifecycle that was read last

request == <<turn, path, listening, asking, inbox>>
capture == <<latched, frames, reported>>
portalVars == <<cast, turn, phase, path, listening, asking, inbox, portal, closedSignals,
                latched, frames, reported>>

InitPortal ==
    /\ cast \in BOOLEAN /\ turn = "create" /\ phase = "subscribe"
    /\ path = "expected" /\ listening = "none" /\ asking = "none" /\ inbox = "none"
    /\ portal = "none" /\ closedSignals = "unheard"
    /\ latched = FALSE /\ frames = "none" /\ reported = "none"

\* The code after create_session knows the session, and closes it if it fails.
SessionKnown == closedSignals # "unheard"
Failing == IF SessionKnown THEN "close_failed" ELSE "failed"

-----------------------------------------------------------------------------
(* One request: subscribe, call, compare the paths, wait.                   *)

\* Plausible bug: the call is made first.
BugSubscribeResponse == UNCHANGED listening

SubscribeResponse == listening' = "expected"

SubscribeRequest ==
    /\ phase = "subscribe"
    /\ SubscribeResponse
    /\ asking' = "none" /\ inbox' = "none" /\ path' = "expected"
    /\ phase' = "call"
    /\ UNCHANGED <<cast, turn, portal, closedSignals, capture>>

\* The portal does nothing on a session that is over.
Call ==
    /\ phase = "call"
    /\ turn = "create" \/ portal = "open"
    /\ asking' = "open" /\ path' \in {"expected", "other"}
    /\ phase' = "called"
    /\ UNCHANGED <<cast, turn, listening, inbox, portal, closedSignals, capture>>

\* The stream of the expected path goes with what it holds.
ComparePaths ==
    /\ phase = "called"
    /\ IF path = listening
          THEN UNCHANGED <<listening, inbox>>
          ELSE listening' = path /\ inbox' = "none"
    /\ phase' = "wait"
    /\ UNCHANGED <<cast, turn, path, asking, portal, closedSignals, capture>>

\* wait_for_..._response() and what parses it; a Response may be malformed.
TakeResponse ==
    /\ phase = "wait" /\ inbox # "none"
    /\ inbox' = "none"
    /\ \/ phase' = Failing /\ UNCHANGED turn
       \/ /\ inbox = "denied"
          /\ phase' = IF SessionKnown THEN "close_denied" ELSE "denied"
          /\ UNCHANGED turn
       \/ /\ inbox = "success"
          /\ CASE turn = "create" -> turn' = "select"
                                     /\ phase' = IF cast THEN "subscribe_closed" ELSE "subscribe"
               [] turn = "select" -> turn' = "start" /\ phase' = "subscribe"
               [] OTHER -> phase' = "open_remote" /\ UNCHANGED turn
    /\ UNCHANGED <<cast, path, listening, asking, portal, closedSignals, capture>>

\* subscribe_session_closed()
SubscribeClosed ==
    /\ phase = "subscribe_closed"
    /\ closedSignals' = "heard"
    /\ phase' = "subscribe"
    /\ UNCHANGED <<cast, request, portal, capture>>

\* OpenPipeWireRemote or ConnectToEIS
OpenRemote ==
    /\ phase = "open_remote" /\ portal = "open"
    /\ phase' = IF cast THEN "check_streams" ELSE "held"
    /\ UNCHANGED <<cast, request, portal, closedSignals, capture>>

\* PortalPipeWireCaptureSession::open(): one stream, of the right source, that
\* PipeWire connects to.
CheckStreams ==
    /\ phase = "check_streams"
    /\ \/ frames' = "open" /\ phase' = "held"
       \/ phase' = "close_failed" /\ UNCHANGED frames
    /\ UNCHANGED <<cast, request, portal, closedSignals, latched, reported>>

\* A call or a subscription fails, or no Response comes in time.
Fail ==
    /\ phase \in {"subscribe", "call", "called", "wait", "subscribe_closed", "open_remote"}
    /\ phase = "wait" => inbox = "none"
    /\ phase' = Failing
    /\ UNCHANGED <<cast, request, portal, closedSignals, capture>>

\* Session.Close, which may fail; after a denial the daemon also waits a while
\* for the session to be closed.  Then the connection is dropped.
Abandon ==
    /\ phase \in {"close_denied", "close_failed"}
    /\ \/ portal' = "closed"
       \/ UNCHANGED portal
    /\ phase' = IF phase = "close_denied" THEN "denied" ELSE "failed"
    /\ UNCHANGED <<cast, request, closedSignals, capture>>

-----------------------------------------------------------------------------
(* The portal.                                                              *)

Answer(response) ==
    /\ asking = "open"
    /\ asking' = "answered"
    /\ inbox' = IF listening = path THEN response ELSE inbox
    /\ portal' = IF turn = "create" /\ response = "success" THEN "open" ELSE portal
    /\ UNCHANGED <<cast, turn, phase, path, listening, closedSignals, capture>>

\* The user revokes it, or the connection of its client is gone.
PortalEnds ==
    /\ portal = "open"
    /\ portal' = "closed"
    /\ closedSignals' = IF closedSignals = "heard" THEN "received" ELSE closedSignals
    /\ UNCHANGED <<cast, phase, request, capture>>

-----------------------------------------------------------------------------
(* The retained capture.                                                    *)

\* Plausible bug: what was received is not remembered.
BugLatch == latched' = latched /\ closedSignals' = "heard"

Latch == latched' = TRUE /\ closedSignals' = "heard"

\* lifecycle(): of the frames it sees only whether they were closed, not that
\* their stream has ended; it may have looked before a close that is under way.
\* wait_closed() takes the signal from the stream of the portal, and a stream
\* that has failed for the signal.
Lifecycle ==
    /\ cast /\ phase \in {"held", "closing", "closed"}
    /\ \E seen \in {frames} \cup (IF phase = "closing" THEN {"open"} ELSE {}) :
       CASE latched -> reported' = "PortalClosed" /\ UNCHANGED <<latched, closedSignals>>
         [] ~latched /\ seen = "closed" ->
               reported' = "ClientClosed" /\ UNCHANGED <<latched, closedSignals>>
         [] ~latched /\ seen # "closed" /\ closedSignals = "received" ->
               reported' = "PortalClosed" /\ Latch
         [] OTHER -> reported' = "Open" /\ UNCHANGED <<latched, closedSignals>>
    /\ UNCHANGED <<cast, phase, request, portal, frames>>

\* The stream ends: next_frame() fails from here on.
FramesEnd ==
    /\ frames = "open"
    /\ frames' = "ended"
    /\ UNCHANGED <<cast, phase, request, portal, closedSignals, latched, reported>>

\* close(): the frames first, then Session.Close, unless the session is known
\* to be over; it may fail, or be answered by Session.Closed within a second.
CloseFrames ==
    /\ cast /\ phase = "held"
    /\ frames' = "closed"
    /\ phase' = "closing"
    /\ UNCHANGED <<cast, request, portal, closedSignals, latched, reported>>

ClosePortal ==
    /\ phase = "closing"
    /\ \/ UNCHANGED <<portal, latched, closedSignals>>
       \/ ~latched /\ portal' = "closed" /\ UNCHANGED <<latched, closedSignals>>
       \/ ~latched /\ portal' = "closed" /\ Latch
    /\ phase' = "closed"
    /\ UNCHANGED <<cast, request, frames, reported>>

NextPortal ==
    \/ SubscribeRequest \/ Call \/ ComparePaths \/ TakeResponse \/ SubscribeClosed
    \/ OpenRemote \/ CheckStreams \/ Fail \/ Abandon
    \/ \E response \in {"success", "denied"} : Answer(response)
    \/ PortalEnds
    \/ Lifecycle \/ FramesEnd \/ CloseFrames \/ ClosePortal

SpecPortal == InitPortal /\ [][NextPortal]_portalVars

-----------------------------------------------------------------------------
(* Type invariant. *)
PortalTypeOK ==
    /\ cast \in BOOLEAN /\ turn \in {"create", "select", "start"}
    /\ phase \in {"subscribe", "call", "called", "wait", "subscribe_closed", "open_remote",
                  "check_streams", "close_denied", "close_failed", "denied", "failed",
                  "held", "closing", "closed"}
    /\ path \in {"expected", "other"} /\ listening \in {"expected", "other", "none"}
    /\ asking \in {"none", "open", "answered"} /\ inbox \in {"none", "success", "denied"}
    /\ portal \in {"none", "open", "closed"} /\ latched \in BOOLEAN
    /\ closedSignals \in {"unheard", "heard", "received"}
    /\ closedSignals # "unheard" => cast
    /\ frames \in {"none", "open", "ended", "closed"}
    /\ reported \in {"none", "Open", "PortalClosed", "ClientClosed"}

(* However fast the portal answers, its answer on the path the daemon       *)
(* expects is in the stream when the daemon waits for it: no consent of the *)
(* user is lost and no handshake times out with the answer given.           *)
AnswersHeard ==
    asking = "answered" /\ path = "expected" /\ phase \in {"called", "wait"} => inbox # "none"

(* A retained capture is reported open only while its portal session is     *)
(* open: a revocation is noticed whenever it comes, during the rest of the  *)
(* handshake, later, or while a close is under way, and is not forgotten    *)
(* once it was read.  That its stream still delivers is not said.           *)
ReportedOpenIsOpen == [][Lifecycle /\ reported' = "Open" => portal = "open"]_portalVars
=============================================================================

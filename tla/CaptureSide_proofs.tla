-------------------------- MODULE CaptureSide_proofs --------------------------
(***************************************************************************)
(* Proofs about the previews of the retained captures, for every set of    *)
(* requests, sessions, windows, owners and grabs, and every quota; and of  *)
(* what is behind a portal capture, the handshake with the portal and the  *)
(* stream of frames, for every number of clients and of frames.  Then the  *)
(* masks of screenshots, for any requests, paths and places, and where a   *)
(* picture comes from and a click on it goes, for any scales and sizes.    *)
(***************************************************************************)
EXTENDS MCCaptureSide, CaptureSessions_proofs

(* What a grab holds is outdated only if an input has overtaken it.        *)
GrabsOvertaken == \A g \in Grabs : grab[g].outdated => grab[g].session \in overtaken

FramesInv == FramesTypeOK /\ GrabsOvertaken /\ OutdatedOnlyIfOvertaken /\ PointsAreLocal

(* A grab does to the store what a request without previews may do.        *)
LEMMA FramesStepOfStore ==
    ASSUME FramesTypeOK, [NextFrames]_framesVars
    PROVE  [NextCapture]_captureVars
<1>1. ASSUME NEW g \in Grabs, GrabFails(g)
      PROVE  [NextCapture]_captureVars
  <2>1. CASE RemoveSlot(grab[g].session)
    <3>1. grab[g].session \in Sessions
      BY <2>1 DEF RemoveSlot, Active
    <3> QED BY <2>1, <3>1 DEF NextCapture
  <2> QED BY <1>1, <2>1 DEF GrabFails
<1>2. ASSUME NEW g \in Grabs, RetainFrame(g) \/ RetainMasked(g)
      PROVE  UNCHANGED captureVars
  BY <1>2 DEF RetainFrame, RetainMasked
<1> QED BY <1>1, <1>2 DEF NextFrames, framesVars, StoreStep, GrabFrame, InvalidateLatestFrames, NextCapture

LEMMA LeaveStep ==
    ASSUME FramesInv, CaptureTypeOK', KeepsSources, LeaveWithSlot, UNCHANGED overtaken,
           grab' \in [Grabs -> [at: {"idle", "grabbed", "masking"},
                                session: Sessions \cup {None}, outdated: BOOLEAN]],
           \A g \in Grabs : /\ grab'[g].outdated => grab[g].outdated /\ grab'[g].session = grab[g].session
                            /\ grab[g].at = "masking" => grab'[g] = grab[g],
           \A s \in Sessions : slots[s] = None => frame[s] = "none"
    PROVE  FramesInv'
<1>1. FramesTypeOK'
  BY DEF FramesInv, FramesTypeOK, LeaveWithSlot
<1>2. GrabsOvertaken'
  BY DEF FramesInv, GrabsOvertaken
<1>3. OutdatedOnlyIfOvertaken'
  BY DEF FramesInv, FramesTypeOK, OutdatedOnlyIfOvertaken, Mappable, LeaveWithSlot
<1>4. ASSUME NEW s \in Sessions, OnWindow(s)', Mappable(s)', ~local'[s]
      PROVE  s \in unannotated' \/ \E g \in Grabs : grab'[g].at = "masking" /\ grab'[g].session = s
  <2>1. slots'[s] # None /\ slots[s] # None /\ Mappable(s) /\ ~local[s]
    BY <1>4 DEF FramesInv, FramesTypeOK, OnWindow, Active, Mappable, LeaveWithSlot
  <2>2. OnWindow(s)
    BY <1>4, <2>1 DEF OnWindow, Active, KeepsSources, Exact
  <2>3. s \in unannotated \/ \E g \in Grabs : grab[g].at = "masking" /\ grab[g].session = s
    BY <2>1, <2>2 DEF FramesInv, PointsAreLocal
  <2> QED BY <2>1, <2>3 DEF LeaveWithSlot
<1>5. PointsAreLocal'
  BY <1>4 DEF PointsAreLocal
<1> QED BY <1>1, <1>2, <1>3, <1>5 DEF FramesInv

LEMMA RetainStep ==
    ASSUME FramesInv, NEW g \in Grabs, RetainFrame(g)
    PROVE  FramesInv'
<1>1. CaptureTypeOK' /\ UNCHANGED <<captureVars, overtaken, Active>>
  BY DEF FramesInv, FramesTypeOK, RetainFrame, captureVars, CaptureTypeOK, Active
<1>2. CASE /\ UpdateLatestFrame(g) /\ grab' = [grab EXCEPT ![g].at = "masking"]
           /\ local' = [local EXCEPT ![grab[g].session] = FALSE]
           /\ unannotated' = unannotated \ {grab[g].session}
  <2>1. grab[g].session \in Sessions /\ grab[g].session \in Active
    BY <1>2 DEF UpdateLatestFrame, Active
  <2>2. FramesTypeOK'
    BY <1>1, <1>2, <2>1 DEF FramesInv, FramesTypeOK, UpdateLatestFrame, Active, captureVars
  <2>3. GrabsOvertaken'
    BY <1>1, <1>2 DEF FramesInv, FramesTypeOK, GrabsOvertaken
  <2>4. OutdatedOnlyIfOvertaken'
    BY <1>1, <1>2, <2>1 DEF FramesInv, FramesTypeOK, GrabsOvertaken, OutdatedOnlyIfOvertaken, Mappable,
                            UpdateLatestFrame
  <2>5. PointsAreLocal'
    BY <1>1, <1>2, <2>1 DEF FramesInv, FramesTypeOK, PointsAreLocal, OnWindow, Mappable, UpdateLatestFrame,
                            captureVars
  <2> QED BY <2>2, <2>3, <2>4, <2>5 DEF FramesInv
<1>3. CASE /\ grab[g].session \notin Active
           /\ grab' = [grab EXCEPT ![g] = Idle]
           /\ UNCHANGED <<frame, invalidated, local, unannotated>>
  BY <1>1, <1>3 DEF FramesInv, FramesTypeOK, GrabsOvertaken, OutdatedOnlyIfOvertaken, PointsAreLocal,
                    OnWindow, Mappable, Idle, captureVars, RetainFrame
<1> QED BY <1>2, <1>3 DEF RetainFrame

LEMMA MaskedStep ==
    ASSUME FramesInv, NEW g \in Grabs, RetainMasked(g)
    PROVE  FramesInv'
<1> DEFINE s == grab[g].session
<1>1. CaptureTypeOK' /\ UNCHANGED <<captureVars, overtaken, Active>>
  BY DEF FramesInv, FramesTypeOK, RetainMasked, captureVars, CaptureTypeOK, Active
<1>2. grab' = [grab EXCEPT ![g] = Idle]
  BY DEF RetainMasked
<1>3. CASE UpdateLatestFrame(g) /\ local' = Annotated(g) /\ unannotated' = unannotated \ {s}
  <2>1. s \in Sessions /\ s \in Active
    BY <1>3 DEF UpdateLatestFrame, Active
  <2>2. FramesTypeOK'
    BY <1>1, <1>2, <1>3, <2>1 DEF FramesInv, FramesTypeOK, UpdateLatestFrame, Active, captureVars,
                                  Annotated, OnWindow, Idle
  <2>3. GrabsOvertaken'
    BY <1>1, <1>2 DEF FramesInv, FramesTypeOK, GrabsOvertaken, Idle
  <2>4. OutdatedOnlyIfOvertaken'
    BY <1>1, <1>3, <2>1 DEF FramesInv, FramesTypeOK, GrabsOvertaken, OutdatedOnlyIfOvertaken, Mappable,
                            UpdateLatestFrame
  <2>5. PointsAreLocal'
    BY <1>1, <1>2, <1>3, <2>1 DEF FramesInv, FramesTypeOK, PointsAreLocal, OnWindow, Mappable,
                                  UpdateLatestFrame, captureVars, Annotated
  <2> QED BY <2>2, <2>3, <2>4, <2>5 DEF FramesInv
<1>4. CASE /\ unannotated' = unannotated \cup ({s} \cap Active)
           /\ UNCHANGED <<frame, invalidated, local>>
  <2>1. FramesTypeOK'
    BY <1>1, <1>2, <1>4 DEF FramesInv, FramesTypeOK, Active, captureVars, Idle
  <2>2. GrabsOvertaken' /\ OutdatedOnlyIfOvertaken'
    BY <1>1, <1>2, <1>4 DEF FramesInv, FramesTypeOK, GrabsOvertaken, Idle, OutdatedOnlyIfOvertaken, Mappable
  <2>3. PointsAreLocal'
    BY <1>1, <1>2, <1>4 DEF FramesInv, FramesTypeOK, PointsAreLocal, OnWindow, Mappable, captureVars
  <2> QED BY <2>1, <2>2, <2>3 DEF FramesInv
<1> QED BY <1>3, <1>4 DEF RetainMasked

LEMMA InvalidateStep ==
    ASSUME FramesInv, NEW w \in Windows, InvalidateLatestFrames(w)
    PROVE  FramesInv'
<1> DEFINE A == SessionsOn(w)
<1>1. CaptureTypeOK' /\ UNCHANGED <<captureVars, Active>> /\ A \subseteq Sessions
  BY DEF FramesInv, FramesTypeOK, InvalidateLatestFrames, captureVars, CaptureTypeOK, Active, SessionsOn
<1>2. \A g \in Grabs : /\ grab'[g].at = grab[g].at /\ grab'[g].session = grab[g].session
                       /\ grab'[g].outdated <=> grab[g].outdated \/ grab[g].session \in A
                       /\ grab'[g] \in [at: {"idle", "grabbed", "masking"},
                                        session: Sessions \cup {None}, outdated: BOOLEAN]
  BY DEF FramesInv, FramesTypeOK, InvalidateLatestFrames, OutdateGrabs
<1>3. FramesTypeOK'
  <2>1. grab' \in [Grabs -> [at: {"idle", "grabbed", "masking"},
                             session: Sessions \cup {None}, outdated: BOOLEAN]]
    BY <1>2 DEF InvalidateLatestFrames, OutdateGrabs
  <2>2. overtaken' \subseteq Sessions /\ unannotated' \subseteq Sessions
    BY <1>1 DEF FramesInv, FramesTypeOK, InvalidateLatestFrames, Overtakes
  <2> QED BY <1>1, <2>1, <2>2 DEF FramesInv, FramesTypeOK, InvalidateLatestFrames, captureVars
<1>4. GrabsOvertaken'
  BY <1>1, <1>2 DEF FramesInv, GrabsOvertaken, InvalidateLatestFrames, Overtakes
<1>5. OutdatedOnlyIfOvertaken'
  BY <1>1 DEF FramesInv, FramesTypeOK, OutdatedOnlyIfOvertaken, Mappable, InvalidateLatestFrames
<1>6. PointsAreLocal'
  BY <1>1, <1>2 DEF FramesInv, FramesTypeOK, PointsAreLocal, OnWindow, Mappable, InvalidateLatestFrames,
                    captureVars
<1> QED BY <1>3, <1>4, <1>5, <1>6 DEF FramesInv

LEMMA FramesStep == CaptureInv /\ FramesInv /\ [NextFrames]_framesVars => FramesInv'
<1> SUFFICES ASSUME CaptureInv, FramesInv, [NextFrames]_framesVars PROVE FramesInv'
  OBVIOUS
<1>1. [NextCapture]_captureVars
  BY FramesStepOfStore DEF FramesInv
<1>2. CaptureTypeOK' /\ KeepsSources
  BY <1>1, CaptureStep, SourcesKept DEF CaptureInv
<1>3. \A s \in Sessions : slots[s] = None => frame[s] = "none"
  BY DEF FramesInv, FramesTypeOK
<1>4. CASE StoreStep
  BY <1>2, <1>3, <1>4, LeaveStep DEF StoreStep, FramesInv, FramesTypeOK
<1>5. ASSUME NEW g \in Grabs, NEW s \in Sessions, GrabFrame(g, s)
      PROVE  FramesInv'
  <2>1. grab' = [grab EXCEPT ![g] = [at |-> "grabbed", session |-> s, outdated |-> FALSE]]
    BY <1>5 DEF GrabFrame
  <2>2. grab' \in [Grabs -> [at: {"idle", "grabbed", "masking"},
                             session: Sessions \cup {None}, outdated: BOOLEAN]]
    BY <2>1 DEF FramesInv, FramesTypeOK
  <2> QED BY <1>2, <1>3, <1>5, <2>1, <2>2, LeaveStep DEF GrabFrame, FramesInv, FramesTypeOK
<1>6. ASSUME NEW g \in Grabs, GrabFails(g)
      PROVE  FramesInv'
  <2>1. grab' = [grab EXCEPT ![g] = Idle]
    BY <1>6 DEF GrabFails
  <2>2. grab' \in [Grabs -> [at: {"idle", "grabbed", "masking"},
                             session: Sessions \cup {None}, outdated: BOOLEAN]]
    BY <2>1 DEF FramesInv, FramesTypeOK, Idle
  <2>3. \A h \in Grabs : /\ grab'[h].outdated => grab[h].outdated /\ grab'[h].session = grab[h].session
                         /\ grab[h].at = "masking" => grab'[h] = grab[h]
    BY <1>6, <2>1 DEF GrabFails, FramesInv, FramesTypeOK, Idle
  <2> QED BY <1>2, <1>3, <1>6, <2>2, <2>3, LeaveStep DEF GrabFails
<1>7. ASSUME NEW g \in Grabs, RetainFrame(g) \/ RetainMasked(g)
      PROVE  FramesInv'
  BY <1>7, RetainStep, MaskedStep
<1>8. ASSUME NEW w \in Windows, InvalidateLatestFrames(w)
      PROVE  FramesInv'
  BY <1>8, InvalidateStep
<1>9. CASE UNCHANGED framesVars
  BY <1>2, <1>9 DEF framesVars, frameVars, captureVars, FramesInv, FramesTypeOK, GrabsOvertaken,
                    OutdatedOnlyIfOvertaken, PointsAreLocal, OnWindow, Mappable, Active
<1> QED BY <1>4, <1>5, <1>6, <1>7, <1>8, <1>9 DEF NextFrames

LEMMA FramesStart == InitFrames => CaptureInv /\ FramesInv
<1> SUFFICES ASSUME InitFrames PROVE CaptureInv /\ FramesInv
  OBVIOUS
<1>1. CaptureInv
  BY CaptureStart DEF InitFrames
<1>2. FramesTypeOK
  BY <1>1 DEF InitFrames, FramesTypeOK, Idle, CaptureInv
<1> QED BY <1>1, <1>2 DEF FramesInv, InitFrames, GrabsOvertaken, OutdatedOnlyIfOvertaken,
                          PointsAreLocal, Mappable, Idle

LEMMA FramesInvariant == SpecFrames => [](CaptureInv /\ FramesInv)
<1>1. CaptureInv /\ FramesInv /\ [NextFrames]_framesVars => (CaptureInv /\ FramesInv)'
  BY FramesStep, FramesStepOfStore, CaptureStep DEF FramesInv
<1> QED BY <1>1, FramesStart, PTL DEF SpecFrames

(* A session that is gone retains no preview, and an invalidated one maps  *)
(* no point (capture.rs:344-420).                                          *)
THEOREM FramesTypeCorrect == SpecFrames => []FramesTypeOK
BY FramesInvariant, PTL DEF FramesInv

(* The limits hold as well when grabs drop the slots of lost targets       *)
(* (capture.rs:146).                                                       *)
THEOREM OpensWithinLimitsHolds == SpecFrames => []OpensWithinLimits
<1>1. CaptureInv => OpensWithinLimits
  BY DEF CaptureInv, OpensWithinLimits
<1> QED BY <1>1, FramesInvariant, PTL

(* However many grabs and requests race the user, an old preview comes     *)
(* back only through a grab that was in flight, and points of an exact     *)
(* session are its window's but for a grab in flight or refused            *)
(* (capture.rs:401, main.rs:2151).                                         *)
THEOREM PreviewsMapTrulyHolds == SpecFrames => []PreviewsMapTruly
<1>1. FramesInv => PreviewsMapTruly
  BY DEF FramesInv, PreviewsMapTruly
<1> QED BY <1>1, FramesInvariant, PTL

-----------------------------------------------------------------------------
(* The handshake with the portal.                                          *)

(* The inductive invariant.  While an answer may come the path it comes on *)
(* is subscribed to, unless it is not yet known; and from the moment the   *)
(* end of a ScreenCast session is listened for, what ends it is received   *)
(* or latched.                                                             *)
PortalInv ==
    /\ PortalTypeOK
    /\ phase \in {"call", "called"} => listening = "expected"
    /\ phase = "wait" => listening = path
    /\ AnswersHeard
    /\ phase \in {"open_remote", "check_streams", "held", "closing", "closed"} => turn = "start"
    /\ cast /\ turn # "create" /\ phase \notin {"subscribe_closed", "close_denied", "close_failed", "denied", "failed"} =>
          SessionKnown
    /\ phase \in {"subscribe_closed", "closing", "closed"} => cast
    /\ phase \in {"closing", "closed"} => frames = "closed"
    /\ cast /\ phase \in {"check_streams", "held", "closing"} /\ portal # "open" =>
          latched \/ closedSignals = "received"

LEMMA PortalStart == InitPortal => PortalInv
BY DEF InitPortal, PortalInv, PortalTypeOK, AnswersHeard, SessionKnown

LEMMA PortalStep == PortalInv /\ [NextPortal]_portalVars => PortalInv'
<1> SUFFICES ASSUME PortalInv, [NextPortal]_portalVars PROVE PortalInv'
  OBVIOUS
<1> USE DEF PortalInv, PortalTypeOK, AnswersHeard, SessionKnown, Failing, request, capture
<1>1. CASE SubscribeRequest
  BY <1>1 DEF SubscribeRequest, SubscribeResponse
<1>2. CASE Call
  BY <1>2 DEF Call
<1>3. CASE ComparePaths
  BY <1>3 DEF ComparePaths
<1>4. CASE TakeResponse
  <2>1. CASE turn = "create"
    BY <1>4, <2>1 DEF TakeResponse
  <2>2. CASE turn = "select"
    BY <1>4, <2>2 DEF TakeResponse
  <2>3. CASE turn = "start"
    BY <1>4, <2>3 DEF TakeResponse
  <2> QED BY <2>1, <2>2, <2>3
<1>5. CASE SubscribeClosed
  BY <1>5 DEF SubscribeClosed
<1>6. CASE OpenRemote
  BY <1>6 DEF OpenRemote
<1>7. CASE CheckStreams
  BY <1>7 DEF CheckStreams
<1>8. CASE Fail
  BY <1>8 DEF Fail
<1>9. CASE Abandon
  BY <1>9 DEF Abandon
<1>10. ASSUME NEW response \in {"success", "denied"}, Answer(response) PROVE PortalInv'
  BY <1>10 DEF Answer
<1>11. CASE PortalEnds
  BY <1>11 DEF PortalEnds
<1>12. CASE Lifecycle
  <2>1. reported' \in {"Open", "PortalClosed", "ClientClosed"} /\ UNCHANGED <<cast, phase, request, portal, frames>>
    BY <1>12 DEF Lifecycle
  <2>2. CASE UNCHANGED <<latched, closedSignals>>
    BY <2>1, <2>2
  <2>3. CASE Latch /\ closedSignals = "received"
    BY <2>1, <2>3 DEF Latch
  <2> QED BY <1>12, <2>2, <2>3 DEF Lifecycle
<1>13. CASE FramesEnd
  BY <1>13 DEF FramesEnd
<1>14. CASE CloseFrames
  BY <1>14 DEF CloseFrames
<1>15. CASE ClosePortal
  <2>1. CASE UNCHANGED <<latched, closedSignals>>
    BY <1>15, <2>1 DEF ClosePortal
  <2>2. CASE Latch
    <3>1. /\ phase = "closing" /\ phase' = "closed" /\ portal' \in {portal, "closed"}
          /\ closedSignals' = "heard" /\ UNCHANGED <<request, frames, reported>>
      BY <1>15, <2>2 DEF ClosePortal, Latch
    <3>2. cast /\ cast' /\ latched'
      BY <1>15, <2>2, <3>1 DEF ClosePortal, Latch
    <3>3. cast' \in BOOLEAN /\ latched' \in BOOLEAN
      BY <1>15, <2>2 DEF ClosePortal, Latch
    <3> QED BY <3>1, <3>2, <3>3
  <2> QED BY <1>15, <2>1, <2>2 DEF ClosePortal
<1>16. CASE UNCHANGED portalVars
  BY <1>16 DEF portalVars
<1> QED BY <1>1, <1>2, <1>3, <1>4, <1>5, <1>6, <1>7, <1>8, <1>9, <1>10, <1>11, <1>12, <1>13,
           <1>14, <1>15, <1>16 DEF NextPortal

LEMMA PortalInvariant == SpecPortal => []PortalInv
BY PortalStart, PortalStep, PTL DEF SpecPortal

(* The conversation with the portal has its type.                           *)
THEOREM PortalTypeCorrect == SpecPortal => []PortalTypeOK
<1>1. PortalInv => PortalTypeOK
  BY DEF PortalInv
<1> QED BY <1>1, PortalInvariant, PTL

(* No Response is missed: whatever the portal does before the call returns, *)
(* the daemon's subscription is older (seatgeist-portal lib.rs).            *)
THEOREM AnswersHeardHolds == SpecPortal => []AnswersHeard
<1>1. PortalInv => AnswersHeard
  BY DEF PortalInv
<1> QED BY <1>1, PortalInvariant, PTL

(* lifecycle() says "Open" of an open portal session only: an end that came *)
(* while the handshake went on, or while a close is under way, has been     *)
(* received, and one that was read is latched.                              *)
THEOREM ReportedOpenIsOpenHolds == SpecPortal => ReportedOpenIsOpen
<1>1. ASSUME PortalInv, Lifecycle, reported' = "Open" PROVE portal = "open"
  <2>1. /\ cast /\ phase \in {"held", "closing", "closed"}
        /\ ~latched /\ closedSignals # "received"
        /\ frames # "closed" \/ phase = "closing"
    BY <1>1 DEF Lifecycle
  <2>2. phase # "closed"
    BY <1>1, <2>1 DEF PortalInv
  <2> QED BY <1>1, <2>1, <2>2 DEF PortalInv
<1>2. PortalInv => [Lifecycle /\ reported' = "Open" => portal = "open"]_portalVars
  BY <1>1
<1> QED BY <1>2, PortalInvariant, PTL DEF ReportedOpenIsOpen

-----------------------------------------------------------------------------
(* The frames of one capture.                                              *)

StreamCall == [at: {"idle", "source", "receiving", "encoding"}, kind: {"snapshot", "wait"},
               began: Nat, frame: Nat, after: Nat]

(* What a call that encodes has, it took when it was the newest.            *)
CallOK(c) ==
    /\ call[c].began <= sent /\ call[c].frame <= sent
    /\ call[c].at = "encoding" => call[c].frame >= call[c].began

(* While no two calls have overlapped, what is under way is the newest.     *)
InOrder ==
    /\ \A c \in Calls : answer[c] <= latest
    /\ \A c, d \in Calls : call[c].at = "encoding" /\ call[d].at = "encoding" => c = d
    /\ \A c \in Calls : call[c].at = "encoding" => latest <= call[c].frame

(* The inductive invariant.                                                 *)
StreamInv ==
    /\ sent \in Nat /\ latest \in 0..sent
    /\ mailbox \in {Empty, Broken, sent}
    /\ call \in [Calls -> StreamCall] /\ answer \in [Calls -> Nat]
    /\ overlapped \in BOOLEAN /\ protected \in BOOLEAN /\ unfounded \in BOOLEAN
    /\ \A c \in Calls : CallOK(c)
    /\ ~protected => ~unfounded
    /\ ~overlapped => InOrder

LEMMA NoFrame == Empty \notin Nat /\ Broken \notin Nat /\ Empty # Broken
BY StreamAssumption

LEMMA StreamStart == InitStream => StreamInv
<1> SUFFICES ASSUME InitStream PROVE StreamInv
  OBVIOUS
<1>1. sent = 0 /\ mailbox = Empty /\ latest = 0
  BY DEF InitStream
<1>2. /\ call = [c \in Calls |-> NoCall] /\ NoCall \in StreamCall
      /\ answer = [c \in Calls |-> 0]
  BY DEF InitStream, NoCall, StreamCall
<1>3. overlapped \in BOOLEAN /\ protected \in BOOLEAN /\ unfounded \in BOOLEAN /\ ~unfounded
  BY DEF InitStream
<1>4. \A c \in Calls : CallOK(c)
  BY <1>1, <1>2 DEF CallOK, NoCall
<1>5. InOrder
  BY <1>1, <1>2 DEF InOrder, NoCall
<1> QED BY <1>1, <1>2, <1>3, <1>4, <1>5 DEF StreamInv

\* A step of the thread or of a mutex, which leaves the calls alone.
LEMMA ThreadKeeps ==
    ASSUME StreamInv, sent' \in Nat, sent <= sent', mailbox' \in {Empty, Broken, sent'},
           UNCHANGED <<call, latest, answer, overlapped, protected, unfounded>>
    PROVE  StreamInv'
<1>1. latest' \in 0..sent' /\ \A c \in Calls : CallOK(c)'
  <2>1. \A c \in Calls : call[c].began \in Nat /\ call[c].frame \in Nat
    BY DEF StreamInv, StreamCall
  <2> QED BY <2>1 DEF StreamInv, CallOK
<1>2. ~overlapped' => InOrder'
  BY DEF StreamInv, InOrder
<1> QED BY <1>1, <1>2 DEF StreamInv

\* One call ends, or gets as far as the source.
LEMMA CallMoves ==
    ASSUME StreamInv, NEW c \in Calls, NEW r \in StreamCall, call' = [call EXCEPT ![c] = r],
           r.at # "encoding", r.began <= sent, r.frame <= sent,
           UNCHANGED <<sent, latest, overlapped, protected, unfounded>>,
           mailbox' \in {Empty, mailbox},
           answer' = answer \/ answer' = [answer EXCEPT ![c] = latest]
    PROVE  StreamInv'
<1>1. call' \in [Calls -> StreamCall] /\ call'[c] = r /\ \A d \in Calls : d # c => call'[d] = call[d]
  BY DEF StreamInv
<1>2. \A d \in Calls : CallOK(d)'
  BY <1>1 DEF StreamInv, CallOK
<1>3. answer' \in [Calls -> Nat] /\ \A d \in Calls : answer'[d] \in {answer[d], latest}
  BY DEF StreamInv
<1>4. ~overlapped' => InOrder'
  BY <1>1, <1>3 DEF StreamInv, InOrder
<1> QED BY <1>1, <1>2, <1>3, <1>4 DEF StreamInv

LEMMA TakeFrameKeeps == ASSUME StreamInv, NEW c \in Calls, TakeFrame(c) PROVE StreamInv'
<1>1. CASE mailbox = Broken
  <2>1. NoCall \in StreamCall /\ NoCall.at # "encoding" /\ NoCall.began <= sent /\ NoCall.frame <= sent
    BY DEF NoCall, StreamCall, StreamInv
  <2>2. call' = [call EXCEPT ![c] = NoCall] /\ UNCHANGED overlapped
    BY <1>1 DEF TakeFrame, Ends
  <2>3. UNCHANGED <<sent, latest, protected, unfounded, answer>> /\ mailbox' = Empty
    BY DEF TakeFrame, clientVars
  <2> QED BY <2>1, <2>2, <2>3, CallMoves
<1>2. CASE mailbox # Broken
  <2>1. mailbox = sent /\ call[c].at = "receiving" /\ mailbox' = Empty
    BY <1>2 DEF StreamInv, TakeFrame
  <2>2. UNCHANGED <<sent, latest, answer, protected, unfounded>>
    BY DEF TakeFrame, clientVars
  <2>3. /\ call' = [call EXCEPT ![c].at = "encoding", ![c].frame = sent]
        /\ overlapped' = (overlapped \/ \E d \in Calls : call[d].at = "encoding")
    BY <1>2, <2>1 DEF TakeFrame
  <2>4. /\ call' \in [Calls -> StreamCall] /\ call'[c].at = "encoding" /\ call'[c].frame = sent
        /\ call'[c].began = call[c].began
        /\ \A d \in Calls : d # c => call'[d] = call[d]
    BY <2>3 DEF StreamInv, StreamCall
  <2>5. \A d \in Calls : CallOK(d)'
    BY <2>2, <2>4 DEF StreamInv, CallOK
  <2>6. overlapped' \in BOOLEAN /\ (~overlapped' => ~overlapped /\ \A d \in Calls : call[d].at # "encoding")
    BY <2>3
  <2>7. ~overlapped' => InOrder'
    BY <2>2, <2>4, <2>6 DEF StreamInv, InOrder
  <2> QED BY <2>1, <2>2, <2>4, <2>5, <2>6, <2>7 DEF StreamInv
<1> QED BY <1>1, <1>2

LEMMA InstallFrameKeeps == ASSUME StreamInv, NEW c \in Calls, InstallFrame(c) PROVE StreamInv'
<1>1. /\ call' = [call EXCEPT ![c] = NoCall] /\ call[c].at = "encoding"
      /\ UNCHANGED <<sent, mailbox, overlapped, protected>>
  BY DEF InstallFrame, Ends
<1>2. /\ call' \in [Calls -> StreamCall] /\ call'[c] = NoCall
      /\ \A d \in Calls : d # c => call'[d] = call[d]
  BY <1>1 DEF StreamInv, StreamCall, NoCall
<1>3. \A d \in Calls : CallOK(d)'
  BY <1>1, <1>2 DEF StreamInv, CallOK, NoCall
<1>4. call[c].frame \in Nat /\ call[c].frame <= sent
  BY DEF StreamInv, StreamCall, CallOK
<1>5. \/ latest' = latest /\ answer' = answer
      \/ latest' = call[c].frame /\ answer' \in {answer, [answer EXCEPT ![c] = call[c].frame]}
  BY DEF InstallFrame, Installed
<1>6. latest' \in 0..sent' /\ answer' \in [Calls -> Nat]
  BY <1>1, <1>4, <1>5 DEF StreamInv
<1>7. ~overlapped' => InOrder'
  <2> SUFFICES ASSUME ~overlapped' PROVE InOrder'
    OBVIOUS
  <2>1. InOrder
    BY <1>1 DEF StreamInv
  <2>2. \A d \in Calls : call'[d].at # "encoding"
    BY <1>1, <1>2, <2>1 DEF InOrder, NoCall
  <2>3. \A d \in Calls : answer[d] \in Nat /\ answer[d] <= latest /\ answer[d] <= call[c].frame
    BY <1>1, <1>4, <2>1 DEF InOrder, StreamInv
  <2>4. \A d \in Calls : answer'[d] <= latest'
    BY <1>4, <1>5, <2>3 DEF StreamInv
  <2> QED BY <2>2, <2>4 DEF InOrder
<1>8. unfounded' \in BOOLEAN /\ (~protected' => ~unfounded')
  <2>1. CASE UNCHANGED unfounded
    BY <1>1, <2>1 DEF StreamInv
  <2>2. CASE ToldChange(call[c].after, call[c].frame)
    BY <1>1, <2>2 DEF ToldChange, Known, StreamInv
  <2> QED BY <2>1, <2>2 DEF InstallFrame
<1> QED BY <1>1, <1>2, <1>3, <1>6, <1>7, <1>8 DEF StreamInv

LEMMA StreamStep == StreamInv /\ [NextStream]_streamVars => StreamInv'
<1> SUFFICES ASSUME StreamInv, [NextStream]_streamVars PROVE StreamInv'
  OBVIOUS
<1>0. NoCall \in StreamCall /\ NoCall.at # "encoding" /\ NoCall.began <= sent /\ NoCall.frame <= sent
  BY DEF NoCall, StreamCall, StreamInv
<1>1. ASSUME NEW look \in Revisions, ProduceFrame(look) PROVE StreamInv'
  BY <1>1, ThreadKeeps DEF ProduceFrame, Send, clientVars, StreamInv
<1>2. CASE StreamFails
  BY <1>2, ThreadKeeps DEF StreamFails, Send, clientVars, StreamInv
<1>3. CASE BeginClose \/ FinishClose \/ UNCHANGED streamVars
  BY <1>3, ThreadKeeps DEF BeginClose, FinishClose, streamVars, clientVars, StreamInv
<1>4. ASSUME NEW c \in Calls, NEW after \in {0, answer[c]}, AnswerWait(c, after) PROVE StreamInv'
  <2>1. /\ answer' = [answer EXCEPT ![c] = latest] /\ call' = call
        /\ UNCHANGED <<sent, mailbox, latest, overlapped, protected>>
    BY <1>4 DEF AnswerWait
  <2>2. \A d \in Calls : CallOK(d)'
    BY <2>1 DEF StreamInv, CallOK
  <2>3. answer' \in [Calls -> Nat] /\ \A d \in Calls : answer'[d] \in {answer[d], latest}
    BY <2>1 DEF StreamInv
  <2>4. ~overlapped' => InOrder'
    BY <2>1, <2>3 DEF StreamInv, InOrder
  <2>5. unfounded' \in BOOLEAN /\ (~protected' => ~unfounded')
    BY <1>4, <2>1 DEF AnswerWait, ToldChange, Known, StreamInv
  <2> QED BY <2>1, <2>2, <2>3, <2>4, <2>5 DEF StreamInv
<1>5. ASSUME NEW c \in Calls, NEW after \in {0, answer[c]}, NEW kind \in {"snapshot", "wait"},
             BeginCapture(c, kind, after)
      PROVE  StreamInv'
  <2> DEFINE r == [at |-> "source", kind |-> kind, began |-> sent, frame |-> 0, after |-> after]
  <2>1. r \in StreamCall /\ r.at # "encoding" /\ r.began <= sent /\ r.frame <= sent
    BY DEF StreamInv, StreamCall
  <2>2. /\ call' = [call EXCEPT ![c] = r] /\ answer' = answer /\ mailbox' = mailbox
        /\ UNCHANGED <<sent, latest, overlapped, protected, unfounded>>
    BY <1>5 DEF BeginCapture, clientVars
  <2> QED BY <2>1, <2>2, CallMoves
<1>6. ASSUME NEW c \in Calls, LockSource(c) PROVE StreamInv'
  <2>1. PICK r \in StreamCall : /\ r.at # "encoding" /\ r.began <= sent /\ r.frame <= sent
                               /\ call' = [call EXCEPT ![c] = r]
    <3>1. CASE call' = [call EXCEPT ![c].at = "receiving"]
      <4> DEFINE r == [call[c] EXCEPT !.at = "receiving"]
      <4>1. r \in StreamCall /\ r.at # "encoding" /\ r.began <= sent /\ r.frame <= sent
        BY DEF StreamInv, StreamCall, CallOK
      <4>2. call' = [call EXCEPT ![c] = r]
        BY <3>1
      <4> QED BY <4>1, <4>2
    <3>2. CASE Ends(c)
      BY <1>0, <3>2 DEF Ends
    <3> QED BY <1>6, <3>1, <3>2 DEF LockSource
  <2>2. UNCHANGED <<sent, latest, overlapped, protected, unfounded, answer, mailbox>>
    BY <1>6 DEF LockSource, clientVars
  <2> QED BY <2>1, <2>2, CallMoves
<1>7. ASSUME NEW c \in Calls, TakeNothing(c) PROVE StreamInv'
  <2>1. /\ call' = [call EXCEPT ![c] = NoCall] /\ mailbox' = mailbox
        /\ answer' = answer \/ answer' = [answer EXCEPT ![c] = latest]
        /\ UNCHANGED <<sent, latest, overlapped, protected, unfounded>>
    BY <1>7 DEF TakeNothing, Ends, clientVars
  <2> QED BY <1>0, <2>1, CallMoves
<1> QED BY <1>1, <1>2, <1>3, <1>4, <1>5, <1>6, <1>7, TakeFrameKeeps, InstallFrameKeeps DEF NextStream

LEMMA StreamInvariant == SpecStream => []StreamInv
BY StreamStart, StreamStep, PTL DEF SpecStream

(* However the thread, the captures and a close contend, a capture has no  *)
(* frame that had been followed by another when it was asked for, and a    *)
(* wait on a window is told of no change that there was not                *)
(* (latest_mailbox.rs, session.rs).                                        *)
THEOREM SnapshotIsCurrentHolds == SpecStream => []SnapshotIsCurrent
<1>1. StreamInv => SnapshotIsCurrent
  BY DEF StreamInv, CallOK, SnapshotIsCurrent
<1> QED BY <1>1, StreamInvariant, PTL

(* For any number of clients and frames, only captures that overlap can    *)
(* give a client a frame older than the one it had.                        *)
THEOREM FramesNeverGoBackHolds == SpecStream => FramesNeverGoBack
<1>1. StreamInv /\ [NextStream]_streamVars =>
          [~overlapped' => \A c \in Calls : answer'[c] >= answer[c]]_streamVars
  <2> SUFFICES ASSUME StreamInv, NextStream, ~overlapped', NEW d \in Calls PROVE answer'[d] >= answer[d]
    BY DEF streamVars
  <2>1. answer \in [Calls -> Nat] /\ answer[d] \in Nat
    BY DEF StreamInv
  <2>2. ~overlapped
    BY DEF NextStream, ProduceFrame, StreamFails, BeginClose, FinishClose, AnswerWait, BeginCapture,
           LockSource, TakeFrame, TakeNothing, InstallFrame, StreamInv
  <2>3. InOrder
    BY <2>2 DEF StreamInv
  <2>4. \/ answer' = answer
        \/ \E c \in Calls : answer' = [answer EXCEPT ![c] = latest]
        \/ \E c \in Calls : call[c].at = "encoding" /\ answer' = [answer EXCEPT ![c] = call[c].frame]
    BY DEF NextStream, ProduceFrame, StreamFails, BeginClose, FinishClose, AnswerWait, BeginCapture,
           LockSource, TakeFrame, TakeNothing, InstallFrame, clientVars
  <2>5. latest \in Nat /\ answer[d] <= latest
    BY <2>1, <2>3 DEF InOrder, StreamInv
  <2>6. ASSUME NEW c \in Calls, call[c].at = "encoding" PROVE call[c].frame \in Nat /\ answer[d] <= call[c].frame
    BY <2>1, <2>3, <2>5, <2>6 DEF InOrder, StreamInv, StreamCall
  <2> QED BY <2>1, <2>4, <2>5, <2>6
<1> QED BY <1>1, StreamInvariant, PTL DEF SpecStream, FramesNeverGoBack

-----------------------------------------------------------------------------
(* Pictures and their masks.                                               *)

Stages == {"idle", "asking", "queueing", "shooting", "cutting", "listing", "painting",
           "saving", "cropping", "comparing", "done", "failed"}
Real == [denied: {0} \cup Spots, black: SUBSET Spots, mapped: BOOLEAN, by: Shots]
SpotPicture == {NoPlace} \cup Real
Request == [at: Stages, kind: ShotKinds, path: Outputs, spare: BOOLEAN, seen: SUBSET Spots,
            held: SpotPicture]

ShotTypes ==
    /\ deniedAt \in {0} \cup Spots
    /\ files \in [Files -> SpotPicture]
    /\ shot \in [Shots -> Request]

StagesOK(r) ==
    /\ shot[r].at = "cropping" => shot[r].kind = "crop"
    /\ shot[r].at = "comparing" => shot[r].kind = "wait"
    /\ shot[r].at = "cutting" => shot[r].spare = (shot[r].kind = "tile")
    /\ shot[r].at = "saving" => shot[r].held \in Real

\* The file shows no denied window, or one that moved before the list.
Masks(n) ==
    \/ files[n] = NoPlace \/ n \in slipped
    \/ ~files[n].mapped
    \/ files[n].denied \in {0} \cup files[n].black

\* The copy is of the file's picture, and masked.
Ready(copy, image) ==
    /\ copy.denied = image.denied /\ copy.by = image.by /\ copy.mapped = image.mapped
    /\ copy.denied \in copy.black

\* The request whose picture the file holds will yet mask it, or give it up.
ToMask(r, n) ==
    /\ files[n].by = r
    /\ \/ shot[r].at \in {"queueing", "shooting", "cutting", "listing"}
       \/ shot[r].at = "painting" /\ files[n].denied \in shot[r].seen
       \/ shot[r].at = "saving" /\ Ready(shot[r].held, files[n])

OutputAt(out, o) ==
    \/ Masks(o) \/ o \in abandoned
    \/ \E r \in Shots : shot[r].path = out /\ shot[r].kind # "crop" /\ ToMask(r, o)

\* A request will yet remove the full picture.
NeedsFull(r) ==
    \/ shot[r].at = "cutting" /\ shot[r].kind \notin {"full", "crop"}
    \/ shot[r].at \in {"listing", "painting", "saving"} /\ shot[r].spare

FullAt(out, f) ==
    \/ files[f] = NoPlace \/ f \in abandoned
    \/ \E r \in Shots : shot[r].path = out /\ NeedsFull(r)

ComposedAt(r, c) ==
    /\ shot[r].kind # "crop" \/ shot[r].at \in Ended \cup {"asking"} => files[c] = NoPlace
    /\ Masks(c) \/ ToMask(r, c)

ShotInv ==
    /\ ShotTypes
    /\ \A r \in Shots : StagesOK(r) /\ ComposedAt(r, <<"composed", r>>)
    /\ \A out \in Outputs : OutputAt(out, <<"output", out>>) /\ FullAt(out, <<"full", out>>)

LEMMA ShotsStart == InitShots => ShotInv
<1> SUFFICES ASSUME InitShots PROVE ShotInv
  OBVIOUS
<1>1. \A n \in Files : files[n] = NoPlace
  BY DEF InitShots
<1>2. \A r \in Shots : <<"composed", r>> \in Files
  BY DEF Files
<1>3. \A out \in Outputs : <<"output", out>> \in Files /\ <<"full", out>> \in Files
  BY DEF Files
<1>4. ShotTypes
  <2>1. (CHOOSE p \in Outputs : TRUE) \in Outputs
    BY ShotsAssumption
  <2>2. Shot("full", CHOOSE p \in Outputs : TRUE, "idle") \in Request
    BY <2>1 DEF Shot, Request, Stages, ShotKinds, SpotPicture
  <2> QED BY <1>1, <2>2 DEF InitShots, ShotTypes, SpotPicture
<1>5. \A r \in Shots : shot[r].at = "idle"
  BY DEF InitShots, Shot
<1> QED BY <1>1, <1>2, <1>3, <1>4, <1>5 DEF ShotInv, StagesOK, ComposedAt, OutputAt, FullAt, Masks, Ended

\* The files of a request, all different.
Names(r, o, f, c) ==
    /\ o = Output(r) /\ f = FullBeside(r) /\ c = Composed(r)
    /\ {o, f, c} \subseteq Files /\ o # f /\ o # c /\ f # c

\* What a step of r leaves alone.
Local(r, o, f, c) ==
    /\ \A x \in Shots \ {r} : shot'[x] = shot[x]
    /\ \A n \in Files \ {o, f, c} :
          files'[n] = files[n] /\ (n \in slipped => n \in slipped') /\ (n \in abandoned => n \in abandoned')

\* What becomes of the output, and of the full picture beside it: they are as
\* they should be, or r has nothing to do with it.
OutputGoes(r, o) ==
    \/ Masks(o)' \/ o \in abandoned' \/ (shot[r].kind # "crop" /\ ToMask(r, o))'
    \/ /\ ~Masks(o) /\ o \notin abandoned /\ ~(shot[r].kind # "crop" /\ ToMask(r, o))
       /\ files'[o].denied = files[o].denied /\ files'[o].by = files[o].by
       /\ files'[o].mapped = files[o].mapped

FullGoes(r, f) ==
    \/ files'[f] = NoPlace \/ f \in abandoned' \/ NeedsFull(r)'
    \/ files[f] # NoPlace /\ f \notin abandoned /\ ~NeedsFull(r)

\* A request goes on to a stage.
GoesTo(r, place) ==
    /\ shot' \in [Shots -> Request]
    /\ \A x \in Shots \ {r} : shot'[x] = shot[x]
    /\ shot'[r].at = place /\ shot'[r].kind = shot[r].kind /\ shot'[r].path = shot[r].path
    /\ shot'[r].spare = shot[r].spare /\ shot'[r].seen = shot[r].seen /\ shot'[r].held = shot[r].held

LEMMA NamesGiven ==
    ASSUME ShotTypes, NEW r \in Shots
    PROVE  \E o, f, c : Names(r, o, f, c)
<1>1. shot[r].path \in Outputs
  BY DEF ShotTypes, Request
<1>2. Names(r, Output(r), FullBeside(r), Composed(r))
  BY <1>1 DEF Names, Output, FullBeside, Composed, Files
<1> QED BY <1>2

LEMMA Goes ==
    ASSUME ShotTypes, NEW r \in Shots, NEW place \in Stages, Go(r, place)
    PROVE  GoesTo(r, place)
BY DEF ShotTypes, Go, GoesTo, Request

LEMMA Pictured ==
    ASSUME ShotTypes, NEW r \in Shots
    PROVE  Taken(r) \in Real /\ Taken(r).by = r /\ SpotPicture = {NoPlace} \cup Real
BY DEF ShotTypes, Taken, SpotPicture, Real, Request

\* What a request cuts from a picture is a picture of its own.
LEMMA CutFrom ==
    ASSUME NEW r \in Shots, NEW whole \in Real, NEW image \in Cut(r, whole)
    PROVE  /\ image \in Real /\ image.by = r /\ image.mapped = whole.mapped
           /\ image.black = whole.black /\ image.denied \in {0, whole.denied}
<1>1. PICK denied \in {0, whole.denied} : image = [whole EXCEPT !.denied = denied, !.by = r]
  <2>1. PICK shown : /\ shown = {whole.denied} \cup (IF shot[r].kind \in {"tile", "crop"} THEN {0} ELSE {})
                     /\ image \in {[whole EXCEPT !.denied = denied, !.by = r] : denied \in shown}
    BY Zenon DEF Cut
  <2>2. PICK denied \in shown : image = [whole EXCEPT !.denied = denied, !.by = r]
    BY <2>1, Zenon
  <2>3. denied \in {0, whole.denied}
    BY <2>1, <2>2
  <2> QED BY <2>2, <2>3
<1>2. whole.denied \in {0} \cup Spots
  BY DEF Real
<1>3. denied \in {0} \cup Spots
  BY <1>2
<1> QED BY <1>1, <1>3 DEF Real

LEMMA ShotStep ==
    ASSUME ShotInv, NEW r \in Shots, NEW o, NEW f, NEW c, Names(r, o, f, c), Local(r, o, f, c), ShotTypes',
           shot'[r].path = shot[r].path, StagesOK(r)', ComposedAt(r, c)', OutputGoes(r, o), FullGoes(r, f)
    PROVE  ShotInv'
<1>1. ASSUME NEW x \in Shots PROVE StagesOK(x)' /\ ComposedAt(x, <<"composed", x>>)'
  <2>1. CASE x = r
    BY <2>1 DEF Names, Composed
  <2>2. CASE x # r
    <3> PICK n : n = <<"composed", x>>
      OBVIOUS
    <3>1. n \in Files \ {o, f, c}
      BY <2>2 DEF Files, Names, Output, FullBeside, Composed
    <3>2. shot'[x] = shot[x] /\ files'[n] = files[n] /\ (n \in slipped => n \in slipped')
      BY <2>2, <3>1 DEF Local
    <3>3. StagesOK(x) /\ ComposedAt(x, n)
      BY DEF ShotInv
    <3>4. ComposedAt(x, n)'
      BY <3>2, <3>3 DEF ComposedAt, Masks, ToMask, Ready
    <3> QED BY <3>2, <3>3, <3>4 DEF StagesOK
  <2> QED BY <2>1, <2>2
<1>2. ASSUME NEW out \in Outputs PROVE OutputAt(out, <<"output", out>>)'
  <2> PICK n : n = <<"output", out>>
    OBVIOUS
  <2>1. OutputAt(out, n)
    BY DEF ShotInv
  <2>2. CASE out = shot[r].path
    <3>1. n = o
      BY <2>2 DEF Names, Output
    <3>2. CASE Masks(o)' \/ o \in abandoned' \/ (shot[r].kind # "crop" /\ ToMask(r, o))'
      BY <2>2, <3>1, <3>2 DEF OutputAt
    <3>3. CASE /\ ~Masks(o) /\ o \notin abandoned /\ ~(shot[r].kind # "crop" /\ ToMask(r, o))
               /\ files'[o].denied = files[o].denied /\ files'[o].by = files[o].by
               /\ files'[o].mapped = files[o].mapped
      <4>1. PICK x \in Shots \ {r} : shot[x].path = out /\ shot[x].kind # "crop" /\ ToMask(x, o)
        BY <2>1, <3>1, <3>3 DEF OutputAt
      <4>2. shot'[x] = shot[x]
        BY <4>1 DEF Local
      <4>3. shot'[x].path = out /\ shot'[x].kind # "crop" /\ ToMask(x, o)'
        BY <3>3, <4>1, <4>2 DEF ToMask, Ready
      <4> QED BY <3>1, <4>1, <4>3 DEF OutputAt
    <3> QED BY <3>2, <3>3 DEF OutputGoes
  <2>3. CASE out # shot[r].path
    <3>1. n \in Files \ {o, f, c}
      BY <2>3 DEF Files, Names, Output, FullBeside, Composed
    <3>2. files'[n] = files[n] /\ (n \in slipped => n \in slipped') /\ (n \in abandoned => n \in abandoned')
      BY <3>1 DEF Local
    <3>3. ASSUME NEW x \in Shots, shot[x].path = out, shot[x].kind # "crop", ToMask(x, n)
          PROVE  shot'[x].path = out /\ shot'[x].kind # "crop" /\ ToMask(x, n)'
      <4>1. shot'[x] = shot[x]
        BY <2>3, <3>3 DEF Local
      <4> QED BY <3>2, <3>3, <4>1 DEF ToMask, Ready
    <3>4. Masks(n) => Masks(n)'
      BY <3>2 DEF Masks
    <3> QED BY <2>1, <3>2, <3>3, <3>4 DEF OutputAt
  <2> QED BY <2>2, <2>3
<1>3. ASSUME NEW out \in Outputs PROVE FullAt(out, <<"full", out>>)'
  <2> PICK n : n = <<"full", out>>
    OBVIOUS
  <2>1. FullAt(out, n)
    BY DEF ShotInv
  <2>2. CASE out = shot[r].path
    <3>1. n = f
      BY <2>2 DEF Names, FullBeside
    <3>2. CASE files'[f] = NoPlace \/ f \in abandoned' \/ NeedsFull(r)'
      BY <2>2, <3>1, <3>2 DEF FullAt
    <3>3. CASE files[f] # NoPlace /\ f \notin abandoned /\ ~NeedsFull(r)
      <4>1. PICK x \in Shots \ {r} : shot[x].path = out /\ NeedsFull(x)
        BY <2>1, <3>1, <3>3 DEF FullAt
      <4>2. shot'[x] = shot[x]
        BY <4>1 DEF Local
      <4>3. shot'[x].path = out /\ NeedsFull(x)'
        BY <4>1, <4>2 DEF NeedsFull
      <4> QED BY <3>1, <4>1, <4>3 DEF FullAt
    <3> QED BY <3>2, <3>3 DEF FullGoes
  <2>3. CASE out # shot[r].path
    <3>1. n \in Files \ {o, f, c}
      BY <2>3 DEF Files, Names, Output, FullBeside, Composed
    <3>2. files'[n] = files[n] /\ (n \in abandoned => n \in abandoned')
      BY <3>1 DEF Local
    <3>3. ASSUME NEW x \in Shots, shot[x].path = out, NeedsFull(x) PROVE shot'[x].path = out /\ NeedsFull(x)'
      <4>1. shot'[x] = shot[x]
        BY <2>3, <3>3 DEF Local
      <4> QED BY <3>3, <4>1 DEF NeedsFull
    <3> QED BY <2>1, <3>2, <3>3 DEF FullAt
  <2> QED BY <2>2, <2>3
<1> QED BY <1>1, <1>2, <1>3 DEF ShotInv

\* A request goes on without touching a file.
LEMMA MovesOnKeeps == ASSUME ShotInv, NEW r \in Shots, NEW place \in Stages, Go(r, place), UNCHANGED <<deniedAt, files, slipped, abandoned>>,
           \/ shot[r].at \in {"asking", "comparing"} /\ place \in {"asking", "queueing", "done", "failed"}
           \/ shot[r].at = "queueing" /\ place = "shooting"
    PROVE ShotInv'
<1>1. ShotTypes /\ shot[r] \in Request /\ StagesOK(r)
  BY DEF ShotInv, ShotTypes
<1>2. PICK o, f, c : Names(r, o, f, c)
  BY <1>1, NamesGiven
<1>3. o \in Files /\ f \in Files /\ c \in Files /\ o # f /\ o # c /\ f # c /\ ComposedAt(r, c)
  BY <1>2 DEF Names, Composed, ShotInv
<1>4. GoesTo(r, place)
  BY <1>1, Goes
<1>5. ShotTypes'
  BY <1>1, <1>4 DEF ShotTypes, GoesTo
<1>6. Local(r, o, f, c)
  BY <1>1, <1>3, <1>4, <1>5 DEF Local, GoesTo, ShotTypes
<1>7. StagesOK(r)'
  BY <1>1, <1>3, <1>4, <1>5 DEF StagesOK, GoesTo
<1>8. ComposedAt(r, c)'
  BY <1>1, <1>3, <1>4, <1>5 DEF ComposedAt, Masks, ToMask, Ready, Ended, GoesTo, ShotTypes, StagesOK
<1>9. OutputGoes(r, o)
  BY <1>1, <1>3, <1>4, <1>5 DEF OutputGoes, Masks, ToMask, Ready, GoesTo, ShotTypes
<1>10. FullGoes(r, f)
  BY <1>1, <1>3, <1>4, <1>5 DEF FullGoes, NeedsFull, GoesTo, ShotTypes, StagesOK
<1>11. shot'[r].path = shot[r].path
  BY <1>4, <1>5 DEF GoesTo
<1> QED BY <1>2, <1>6, <1>7, <1>8, <1>9, <1>10, <1>11, ShotStep, <1>4, <1>5

\* The portal's picture is written.
LEMMA WroteKeeps == ASSUME ShotInv, NEW r \in Shots, NEW place \in {"listing", "queueing"}, shot[r].at = "asking",
           NEW image \in Real, image.by = r,
           Write(Masking(r), image), Go(r, place), deniedAt' = deniedAt
    PROVE ShotInv'
<1>1. ShotTypes /\ shot[r] \in Request /\ StagesOK(r)
  BY DEF ShotInv, ShotTypes
<1>2. PICK o, f, c : Names(r, o, f, c)
  BY <1>1, NamesGiven
<1>3. o \in Files /\ f \in Files /\ c \in Files /\ o # f /\ o # c /\ f # c /\ ComposedAt(r, c)
  BY <1>2 DEF Names, Composed, ShotInv
<1>4. Output(r) = o /\ FullBeside(r) = f /\ Composed(r) = c /\ Masking(r) = IF shot[r].kind = "crop" THEN c ELSE o
  BY <1>2 DEF Names, Masking
<1>5. GoesTo(r, place)
  BY <1>1, Goes DEF Stages
<1>6. PICK m \in {o, c} : /\ m = IF shot[r].kind = "crop" THEN c ELSE o
                         /\ files' = [files EXCEPT ![m] = image]
                         /\ slipped' = slipped \ {m} /\ abandoned' = abandoned \ {m}
  BY <1>4 DEF Write
<1>7. ShotTypes'
  BY <1>1, <1>3, <1>5, <1>6, Pictured DEF ShotTypes, GoesTo
<1>8. Local(r, o, f, c)
  BY <1>1, <1>3, <1>5, <1>6, <1>7 DEF Local, GoesTo, ShotTypes
<1>9. StagesOK(r)'
  BY <1>1, <1>3, <1>5, <1>6, <1>7 DEF StagesOK, GoesTo
<1>10. ComposedAt(r, c)'
  BY <1>1, <1>3, <1>5, <1>6, <1>7 DEF ComposedAt, Masks, ToMask, Ready, Ended, GoesTo, ShotTypes, StagesOK
<1>11. OutputGoes(r, o)
  BY <1>1, <1>3, <1>5, <1>6, <1>7 DEF OutputGoes, Masks, ToMask, Ready, GoesTo, ShotTypes
<1>12. FullGoes(r, f)
  BY <1>1, <1>3, <1>5, <1>6, <1>7 DEF FullGoes, NeedsFull, GoesTo, ShotTypes, StagesOK
<1>13. shot'[r].path = shot[r].path
  BY <1>5, <1>6, <1>7 DEF GoesTo
<1> QED BY <1>2, <1>8, <1>9, <1>10, <1>11, <1>12, <1>13, ShotStep, <1>5, <1>6, <1>7

\* A request fails where it may have written its output.
LEMMA FailShotKeeps == ASSUME ShotInv, NEW r \in Shots, FailShot(r), deniedAt' = deniedAt PROVE ShotInv'
<1>1. ShotTypes /\ shot[r] \in Request /\ StagesOK(r)
  BY DEF ShotInv, ShotTypes
<1>2. PICK o, f, c : Names(r, o, f, c)
  BY <1>1, NamesGiven
<1>3. o \in Files /\ f \in Files /\ c \in Files /\ o # f /\ o # c /\ f # c /\ ComposedAt(r, c)
  BY <1>2 DEF Names, Composed, ShotInv
<1>4. Output(r) = o /\ FullBeside(r) = f /\ Composed(r) = c
  BY <1>2 DEF Names
<1>5. GoesTo(r, "failed")
  BY <1>1, Goes DEF FailShot, Stages
<1>6. PICK left \in {files[o], Taken(r)} :
         /\ files' = [files EXCEPT ![o] = left, ![c] = NoPlace]
         /\ abandoned' = abandoned \cup {o, f} /\ slipped' = slipped
  BY <1>4 DEF FailShot
<1>7. ShotTypes'
  <2>1. left \in SpotPicture /\ NoPlace \in SpotPicture
    BY <1>1, <1>3, <1>6, Pictured DEF ShotTypes, SpotPicture
  <2> QED BY <1>1, <1>3, <1>5, <1>6, <2>1 DEF ShotTypes, GoesTo
<1>8. Local(r, o, f, c)
  BY <1>1, <1>3, <1>5, <1>6, <1>7 DEF Local, GoesTo, ShotTypes
<1>9. StagesOK(r)'
  BY <1>1, <1>3, <1>5, <1>6, <1>7 DEF StagesOK, GoesTo
<1>10. ComposedAt(r, c)'
  BY <1>1, <1>3, <1>5, <1>6, <1>7 DEF ComposedAt, Masks, ToMask, Ready, Ended, GoesTo, ShotTypes, StagesOK
<1>11. OutputGoes(r, o)
  BY <1>1, <1>3, <1>5, <1>6, <1>7 DEF OutputGoes, Masks, ToMask, Ready, GoesTo, ShotTypes
<1>12. FullGoes(r, f)
  BY <1>1, <1>3, <1>5, <1>6, <1>7 DEF FullGoes, NeedsFull, GoesTo, ShotTypes, StagesOK
<1>13. shot'[r].path = shot[r].path
  BY <1>5, <1>6, <1>7 DEF GoesTo
<1> QED BY <1>2, <1>8, <1>9, <1>10, <1>11, <1>12, <1>13, ShotStep, <1>5, <1>6, <1>7

\* What Spectacle leaves: the picture of the whole desktop.
LEMMA ShootKeeps == ASSUME ShotInv, NEW r \in Shots, Shoot(r) PROVE ShotInv'
<1>1. ShotTypes /\ shot[r] \in Request /\ StagesOK(r)
  BY DEF ShotInv, ShotTypes
<1>2. PICK o, f, c : Names(r, o, f, c)
  BY <1>1, NamesGiven
<1>3. o \in Files /\ f \in Files /\ c \in Files /\ o # f /\ o # c /\ f # c /\ ComposedAt(r, c)
  BY <1>2 DEF Names, Composed, ShotInv
<1>4. Output(r) = o /\ FullBeside(r) = f /\ Composed(r) = c /\ Masking(r) = IF shot[r].kind = "crop" THEN c ELSE o
  BY <1>2 DEF Names, Masking
<1>5. /\ \A x \in Shots \ {r} : shot'[x] = shot[x]
      /\ shot' \in [Shots -> Request] /\ shot'[r].at = "cutting" /\ shot'[r].spare = (shot[r].kind = "tile")
      /\ shot'[r].kind = shot[r].kind /\ shot'[r].path = shot[r].path /\ shot[r].at = "shooting"
  BY <1>1 DEF Shoot, ShotTypes, Request, Stages
<1>6. PICK m \in {o, f, c}, image \in Real :
         /\ m = IF shot[r].kind = "crop" THEN c ELSE IF shot[r].kind = "full" THEN o ELSE f
         /\ image.by = r
         /\ files' = [files EXCEPT ![m] = image]
         /\ slipped' = slipped \ {m} /\ abandoned' = abandoned \ {m}
  BY <1>1, <1>4, Pictured DEF Shoot, ShootsAt, Write
<1>7. ShotTypes'
  BY <1>1, <1>3, <1>5, <1>6 DEF ShotTypes, Shoot, desktopVars, SpotPicture
<1>8. Local(r, o, f, c)
  BY <1>1, <1>3, <1>5, <1>6, <1>7 DEF Local, ShotTypes
<1>9. StagesOK(r)'
  BY <1>1, <1>3, <1>5, <1>6, <1>7 DEF StagesOK, Local
<1>10. ComposedAt(r, c)'
  BY <1>1, <1>3, <1>5, <1>6, <1>7 DEF ComposedAt, Masks, ToMask, Ready, Ended, Local, ShotTypes, StagesOK
<1>11. OutputGoes(r, o)
  BY <1>1, <1>3, <1>5, <1>6, <1>7 DEF OutputGoes, Masks, ToMask, Ready, Local, ShotTypes
<1>12. FullGoes(r, f)
  BY <1>1, <1>3, <1>5, <1>6, <1>7 DEF FullGoes, NeedsFull, Local, ShotTypes, StagesOK
<1>13. shot'[r].path = shot[r].path
  BY <1>5, <1>6, <1>7 DEF Local
<1> QED BY <1>2, <1>8, <1>9, <1>10, <1>11, <1>12, <1>13, ShotStep, <1>5, <1>6, <1>7

LEMMA WritePictureKeeps == ASSUME ShotInv, NEW r \in Shots, WritePicture(r) PROVE ShotInv'
<1>1. ShotTypes /\ shot[r] \in Request /\ StagesOK(r)
  BY DEF ShotInv, ShotTypes
<1>2. PICK o, f, c : Names(r, o, f, c)
  BY <1>1, NamesGiven
<1>3. o \in Files /\ f \in Files /\ c \in Files /\ o # f /\ o # c /\ f # c /\ ComposedAt(r, c)
  BY <1>2 DEF Names, Composed, ShotInv
<1>4. Output(r) = o /\ FullBeside(r) = f /\ Composed(r) = c /\ Masking(r) = IF shot[r].kind = "crop" THEN c ELSE o
  BY <1>2 DEF Names, Masking
<1>5. GoesTo(r, "listing") /\ deniedAt' = deniedAt /\ shot[r].at = "cutting"
  BY <1>1, Goes DEF WritePicture, Stages, desktopVars
<1>6. ShootsAt(r) = IF shot[r].kind = "crop" THEN c ELSE IF shot[r].kind = "full" THEN o ELSE f
  BY <1>4 DEF ShootsAt
<1>7. PICK image \in Real :
         /\ image.by = r
         /\ \/ shot[r].kind \in {"full", "crop"} /\ UNCHANGED <<files, slipped, abandoned>>
            \/ /\ shot[r].kind \notin {"full", "crop"}
               /\ files' = [files EXCEPT ![o] = image, ![f] = IF shot[r].spare THEN @ ELSE NoPlace]
               /\ slipped' = slipped \ {o} /\ abandoned' = abandoned \ {o}
  <2>1. CASE shot[r].kind \in {"full", "crop"}
    <3>1. UNCHANGED <<files, slipped, abandoned>>
      BY <1>3, <1>4, <1>6, <2>1 DEF WritePicture
    <3> QED BY <1>1, <2>1, <3>1, Pictured
  <2>2. CASE shot[r].kind \notin {"full", "crop"}
    <3>1. ShootsAt(r) = f /\ Masking(r) = o /\ files[f] # NoPlace
      BY <1>4, <1>6, <2>2 DEF WritePicture
    <3>2. files[f] \in Real
      BY <1>1, <1>3, <3>1 DEF ShotTypes, SpotPicture
    <3>3. PICK image \in Cut(r, files[f]) :
             /\ files' = [files EXCEPT ![o] = image, ![f] = IF shot[r].spare THEN @ ELSE NoPlace]
             /\ slipped' = slipped \ {o} /\ abandoned' = abandoned \ {o}
      BY <1>3, <1>4, <3>1 DEF WritePicture
    <3>4. image \in Real /\ image.by = r
      BY <3>2, CutFrom
    <3> QED BY <2>2, <3>3, <3>4
  <2> QED BY <2>1, <2>2
<1>8. ShotTypes'
  BY <1>1, <1>3, <1>5, <1>7 DEF ShotTypes, GoesTo, SpotPicture
<1>9. Local(r, o, f, c)
  BY <1>1, <1>3, <1>5, <1>7, <1>8 DEF Local, GoesTo, ShotTypes
<1>10. StagesOK(r)'
  BY <1>1, <1>3, <1>5, <1>7, <1>8 DEF StagesOK, GoesTo
<1>11. ComposedAt(r, c)'
  BY <1>1, <1>3, <1>5, <1>7, <1>8 DEF ComposedAt, Masks, ToMask, Ready, Ended, GoesTo, ShotTypes, StagesOK
<1>12. OutputGoes(r, o)
  BY <1>1, <1>3, <1>5, <1>7, <1>8 DEF OutputGoes, Masks, ToMask, Ready, GoesTo, ShotTypes
<1>13. FullGoes(r, f)
  BY <1>1, <1>3, <1>5, <1>7, <1>8 DEF FullGoes, NeedsFull, GoesTo, ShotTypes, StagesOK
<1>14. shot'[r].path = shot[r].path
  BY <1>5, <1>7, <1>8 DEF GoesTo
<1> QED BY <1>2, <1>9, <1>10, <1>11, <1>12, <1>13, <1>14, ShotStep, <1>5, <1>7, <1>8

LEMMA ListWindowsKeeps == ASSUME ShotInv, NEW r \in Shots, ListWindows(r) PROVE ShotInv'
<1>1. ShotTypes /\ shot[r] \in Request /\ StagesOK(r)
  BY DEF ShotInv, ShotTypes
<1>2. PICK o, f, c : Names(r, o, f, c)
  BY <1>1, NamesGiven
<1>3. o \in Files /\ f \in Files /\ c \in Files /\ o # f /\ o # c /\ f # c /\ ComposedAt(r, c)
  BY <1>2 DEF Names, Composed, ShotInv
<1>4. Output(r) = o /\ FullBeside(r) = f /\ Composed(r) = c /\ Masking(r) = IF shot[r].kind = "crop" THEN c ELSE o
  BY <1>2 DEF Names, Masking
<1>5. /\ \A x \in Shots \ {r} : shot'[x] = shot[x]
      /\ shot' \in [Shots -> Request] /\ shot'[r].at = "painting" /\ shot'[r].seen = {deniedAt} \ {0}
      /\ shot'[r].spare = shot[r].spare
      /\ shot'[r].kind = shot[r].kind /\ shot'[r].path = shot[r].path /\ shot[r].at = "listing"
  BY <1>1 DEF ListWindows, ShotTypes, Request, Stages
<1>6. PICK m \in {o, c} : m = IF shot[r].kind = "crop" THEN c ELSE o
  OBVIOUS
<1>7. /\ slipped' = IF files[m] # NoPlace /\ files[m].denied \notin {0, deniedAt}
                  THEN slipped \cup {m} ELSE slipped
      /\ UNCHANGED <<deniedAt, files, abandoned>>
  <2>1. Masking(r) = m
    BY <1>4, <1>6
  <2> QED BY <2>1 DEF ListWindows, desktopVars
<1>8. ShotTypes'
  BY <1>1, <1>5, <1>7 DEF ShotTypes
<1>9. Local(r, o, f, c)
  BY <1>1, <1>3, <1>5, <1>6, <1>8, <1>7 DEF Local, ShotTypes
<1>10. StagesOK(r)'
  BY <1>1, <1>3, <1>5, <1>6, <1>8, <1>7 DEF StagesOK, Local
<1>11. ComposedAt(r, c)'
  BY <1>1, <1>3, <1>5, <1>6, <1>8, <1>7 DEF ComposedAt, Masks, ToMask, Ready, Ended, Local, ShotTypes, StagesOK
<1>12. OutputGoes(r, o)
  BY <1>1, <1>3, <1>5, <1>6, <1>8, <1>7 DEF OutputGoes, Masks, ToMask, Ready, Local, ShotTypes
<1>13. FullGoes(r, f)
  BY <1>1, <1>3, <1>5, <1>6, <1>8, <1>7 DEF FullGoes, NeedsFull, Local, ShotTypes, StagesOK
<1>14. shot'[r].path = shot[r].path
  BY <1>5, <1>6, <1>8, <1>7 DEF Local
<1> QED BY <1>2, <1>9, <1>10, <1>11, <1>12, <1>13, <1>14, ShotStep, <1>5, <1>6, <1>8, <1>7

LEMMA MaskFailsKeeps == ASSUME ShotInv, NEW r \in Shots, MaskFails(r) PROVE ShotInv'
<1>1. ShotTypes /\ shot[r] \in Request /\ StagesOK(r)
  BY DEF ShotInv, ShotTypes
<1>2. PICK o, f, c : Names(r, o, f, c)
  BY <1>1, NamesGiven
<1>3. o \in Files /\ f \in Files /\ c \in Files /\ o # f /\ o # c /\ f # c /\ ComposedAt(r, c)
  BY <1>2 DEF Names, Composed, ShotInv
<1>4. Output(r) = o /\ FullBeside(r) = f /\ Composed(r) = c /\ Masking(r) = IF shot[r].kind = "crop" THEN c ELSE o
  BY <1>2 DEF Names, Masking
<1>5. /\ GoesTo(r, "failed") /\ deniedAt' = deniedAt /\ shot[r].at \in {"listing", "painting", "saving"}
      /\ UNCHANGED <<slipped, abandoned>>
  BY <1>1, Goes DEF MaskFails, Discard, Stages, desktopVars
<1>6. PICK m \in {o, c} : /\ m = IF shot[r].kind = "crop" THEN c ELSE o
                         /\ files' = [n \in Files |-> IF n \in Spare(r) \cup {m} THEN NoPlace ELSE files[n]]
  BY <1>4 DEF MaskFails, Discard, Without
<1>7. Spare(r) = IF shot[r].spare THEN {f} ELSE {}
  BY <1>4 DEF Spare
<1>8. ShotTypes'
  <2>1. NoPlace \in SpotPicture
    BY DEF SpotPicture
  <2> QED BY <1>1, <1>5, <1>6, <2>1 DEF ShotTypes, GoesTo
<1>9. /\ files'[m] = NoPlace /\ shot[r].spare => files'[f] = NoPlace
      /\ \A n \in Files \ {f, m} : files'[n] = files[n]
      /\ ~shot[r].spare => \A n \in Files \ {m} : files'[n] = files[n]
  BY <1>3, <1>6, <1>7
<1>10. Local(r, o, f, c)
  BY <1>1, <1>3, <1>5, <1>8, <1>9, <1>6 DEF Local, GoesTo, ShotTypes
<1>11. StagesOK(r)'
  BY <1>1, <1>3, <1>5, <1>8, <1>9, <1>6 DEF StagesOK, GoesTo
<1>12. ComposedAt(r, c)'
  BY <1>1, <1>3, <1>5, <1>8, <1>9, <1>6 DEF ComposedAt, Masks, ToMask, Ready, Ended, GoesTo, ShotTypes, StagesOK
<1>13. OutputGoes(r, o)
  BY <1>1, <1>3, <1>5, <1>8, <1>9, <1>6 DEF OutputGoes, Masks, ToMask, Ready, GoesTo, ShotTypes
<1>14. FullGoes(r, f)
  BY <1>1, <1>3, <1>5, <1>8, <1>9, <1>6 DEF FullGoes, NeedsFull, GoesTo, ShotTypes, StagesOK
<1>15. shot'[r].path = shot[r].path
  BY <1>5, <1>8, <1>9, <1>6 DEF GoesTo
<1> QED BY <1>2, <1>10, <1>11, <1>12, <1>13, <1>14, <1>15, ShotStep, <1>5, <1>8, <1>9, <1>6

\* Where the mask does not fall on the picture, the file stays as it is.
LEMMA UnpaintedKeeps ==
    ASSUME ShotInv, NEW r \in Shots, shot[r].at = "painting", Go(r, AfterMask(r)), Without(Spare(r)),
           deniedAt' = deniedAt, UNCHANGED <<slipped, abandoned>>,
           \/ shot[r].seen = {}
           \/ LET image == files[Masking(r)]
              IN  image # NoPlace /\ ~(image.by = r /\ image.mapped /\ image.denied \in shot[r].seen)
    PROVE  ShotInv'
<1>1. ShotTypes /\ shot[r] \in Request /\ StagesOK(r)
  BY DEF ShotInv, ShotTypes
<1>2. PICK o, f, c : Names(r, o, f, c)
  BY <1>1, NamesGiven
<1>3. o \in Files /\ f \in Files /\ c \in Files /\ o # f /\ o # c /\ f # c /\ ComposedAt(r, c)
  BY <1>2 DEF Names, Composed, ShotInv
<1>4. Output(r) = o /\ FullBeside(r) = f /\ Composed(r) = c /\ Masking(r) = IF shot[r].kind = "crop" THEN c ELSE o
  BY <1>2 DEF Names, Masking
<1>5. PICK place \in {"cropping", "comparing", "done"} :
         /\ GoesTo(r, place)
         /\ place = IF shot[r].kind = "crop" THEN "cropping" ELSE IF shot[r].kind = "wait" THEN "comparing" ELSE "done"
  BY <1>1, Goes DEF AfterMask, Stages
<1>6. PICK m \in {o, c} :
         /\ m = IF shot[r].kind = "crop" THEN c ELSE o
         /\ shot[r].seen = {} \/ ~(files[m].by = r /\ files[m].mapped /\ files[m].denied \in shot[r].seen)
  BY <1>4
<1>7. /\ files' \in [Files -> SpotPicture]
      /\ shot[r].spare => files'[f] = NoPlace
      /\ ~shot[r].spare => files'[f] = files[f]
      /\ \A n \in Files \ {f} : files'[n] = files[n]
  <2>1. Spare(r) = IF shot[r].spare THEN {f} ELSE {}
    BY <1>4 DEF Spare
  <2>2. files' = [n \in Files |-> IF n \in Spare(r) THEN NoPlace ELSE files[n]]
    BY DEF Without
  <2>3. files \in [Files -> SpotPicture] /\ NoPlace \in SpotPicture
    BY <1>1 DEF ShotTypes, SpotPicture
  <2> QED BY <1>3, <2>1, <2>2, <2>3
<1>8. ShotTypes'
  BY <1>1, <1>5, <1>7 DEF ShotTypes, GoesTo
<1>9. Local(r, o, f, c)
  BY <1>1, <1>3, <1>5, <1>6, <1>7, <1>8 DEF Local, GoesTo, ShotTypes
<1>10. StagesOK(r)'
  BY <1>1, <1>3, <1>5, <1>6, <1>7, <1>8 DEF StagesOK, GoesTo
<1>11. ComposedAt(r, c)'
  BY <1>1, <1>3, <1>5, <1>6, <1>7, <1>8 DEF ComposedAt, Masks, ToMask, Ready, Ended, GoesTo, ShotTypes, StagesOK
<1>12. OutputGoes(r, o)
  BY <1>1, <1>3, <1>5, <1>6, <1>7, <1>8 DEF OutputGoes, Masks, ToMask, Ready, GoesTo, ShotTypes
<1>13. FullGoes(r, f)
  BY <1>1, <1>3, <1>5, <1>6, <1>7, <1>8 DEF FullGoes, NeedsFull, GoesTo, ShotTypes, StagesOK
<1>14. shot'[r].path = shot[r].path
  BY <1>1, <1>3, <1>5, <1>6, <1>7, <1>8 DEF GoesTo
<1> QED BY <1>2, <1>9, <1>10, <1>11, <1>12, <1>13, <1>14, ShotStep, <1>5, <1>7, <1>8

\* The request has painted its copy, and the file stays as it is.
LEMMA PaintedKeeps ==
    ASSUME ShotInv, NEW r \in Shots, NEW hits \in SUBSET Spots, shot[r].at = "painting",
           files[Masking(r)] # NoPlace,
           shot' = [shot EXCEPT ![r].at = "saving",
                                ![r].held = [files[Masking(r)] EXCEPT !.black = @ \cup hits]],
           (files[Masking(r)].by = r /\ files[Masking(r)].mapped /\ files[Masking(r)].denied \in shot[r].seen)
               => hits = shot[r].seen,
           UNCHANGED <<deniedAt, files, slipped, abandoned>>
    PROVE  ShotInv'
<1>1. ShotTypes /\ shot[r] \in Request /\ StagesOK(r)
  BY DEF ShotInv, ShotTypes
<1>2. PICK o, f, c : Names(r, o, f, c)
  BY <1>1, NamesGiven
<1>3. o \in Files /\ f \in Files /\ c \in Files /\ o # f /\ o # c /\ f # c /\ ComposedAt(r, c)
  BY <1>2 DEF Names, Composed, ShotInv
<1>4. Output(r) = o /\ FullBeside(r) = f /\ Composed(r) = c /\ Masking(r) = IF shot[r].kind = "crop" THEN c ELSE o
  BY <1>2 DEF Names, Masking
<1>6. PICK m \in {o, c} :
         /\ m = IF shot[r].kind = "crop" THEN c ELSE o
         /\ files[m] # NoPlace
         /\ shot' = [shot EXCEPT ![r].at = "saving", ![r].held = [files[m] EXCEPT !.black = @ \cup hits]]
         /\ (files[m].by = r /\ files[m].mapped /\ files[m].denied \in shot[r].seen) => hits = shot[r].seen
  BY <1>4
<1>7. PICK copy \in Real :
         /\ copy = [files[m] EXCEPT !.black = @ \cup hits]
         /\ copy.denied = files[m].denied /\ copy.by = files[m].by /\ copy.mapped = files[m].mapped
         /\ hits \subseteq copy.black
  <2>1. files[m] \in Real
    BY <1>1, <1>3, <1>6 DEF ShotTypes, SpotPicture
  <2>2. files[m].black \cup hits \in SUBSET Spots /\ hits \subseteq files[m].black \cup hits
    BY <2>1 DEF Real
  <2>3. /\ [files[m] EXCEPT !.black = files[m].black \cup hits] \in Real
        /\ [files[m] EXCEPT !.black = files[m].black \cup hits].black = files[m].black \cup hits
    BY <2>1, <2>2 DEF Real
  <2> QED BY <2>1, <2>2, <2>3 DEF Real
<1>5. /\ \A x \in Shots \ {r} : shot'[x] = shot[x]
      /\ shot' \in [Shots -> Request] /\ shot'[r].at = "saving" /\ shot'[r].held = copy
      /\ shot'[r].spare = shot[r].spare
      /\ shot'[r].kind = shot[r].kind /\ shot'[r].path = shot[r].path
  <2>1. "saving" \in Stages /\ copy \in SpotPicture
    BY DEF Stages, SpotPicture
  <2>3. [shot[r] EXCEPT !.at = "saving", !.held = copy] \in Request
    BY <1>1, <2>1 DEF Request
  <2>4. shot \in [Shots -> Request] /\ shot' = [shot EXCEPT ![r] = [@ EXCEPT !.at = "saving", !.held = copy]]
    BY <1>1, <1>6, <1>7 DEF ShotTypes
  <2>5. /\ \A x \in Shots \ {r} : shot'[x] = shot[x]
        /\ shot' \in [Shots -> Request] /\ shot'[r] = [shot[r] EXCEPT !.at = "saving", !.held = copy]
    BY <1>1, <2>3, <2>4
  <2> QED BY <1>1, <2>5 DEF Request
<1>8. ShotTypes'
  BY <1>1, <1>5 DEF ShotTypes
<1>9. Local(r, o, f, c)
  BY <1>1, <1>3, <1>5, <1>6, <1>7, <1>8 DEF Local, ShotTypes
<1>10. StagesOK(r)'
  BY <1>1, <1>3, <1>5, <1>6, <1>7, <1>8 DEF StagesOK
<1>11. ComposedAt(r, c)'
  BY <1>1, <1>3, <1>5, <1>6, <1>7, <1>8 DEF ComposedAt, Masks, ToMask, Ready, Ended, ShotTypes, StagesOK
<1>12. OutputGoes(r, o)
  BY <1>1, <1>3, <1>5, <1>6, <1>7, <1>8 DEF OutputGoes, Masks, ToMask, Ready, ShotTypes
<1>13. FullGoes(r, f)
  BY <1>1, <1>3, <1>5, <1>6, <1>7, <1>8 DEF FullGoes, NeedsFull, ShotTypes, StagesOK
<1>14. shot'[r].path = shot[r].path
  BY <1>5
<1> QED BY <1>2, <1>9, <1>10, <1>11, <1>12, <1>13, <1>14, ShotStep, <1>5, <1>7, <1>8

LEMMA PaintMaskKeeps == ASSUME ShotInv, NEW r \in Shots, PaintMask(r) PROVE ShotInv'
<1>1. ShotTypes /\ shot[r].seen \in SUBSET Spots
  BY DEF ShotInv, ShotTypes, Request
<1>2. shot[r].at = "painting" /\ UNCHANGED <<deniedAt, slipped, abandoned>>
  BY DEF PaintMask, desktopVars
<1>3. PICK image, sure :
         /\ image = files[Masking(r)]
         /\ sure = (image.by = r /\ image.mapped /\ image.denied \in shot[r].seen)
         /\ \/ /\ shot[r].seen = {} \/ (image # NoPlace /\ ~sure)
               /\ Go(r, AfterMask(r)) /\ Without(Spare(r))
            \/ /\ shot[r].seen # {} /\ image # NoPlace
               /\ \E hits \in IF sure THEN {shot[r].seen} ELSE {shot[r].seen, {}} :
                      shot' = [shot EXCEPT ![r].at = "saving",
                                           ![r].held = [image EXCEPT !.black = @ \cup hits]]
               /\ UNCHANGED files
  BY DEF PaintMask
<1>4. CASE /\ shot[r].seen = {} \/ (image # NoPlace /\ ~sure)
           /\ Go(r, AfterMask(r)) /\ Without(Spare(r))
  BY <1>2, <1>3, <1>4, UnpaintedKeeps
<1>5. ASSUME NEW hits \in IF sure THEN {shot[r].seen} ELSE {shot[r].seen, {}}, image # NoPlace,
             shot' = [shot EXCEPT ![r].at = "saving", ![r].held = [image EXCEPT !.black = @ \cup hits]],
             UNCHANGED files
      PROVE  ShotInv'
  <2>1. hits \in SUBSET Spots /\ (sure => hits = shot[r].seen)
    BY <1>1, <1>5
  <2> QED BY <1>2, <1>3, <1>5, <2>1, PaintedKeeps
<1> QED BY <1>3, <1>4, <1>5

\* Saved over what was read, the mask is on; over anything else, it is of
\* another picture.
LEMMA SaveMaskKeeps == ASSUME ShotInv, NEW r \in Shots, SaveMask(r) PROVE ShotInv'
<1>1. ShotTypes /\ shot[r] \in Request /\ StagesOK(r)
  BY DEF ShotInv, ShotTypes
<1>2. PICK o, f, c : Names(r, o, f, c)
  BY <1>1, NamesGiven
<1>3. o \in Files /\ f \in Files /\ c \in Files /\ o # f /\ o # c /\ f # c /\ ComposedAt(r, c)
  BY <1>2 DEF Names, Composed, ShotInv
<1>4. Output(r) = o /\ FullBeside(r) = f /\ Composed(r) = c /\ Masking(r) = IF shot[r].kind = "crop" THEN c ELSE o
  BY <1>2 DEF Names, Masking
<1>5. /\ \A x \in Shots \ {r} : shot'[x] = shot[x]
      /\ shot' \in [Shots -> Request] /\ shot[r].at = "saving" /\ shot'[r].spare = shot[r].spare
      /\ shot'[r].at = IF shot[r].kind = "crop" THEN "cropping"
                       ELSE IF shot[r].kind = "wait" THEN "comparing" ELSE "done"
      /\ shot'[r].kind = shot[r].kind /\ shot'[r].path = shot[r].path
  <2>1. AfterMask(r) = (IF shot[r].kind = "crop" THEN "cropping"
                        ELSE IF shot[r].kind = "wait" THEN "comparing" ELSE "done")
    BY DEF AfterMask
  <2>2. AfterMask(r) \in Stages /\ NoPlace \in SpotPicture
    BY <2>1 DEF Stages, SpotPicture
  <2>3. shot' = [shot EXCEPT ![r].at = AfterMask(r), ![r].held = NoPlace]
    BY DEF SaveMask
  <2>4. [shot[r] EXCEPT !.at = AfterMask(r), !.held = NoPlace] \in Request
    BY <1>1, <2>2 DEF Request
  <2>5. shot \in [Shots -> Request] /\ shot' = [shot EXCEPT ![r] = [@ EXCEPT !.at = AfterMask(r), !.held = NoPlace]]
    BY <1>1, <2>3 DEF ShotTypes
  <2>6. /\ \A x \in Shots \ {r} : shot'[x] = shot[x]
        /\ shot' \in [Shots -> Request] /\ shot'[r] = [shot[r] EXCEPT !.at = AfterMask(r), !.held = NoPlace]
    BY <1>1, <2>4, <2>5
  <2> QED BY <1>1, <2>1, <2>6 DEF Request, SaveMask
<1>6. PICK m \in {o, c}, copy \in Real :
         /\ m = IF shot[r].kind = "crop" THEN c ELSE o
         /\ copy = shot[r].held
         /\ files' = [n \in Files |-> IF n \in Spare(r) THEN NoPlace ELSE IF n = m THEN copy ELSE files[n]]
         /\ slipped' = IF KeptBy(copy, files[m]) THEN slipped ELSE slipped \cup {m}
         /\ UNCHANGED <<deniedAt, abandoned>>
  <2>1. shot[r].held \in Real
    BY <1>1, <1>5 DEF StagesOK
  <2> QED BY <1>4, <2>1 DEF SaveMask, desktopVars
<1>7. /\ files' \in [Files -> SpotPicture] /\ files'[m] = copy
      /\ shot[r].spare => files'[f] = NoPlace
      /\ ~shot[r].spare => files'[f] = files[f]
      /\ \A n \in Files \ {f, m} : files'[n] = files[n]
  <2>1. Spare(r) = IF shot[r].spare THEN {f} ELSE {}
    BY <1>4 DEF Spare
  <2>2. files \in [Files -> SpotPicture] /\ NoPlace \in SpotPicture /\ copy \in SpotPicture
    BY <1>1, <1>6 DEF ShotTypes, SpotPicture
  <2> QED BY <1>3, <1>6, <2>1, <2>2
<1>8. ShotTypes'
  BY <1>1, <1>5, <1>6, <1>7 DEF ShotTypes
<1>9. /\ Masks(m) => Masks(m)'
      /\ ToMask(r, m) => Masks(m)'
      /\ Masks(m)' \/ (/\ files'[m].denied = files[m].denied /\ files'[m].by = files[m].by
                       /\ files'[m].mapped = files[m].mapped)
  <2>1. CASE KeptBy(copy, files[m])
    <3>1. files[m] \in Real /\ slipped' = slipped
      BY <1>1, <1>3, <1>6, <2>1 DEF ShotTypes, SpotPicture, KeptBy
    <3>2. /\ copy.denied = files[m].denied /\ copy.by = files[m].by /\ copy.mapped = files[m].mapped
          /\ files[m].black \subseteq copy.black
      BY <2>1, <3>1 DEF KeptBy, Real
    <3>3. files[m] # NoPlace
      BY <2>1 DEF KeptBy
    <3>4. Masks(m) => Masks(m)'
      BY <1>7, <3>1, <3>2, <3>3 DEF Masks
    <3>5. ToMask(r, m) => Masks(m)'
      BY <1>5, <1>6, <1>7 DEF ToMask, Ready, Masks
    <3> QED BY <1>7, <3>2, <3>4, <3>5
  <2>2. CASE ~KeptBy(copy, files[m])
    BY <1>6, <2>2 DEF Masks
  <2> QED BY <2>1, <2>2
<1>10. Local(r, o, f, c)
  BY <1>1, <1>3, <1>5, <1>6, <1>7, <1>8, <1>9 DEF Local, ShotTypes
<1>11. StagesOK(r)'
  BY <1>1, <1>3, <1>5, <1>6, <1>7, <1>8, <1>9 DEF StagesOK
<1>12. ComposedAt(r, c)'
  <2>1. CASE shot[r].kind = "crop"
    <3>1. m = c /\ (Masks(c) \/ ToMask(r, c))
      BY <1>3, <1>6, <2>1 DEF ComposedAt
    <3>2. Masks(c)'
      BY <1>9, <3>1
    <3> QED BY <1>5, <2>1, <3>2 DEF ComposedAt, Ended
  <2>2. CASE shot[r].kind # "crop"
    <3>1. files[c] = NoPlace /\ files'[c] = NoPlace
      BY <1>3, <1>6, <1>7, <2>2 DEF ComposedAt
    <3> QED BY <3>1 DEF ComposedAt, Masks
  <2> QED BY <2>1, <2>2
<1>13. OutputGoes(r, o)
  <2>1. CASE shot[r].kind = "crop"
    <3>1. files'[o] = files[o] /\ (o \in slipped => o \in slipped') /\ abandoned' = abandoned
      BY <1>3, <1>6, <1>7, <2>1
    <3>2. Masks(o) => Masks(o)'
      BY <3>1 DEF Masks
    <3> QED BY <1>5, <2>1, <3>1, <3>2 DEF OutputGoes
  <2>2. CASE shot[r].kind # "crop"
    <3>1. m = o /\ abandoned' = abandoned
      BY <1>6, <2>2
    <3> QED BY <1>9, <3>1 DEF OutputGoes
  <2> QED BY <2>1, <2>2
<1>14. FullGoes(r, f)
  BY <1>1, <1>3, <1>5, <1>6, <1>7, <1>8, <1>9 DEF FullGoes, NeedsFull, ShotTypes, StagesOK
<1>15. shot'[r].path = shot[r].path
  BY <1>5
<1> QED BY <1>2, <1>10, <1>11, <1>12, <1>13, <1>14, <1>15, ShotStep, <1>5, <1>8

LEMMA CutOutKeeps == ASSUME ShotInv, NEW r \in Shots, CutOut(r) PROVE ShotInv'
<1>1. ShotTypes /\ shot[r] \in Request /\ StagesOK(r)
  BY DEF ShotInv, ShotTypes
<1>2. PICK o, f, c : Names(r, o, f, c)
  BY <1>1, NamesGiven
<1>3. o \in Files /\ f \in Files /\ c \in Files /\ o # f /\ o # c /\ f # c /\ ComposedAt(r, c)
  BY <1>2 DEF Names, Composed, ShotInv
<1>4. Output(r) = o /\ FullBeside(r) = f /\ Composed(r) = c
  BY <1>2 DEF Names
<1>5. deniedAt' = deniedAt /\ shot[r].at = "cropping" /\ shot[r].kind = "crop" /\ NoPlace \in SpotPicture
  BY <1>1 DEF CutOut, desktopVars, StagesOK, SpotPicture
<1>6. CASE Without({c}) /\ Go(r, "failed") /\ UNCHANGED <<slipped, abandoned>>
  <2>1. GoesTo(r, "failed")
    BY <1>1, <1>6, Goes DEF Stages
  <2>2. files' = [n \in Files |-> IF n = c THEN NoPlace ELSE files[n]]
    BY <1>6 DEF Without
  <2>3. ShotTypes'
    BY <1>1, <1>5, <2>1, <2>2 DEF ShotTypes, GoesTo
  <2>4. Local(r, o, f, c)
    BY <1>1, <1>3, <1>5, <1>6, <2>1, <2>2, <2>3 DEF Local, GoesTo, ShotTypes
  <2>5. StagesOK(r)'
    BY <1>1, <1>3, <1>5, <1>6, <2>1, <2>2, <2>3 DEF StagesOK, GoesTo
  <2>6. ComposedAt(r, c)'
    BY <1>1, <1>3, <1>5, <1>6, <2>1, <2>2, <2>3 DEF ComposedAt, Masks, ToMask, Ready, Ended, GoesTo, ShotTypes, StagesOK
  <2>7. OutputGoes(r, o)
    BY <1>1, <1>3, <1>5, <1>6, <2>1, <2>2, <2>3 DEF OutputGoes, Masks, ToMask, Ready, GoesTo, ShotTypes
  <2>8. FullGoes(r, f)
    BY <1>1, <1>3, <1>5, <1>6, <2>1, <2>2, <2>3 DEF FullGoes, NeedsFull, GoesTo, ShotTypes, StagesOK
  <2>9. shot'[r].path = shot[r].path
    BY <1>5, <1>6, <2>1, <2>2, <2>3 DEF GoesTo
  <2> QED BY <1>2, <2>4, <2>5, <2>6, <2>7, <2>8, <2>9, ShotStep, <1>5, <1>6, <2>1, <2>2, <2>3
<1>7. CASE /\ Go(r, "done") /\ files[c] # NoPlace
           /\ \E image \in Cut(r, files[c]) : files' = [files EXCEPT ![o] = image, ![c] = NoPlace]
           /\ slipped' = IF c \in slipped THEN slipped \cup {o} ELSE slipped \ {o}
           /\ abandoned' = abandoned \ {o}
  <2>1. GoesTo(r, "done")
    BY <1>1, <1>7, Goes DEF Stages
  <2>2. PICK image \in Cut(r, files[c]) : files' = [files EXCEPT ![o] = image, ![c] = NoPlace]
    BY <1>7
  <2>3. files[c] \in Real
    BY <1>1, <1>3, <1>7 DEF ShotTypes, SpotPicture
  <2>4. /\ image \in SpotPicture /\ image.mapped = files[c].mapped /\ image.black = files[c].black
        /\ image.denied \in {0, files[c].denied}
    BY <2>3, CutFrom DEF SpotPicture
  <2>5. ShotTypes'
    BY <1>1, <1>3, <1>5, <2>1, <2>2, <2>4 DEF ShotTypes, GoesTo
  <2>6. files'[o] = image /\ files'[c] = NoPlace
    BY <1>1, <1>3, <2>2 DEF ShotTypes
  <2>7. /\ files'[o].mapped = files[c].mapped /\ files'[o].black = files[c].black
        /\ files'[o].denied \in {0, files[c].denied}
    BY <2>4, <2>6
  <2>8. Masks(c)
    BY <1>3, <1>5 DEF ComposedAt, ToMask, Ready
  <2>9. Masks(o)'
    BY <1>7, <2>7, <2>8 DEF Masks
  <2>10. Local(r, o, f, c)
    BY <1>1, <1>3, <1>5, <1>7, <2>1, <2>2, <2>5, <2>6, <2>9 DEF Local, GoesTo, ShotTypes
  <2>11. StagesOK(r)'
    BY <1>1, <1>3, <1>5, <1>7, <2>1, <2>2, <2>5, <2>6, <2>9 DEF StagesOK, GoesTo
  <2>12. ComposedAt(r, c)'
    BY <1>1, <1>3, <1>5, <1>7, <2>1, <2>2, <2>5, <2>6, <2>9 DEF ComposedAt, Masks, ToMask, Ready, Ended, GoesTo, ShotTypes, StagesOK
  <2>13. OutputGoes(r, o)
    BY <1>1, <1>3, <1>5, <1>7, <2>1, <2>2, <2>5, <2>6, <2>9 DEF OutputGoes, Masks, ToMask, Ready, GoesTo, ShotTypes
  <2>14. FullGoes(r, f)
    BY <1>1, <1>3, <1>5, <1>7, <2>1, <2>2, <2>5, <2>6, <2>9 DEF FullGoes, NeedsFull, GoesTo, ShotTypes, StagesOK
  <2>15. shot'[r].path = shot[r].path
    BY <1>5, <1>7, <2>1, <2>2, <2>5, <2>6, <2>9 DEF GoesTo
  <2> QED BY <1>2, <2>10, <2>11, <2>12, <2>13, <2>14, <2>15, ShotStep, <1>5, <1>7, <2>1, <2>2, <2>5, <2>6, <2>9
<1> QED BY <1>4, <1>6, <1>7 DEF CutOut

LEMMA BeginKeeps ==
    ASSUME ShotInv, NEW r \in Shots, NEW kind \in ShotKinds, NEW out \in Outputs, BeginShot(r, kind, out)
    PROVE  ShotInv'
<1>1. /\ shot' = [shot EXCEPT ![r] = Shot(kind, out, FirstStep)] /\ UNCHANGED <<deniedAt, files, slipped, abandoned>>
      /\ shot[r].at = "idle" /\ FirstStep \in {"asking", "queueing"}
  BY DEF BeginShot, FirstStep, desktopVars
<1>2. ShotTypes /\ Shot(kind, out, FirstStep) \in Request
  BY <1>1 DEF ShotInv, Shot, Request, Stages, SpotPicture
<1>3. /\ shot' \in [Shots -> Request] /\ \A x \in Shots \ {r} : shot'[x] = shot[x]
      /\ shot'[r].at \in {"asking", "queueing"}
  BY <1>1, <1>2 DEF ShotTypes, Shot
<1>4. ShotTypes'
  BY <1>1, <1>2, <1>3 DEF ShotTypes
<1>5. ASSUME NEW x \in Shots PROVE StagesOK(x)' /\ ComposedAt(x, <<"composed", x>>)'
  <2> PICK c : c = <<"composed", x>>
    OBVIOUS
  <2>1. StagesOK(x) /\ ComposedAt(x, c)
    BY DEF ShotInv
  <2>2. CASE x = r
    <3>1. files[c] = NoPlace
      BY <1>1, <2>1, <2>2 DEF ComposedAt, Ended
    <3> QED BY <1>1, <1>3, <2>2, <3>1 DEF StagesOK, ComposedAt, Masks
  <2>3. CASE x # r
    BY <1>1, <1>3, <2>1, <2>3 DEF StagesOK, ComposedAt, Masks, ToMask, Ready
  <2> QED BY <2>2, <2>3
<1>6. ASSUME NEW p \in Outputs PROVE OutputAt(p, <<"output", p>>)' /\ FullAt(p, <<"full", p>>)'
  <2> PICK o, f : o = <<"output", p>> /\ f = <<"full", p>>
    OBVIOUS
  <2>1. OutputAt(p, o) /\ FullAt(p, f)
    BY DEF ShotInv
  <2>2. ~ToMask(r, o) /\ ~NeedsFull(r)
    BY <1>1 DEF ToMask, Ready, NeedsFull
  <2>3. OutputAt(p, o)'
    BY <1>1, <1>3, <2>1, <2>2 DEF OutputAt, Masks, ToMask, Ready
  <2>4. FullAt(p, f)'
    BY <1>1, <1>3, <2>1, <2>2 DEF FullAt, NeedsFull
  <2> QED BY <2>3, <2>4
<1> QED BY <1>4, <1>5, <1>6 DEF ShotInv

LEMMA ShotsStep == ShotInv /\ [NextShots]_shotVars => ShotInv'
<1> SUFFICES ASSUME ShotInv, [NextShots]_shotVars PROVE ShotInv'
  OBVIOUS
<1>1. ASSUME deniedAt' \in {0} \cup Spots, UNCHANGED <<files, shot, slipped, abandoned>> PROVE ShotInv'
  <2>1. ShotTypes'
    BY <1>1 DEF ShotInv, ShotTypes
  <2>2. \A r \in Shots : StagesOK(r)' /\ ComposedAt(r, <<"composed", r>>)'
    <3> SUFFICES ASSUME NEW r \in Shots, NEW c, c = <<"composed", r>>
                 PROVE  StagesOK(r)' /\ ComposedAt(r, c)'
      OBVIOUS
    <3>1. StagesOK(r) /\ ComposedAt(r, c)
      BY DEF ShotInv
    <3> QED BY <1>1, <3>1 DEF StagesOK, ComposedAt, Masks, ToMask, Ready
  <2>3. \A out \in Outputs : OutputAt(out, <<"output", out>>)' /\ FullAt(out, <<"full", out>>)'
    <3> SUFFICES ASSUME NEW out \in Outputs, NEW o, NEW f, o = <<"output", out>>, f = <<"full", out>>
                 PROVE  OutputAt(out, o)' /\ FullAt(out, f)'
      OBVIOUS
    <3>1. OutputAt(out, o) /\ FullAt(out, f)
      BY DEF ShotInv
    <3> QED BY <1>1, <3>1 DEF OutputAt, FullAt, Masks, ToMask, Ready, NeedsFull
  <2> QED BY <2>1, <2>2, <2>3 DEF ShotInv
<1>2. ASSUME NEW to \in {0} \cup Spots, Shift(to) PROVE ShotInv'
  BY <1>1, <1>2 DEF Shift
<1>3. CASE UNCHANGED shotVars
  BY <1>1, <1>3 DEF shotVars, desktopVars, ShotInv, ShotTypes
<1>4. ASSUME NEW r \in Shots, PortalAnswers(r) PROVE ShotInv'
  <2>1. ShotTypes
    BY DEF ShotInv
  <2>2. PICK image \in Cut(r, Taken(r)) : Write(Masking(r), image)
    BY <1>4 DEF PortalAnswers
  <2>3. image \in Real /\ image.by = r
    BY <2>1, Pictured, CutFrom
  <2> QED BY <1>4, <2>2, <2>3, WroteKeeps DEF PortalAnswers, desktopVars
<1>5. ASSUME NEW r \in Shots, PortalFails(r) PROVE ShotInv'
  <2>1. deniedAt' = deniedAt /\ shot[r].at = "asking" /\ "queueing" \in Stages
    BY <1>5 DEF PortalFails, desktopVars, Stages
  <2>2. CASE Go(r, "queueing") /\ UNCHANGED <<files, slipped, abandoned>>
    BY <2>1, <2>2, MovesOnKeeps
  <2>3. CASE Go(r, "queueing") /\ Write(Masking(r), Taken(r))
    <3>1. Taken(r) \in Real /\ Taken(r).by = r
      BY Pictured DEF ShotInv
    <3> QED BY <2>1, <2>3, <3>1, WroteKeeps
  <2>4. CASE FailShot(r)
    BY <2>1, <2>4, FailShotKeeps
  <2> QED BY <1>5, <2>2, <2>3, <2>4 DEF PortalFails
<1>6. ASSUME NEW r \in Shots, PortalCancels(r) PROVE ShotInv'
  BY <1>6, MovesOnKeeps DEF PortalCancels, desktopVars, Stages
<1>7. ASSUME NEW r \in Shots, LockShot(r) PROVE ShotInv'
  BY <1>7, MovesOnKeeps DEF LockShot, desktopVars, Stages
<1>8. ASSUME NEW r \in Shots, ShotFails(r) PROVE ShotInv'
  BY <1>8, FailShotKeeps DEF ShotFails, desktopVars
<1>9. ASSUME NEW r \in Shots, CompareShots(r) PROVE ShotInv'
  <2>1. PICK place \in {"asking", "queueing", "done", "failed"} : Go(r, place)
    BY <1>9 DEF CompareShots, FirstStep
  <2>2. place \in Stages /\ shot[r].at = "comparing" /\ UNCHANGED <<deniedAt, files, slipped, abandoned>>
    BY <1>9 DEF CompareShots, desktopVars, Stages
  <2> QED BY <2>1, <2>2, MovesOnKeeps
<1> QED BY <1>2, <1>3, <1>4, <1>5, <1>6, <1>7, <1>8, <1>9, BeginKeeps, ShootKeeps, WritePictureKeeps,
           ListWindowsKeeps, MaskFailsKeeps, PaintMaskKeeps, SaveMaskKeeps, CutOutKeeps DEF NextShots

LEMMA ShotsInvariant == SpecShots => []ShotInv
BY ShotsStart, ShotsStep, PTL DEF SpecShots

(* Whatever requests share a path, fail or are cancelled, and wherever the *)
(* denied window moves, an output that no request works on is masked, but  *)
(* for the two windows of time that the property names, and nothing else   *)
(* is left of what it was made from (screenshot.rs,                        *)
(* compatibility_capture_backend.rs).                                      *)
THEOREM OnlyMaskedLeftHolds == SpecShots => []OnlyMaskedLeft
<1>1. ShotInv => OnlyMaskedLeft
  <2> SUFFICES ASSUME ShotInv, NEW out \in Outputs, Quiet(out)
               PROVE  /\ \/ <<"output", out>> \in slipped \cup abandoned
                         \/ files[<<"output", out>>] = NoPlace
                         \/ ~files[<<"output", out>>].mapped
                         \/ files[<<"output", out>>].denied \in {0} \cup files[<<"output", out>>].black
                      /\ files[<<"full", out>>] = NoPlace \/ <<"full", out>> \in abandoned
                      /\ \A r \in Shots : shot[r].at \in Ended => files[Composed(r)] = NoPlace
    BY DEF OnlyMaskedLeft
  <2> PICK o, f : o = <<"output", out>> /\ f = <<"full", out>>
    OBVIOUS
  <2>1. OutputAt(out, o) /\ FullAt(out, f)
    BY DEF ShotInv
  <2>2. \A r \in Shots : shot[r].path = out => ~ToMask(r, o) /\ ~NeedsFull(r)
    BY DEF Quiet, Ended, ToMask, Ready, NeedsFull
  <2>3. o \in abandoned \/ Masks(o)
    BY <2>1, <2>2 DEF OutputAt
  <2>4. files[f] = NoPlace \/ f \in abandoned
    BY <2>1, <2>2 DEF FullAt
  <2>5. ASSUME NEW r \in Shots, shot[r].at \in Ended PROVE files[Composed(r)] = NoPlace
    <3>1. ComposedAt(r, Composed(r))
      BY DEF ShotInv, Composed
    <3> QED BY <2>5, <3>1 DEF ComposedAt
  <2> QED BY <2>3, <2>4, <2>5 DEF Masks
<1> QED BY <1>1, ShotsInvariant, PTL

-----------------------------------------------------------------------------
(* What the integer divisions of the code lose.                              *)
LEMMA DivBounds ==
    ASSUME NEW a \in Int, NEW b \in Nat \ {0}
    PROVE  a \div b \in Int /\ b * (a \div b) <= a /\ a < b * (a \div b) + b
OBVIOUS

LEMMA UpwardBounds ==
    ASSUME NEW a \in Int, NEW b \in Nat \ {0}
    PROVE  Upward(a, b) \in Int /\ a <= b * Upward(a, b)
<1>1. PICK q \in Int : q = (-a) \div b /\ b * q <= -a
  BY DivBounds
<1>2. Upward(a, b) = -q
  BY <1>1 DEF Upward
<1> QED BY <1>1, <1>2

LEMMA RoundedBounds ==
    ASSUME NEW a \in Int, NEW b \in Nat \ {0}
    PROVE  /\ Rounded(a, b) \in Int
           /\ 2 * b * Rounded(a, b) <= 2 * a + b /\ 2 * a < 2 * b * Rounded(a, b) + b
<1>1. 2 * b \in Nat \ {0} /\ 2 * a + b \in Int
  OBVIOUS
<1>2. PICK q \in Int : q = (2 * a + b) \div (2 * b) /\ (2 * b) * q <= 2 * a + b /\ 2 * a + b < (2 * b) * q + 2 * b
  BY <1>1, DivBounds
<1>3. Rounded(a, b) = q
  BY <1>2 DEF Rounded
<1> QED BY <1>2, <1>3

(* Products keep an order, and their order tells that of the factors.        *)
LEMMA Scales ==
    ASSUME NEW u \in Int, NEW v \in Int, NEW n \in Nat
    PROVE  /\ u <= v => u * n <= v * n
           /\ u * n < v * n => u < v
OBVIOUS

-----------------------------------------------------------------------------
(* Where pictures come from.                                                 *)

GeometryTypes ==
    /\ scale \in Nat \ {0} /\ MonitorWidth * scale >= 2
    /\ window.x \in Int /\ window.w \in Nat \ {0} /\ window.deco \in Nat

\* A picture of the desktop, or of a part of it, says what it shows.
PhysicalOK ==
    /\ picture.space = "physical" /\ picture.kind \in {"desktop", "tile"}
    /\ picture.from \in Nat /\ picture.extent \in Nat \ {0}
    /\ picture.at = 4 * picture.from /\ picture.wide = 4 * picture.extent
    /\ black = Masked(picture)

CropOK ==
    /\ picture.kind = "crop" /\ picture.space = "frame" /\ picture.from = 0
    /\ picture.extent = Rounded(Outline.w * scale, 4) /\ picture.wide = 4 * picture.extent
    /\ \E origin \in Origins : picture.at = 4 * Rounded(OnMonitor(origin, Outline.x), 4)

WindowOK ==
    /\ picture.kind = "window" /\ picture.space = "client" /\ picture.from = 0
    /\ picture.extent = Extent(Larger(Rounded(window.w * scale, 4), 1))
    /\ picture.at = OnMonitor(HomeMonitor, window.x) /\ picture.wide = window.w * scale

PictureOK ==
    picture.kind # "none" =>
        /\ picture.out \in Nat /\ picture.file \in Nat
        /\ PhysicalOK \/ CropOK \/ WindowOK

\* A click went where its path took its column.
ClickOK ==
    click # NoClick =>
        /\ picture.kind # "none" /\ click.column \in 0..(picture.out - 1)
        /\ \/ /\ click.path = "seat" /\ picture.kind = "window"
              /\ click.at = OnMonitor(HomeMonitor, window.x) * picture.out + SourcePoint(click.column) * scale
           \/ /\ click.path = "pointer" /\ picture.space = "physical"
              /\ click.at = SourcePoint(click.column) * 4
           \/ /\ click.path = "pointer" /\ picture.space # "physical"
              /\ click.at = OnMonitor(HomeMonitor, Outline.x) * picture.out + SourcePoint(click.column) * scale

GeometryInv == GeometryTypes /\ PictureOK /\ ClickOK

\* Previews have sizes.
LEMMA ResizedSize ==
    ASSUME NEW width \in Nat, NEW edge \in Nat \ {0}
    PROVE  /\ Preview(width, edge).out \in Nat /\ Preview(width, edge).file \in Nat
           /\ TilePreview(width, edge).out \in Nat /\ TilePreview(width, edge).file \in Nat
           /\ WindowPreview(width, edge).out \in Nat /\ WindowPreview(width, edge).file \in Nat
<1>1. Across \in Nat \ {0}
  BY GeometryAssumption
<1>2. PICK largest \in Nat \ {0} : largest = Larger(width, Across)
  BY <1>1 DEF Larger
<1>3. ASSUME NEW v \in Nat PROVE Scaled(v, edge, largest) \in Nat
  <2>1. v * edge \in Int
    OBVIOUS
  <2>2. Rounded(v * edge, largest) \in Int
    BY <1>2, <2>1, RoundedBounds
  <2> QED BY <2>2 DEF Scaled, Larger
<1>4. ASSUME NEW asked \in Nat, NEW askedAcross \in Nat PROVE Resized(width, asked, askedAcross) \in Nat
  <2>1. width * askedAcross \in Int
    OBVIOUS
  <2>2. Rounded(width * askedAcross, Across) \in Int
    BY <1>1, <2>1, RoundedBounds
  <2> QED BY <2>2 DEF Resized, Larger
<1>5. Preview(width, edge).out \in Nat /\ Preview(width, edge).file \in Nat
  <2>1. PICK out \in Nat : out = Scaled(width, edge, largest)
    BY <1>3
  <2>2. PICK across \in Nat : across = Scaled(Across, edge, largest)
    BY <1>1, <1>3
  <2>3. Resized(width, out, across) \in Nat
    BY <1>4
  <2> QED BY <1>2, <2>1, <2>2, <2>3 DEF Preview
<1> QED BY <1>5 DEF TilePreview, WindowPreview

(* The pictures there are, and the clicks on them.                           *)
LEMMA GeometryStart == InitPicture => GeometryInv
<1> SUFFICES ASSUME InitPicture PROVE GeometryInv
  OBVIOUS
<1>1. scale \in Nat \ {0} /\ MonitorWidth * scale >= 2 /\ MonitorWidth \in Nat \ {0}
  BY GeometryAssumption DEF InitPicture
<1>2. PICK x \in 0..(2 * MonitorWidth - 1), w \in 1..(MonitorWidth + 1), deco \in {0, 1} :
         window = [x |-> x, w |-> w, deco |-> deco]
  BY DEF InitPicture
<1>3. GeometryTypes
  BY <1>1, <1>2 DEF GeometryTypes
<1>4. picture.kind = "none" /\ click = NoClick
  BY DEF InitPicture, NoPicture
<1> QED BY <1>3, <1>4 DEF GeometryInv, PictureOK, ClickOK

\* A picture says where it comes from.
LEMMA TakeKeeps ==
    ASSUME GeometryInv, NEW p, Answered(p),
           p.out \in Nat, p.file \in Nat,
           (PhysicalOK \/ CropOK \/ WindowOK)'
    PROVE  GeometryInv'
<1>1. GeometryTypes'
  BY DEF GeometryInv, GeometryTypes, Answered
<1>2. PictureOK'
  BY DEF PictureOK, Answered
<1>3. ClickOK'
  BY DEF ClickOK, Answered
<1> QED BY <1>1, <1>2, <1>3 DEF GeometryInv

\* The picture of the desktop has a pixel.
LEMMA DesktopSize == GeometryInv => DesktopWidth \in Nat \ {0}
<1> SUFFICES ASSUME GeometryInv PROVE DesktopWidth \in Nat \ {0}
  OBVIOUS
<1>1. PICK m \in Int : m = MonitorWidth * scale /\ m >= 2
  <2>1. MonitorWidth \in Nat /\ scale \in Nat
    BY GeometryAssumption DEF GeometryInv, GeometryTypes
  <2> QED BY <2>1 DEF GeometryInv, GeometryTypes
<1>2. 4 \in Nat \ {0}
  OBVIOUS
<1>3. PICK r \in Int : r = Rounded(m, 4) /\ 2 * m < 2 * 4 * r + 4
  BY <1>1, <1>2, RoundedBounds
<1>4. r > 0
  BY <1>1, <1>3
<1> QED BY <1>1, <1>3, <1>4 DEF DesktopWidth, PhysicalWidth, PhysicalOrigin

LEMMA PhysicalKeeps ==
    ASSUME GeometryInv, NEW p, Answered(p),
           p.out \in Nat, p.file \in Nat, p.space = "physical", p.kind \in {"desktop", "tile"},
           p.from \in Nat, p.extent \in Nat \ {0}, p.at = 4 * p.from, p.wide = 4 * p.extent
    PROVE  GeometryInv'
<1>1. picture' = p
  BY DEF Answered
<1>2. black' = Masked(picture)'
  BY DEF Answered, Masked, Columns, Region, Outline, OnMonitor, PhysicalOrigin
<1>3. PhysicalOK'
  BY <1>1, <1>2 DEF PhysicalOK
<1> QED BY <1>3, TakeKeeps

LEMMA DesktopKeeps ==
    ASSUME GeometryInv, NEW edge \in Edges, TakeDesktop(edge)
    PROVE  GeometryInv'
<1>1. edge \in Nat \ {0} /\ DesktopWidth \in Nat \ {0}
  BY GeometryAssumption, DesktopSize
<1>2. PICK out \in Nat, file \in Nat :
         out = Preview(DesktopWidth, edge).out /\ file = Preview(DesktopWidth, edge).file
  BY <1>1, ResizedSize
<1>3. PICK p : /\ p = [kind |-> "desktop", space |-> "physical", from |-> 0, extent |-> DesktopWidth,
                       out |-> out, file |-> file, at |-> 0, wide |-> 4 * DesktopWidth]
               /\ Answered(p)
  BY <1>2 DEF TakeDesktop
<1>4. /\ p.out \in Nat /\ p.file \in Nat /\ p.space = "physical" /\ p.kind \in {"desktop", "tile"}
      /\ p.from \in Nat /\ p.extent \in Nat \ {0} /\ p.at = 4 * p.from /\ p.wide = 4 * p.extent
  BY <1>1, <1>3
<1> QED BY <1>3, <1>4, PhysicalKeeps

LEMMA TileKeeps ==
    ASSUME GeometryInv, NEW edge \in Edges, NEW x \in Nat, NEW width \in Nat, TakeTile(edge, x, width)
    PROVE  GeometryInv'
<1>1. edge \in Nat \ {0} /\ width \in Nat \ {0}
  BY GeometryAssumption DEF TakeTile
<1>2. PICK out \in Nat, file \in Nat :
         out = TilePreview(width, edge).out /\ file = TilePreview(width, edge).file
  BY <1>1, ResizedSize
<1>3. PICK p : /\ p = [kind |-> "tile", space |-> "physical", from |-> x, extent |-> width,
                       out |-> out, file |-> file, at |-> 4 * x, wide |-> 4 * width]
               /\ Answered(p)
  BY <1>2 DEF TakeTile
<1>4. /\ p.out \in Nat /\ p.file \in Nat /\ p.space = "physical" /\ p.kind \in {"desktop", "tile"}
      /\ p.from \in Nat /\ p.extent \in Nat \ {0} /\ p.at = 4 * p.from /\ p.wide = 4 * p.extent
  BY <1>1, <1>3
<1> QED BY <1>3, <1>4, PhysicalKeeps

LEMMA CropKeeps ==
    ASSUME GeometryInv, NEW edge \in Edges, TakeCrop(edge)
    PROVE  GeometryInv'
<1>1. PICK origin, x, width :
        /\ origin \in Containing
        /\ x = Rounded(OnMonitor(origin, Outline.x), 4) /\ width = Rounded(Outline.w * scale, 4)
        /\ width > 0
        /\ Answered([kind |-> "crop", space |-> "frame", from |-> 0, extent |-> width,
                      out |-> TilePreview(width, edge).out, file |-> TilePreview(width, edge).file,
                      at |-> 4 * x, wide |-> 4 * width])
  BY DEF TakeCrop
<1>2. edge \in Nat \ {0} /\ width \in Nat
  <2>1. PICK m \in Int : m = Outline.w * scale
    BY DEF GeometryInv, GeometryTypes, Outline
  <2>2. 4 \in Nat \ {0}
    OBVIOUS
  <2>3. width \in Int
    BY <1>1, <2>1, <2>2, RoundedBounds
  <2> QED BY <1>1, <2>3, GeometryAssumption
<1>3. PICK out \in Nat, file \in Nat :
         out = TilePreview(width, edge).out /\ file = TilePreview(width, edge).file
  BY <1>2, ResizedSize
<1>4. PICK p : /\ p = [kind |-> "crop", space |-> "frame", from |-> 0, extent |-> width,
                       out |-> out, file |-> file, at |-> 4 * x, wide |-> 4 * width]
               /\ Answered(p)
  BY <1>1, <1>3
<1>5. origin \in Origins /\ picture' = p /\ UNCHANGED <<scale, window>>
  BY <1>1, <1>4 DEF Containing, Answered
<1>6. CropOK'
  <2>1. Outline' = Outline /\ OnMonitor(origin, Outline.x)' = OnMonitor(origin, Outline.x)
    BY <1>5 DEF Outline, OnMonitor, PhysicalOrigin
  <2>2. /\ picture'.kind = "crop" /\ picture'.space = "frame" /\ picture'.from = 0
        /\ picture'.extent = width /\ picture'.wide = 4 * width /\ picture'.at = 4 * x
    BY <1>4, <1>5
  <2> QED BY <1>1, <1>5, <2>1, <2>2 DEF CropOK
<1> QED BY <1>4, <1>6, TakeKeeps

LEMMA WindowKeeps ==
    ASSUME GeometryInv, NEW edge \in Edges, TakeWindow(edge)
    PROVE  GeometryInv'
<1>1. PICK native : native = Larger(Rounded(window.w * scale, 4), 1)
  OBVIOUS
<1>2. edge \in Nat \ {0} /\ native \in Nat
  <2>1. PICK m \in Int : m = window.w * scale
    BY DEF GeometryInv, GeometryTypes
  <2>2. 4 \in Nat \ {0}
    OBVIOUS
  <2>3. Rounded(m, 4) \in Int
    BY <2>1, <2>2, RoundedBounds
  <2> QED BY <1>1, <2>1, <2>3, GeometryAssumption DEF Larger
<1>3. PICK out \in Nat, file \in Nat :
         out = WindowPreview(native, edge).out /\ file = WindowPreview(native, edge).file
  BY <1>2, ResizedSize
<1>4. PICK p : /\ p = [kind |-> "window", space |-> "client", from |-> 0, extent |-> Extent(native),
                       out |-> out, file |-> file,
                       at |-> OnMonitor(HomeMonitor, window.x), wide |-> window.w * scale]
               /\ Answered(p)
  BY <1>1, <1>3 DEF TakeWindow
<1>5. picture' = p /\ UNCHANGED <<scale, window>>
  BY <1>4 DEF Answered
<1>6. WindowOK'
  BY <1>1, <1>4, <1>5 DEF WindowOK, Extent, OnMonitor, PhysicalOrigin, HomeMonitor, Overlap, Outline
<1> QED BY <1>4, <1>6, TakeKeeps

LEMMA ClickKeeps ==
    ASSUME GeometryInv, picture.kind # "none", NEW c \in 0..(picture.out - 1),
           ClickThroughSeat(c) \/ ClickThroughPointer(c)
    PROVE  GeometryInv'
<1>1. UNCHANGED <<scale, window, picture, black>> /\ click'.column = c
  BY DEF ClickThroughSeat, ClickThroughPointer
<1>2. GeometryTypes' /\ PictureOK'
  BY <1>1 DEF GeometryInv, GeometryTypes, PictureOK, PhysicalOK, CropOK, WindowOK, Masked, Columns, Region,
              Outline, OnMonitor, PhysicalOrigin, HomeMonitor, Overlap, Extent
<1>3. ClickOK'
  <2>1. /\ (OnMonitor(HomeMonitor, window.x))' = OnMonitor(HomeMonitor, window.x)
        /\ (OnMonitor(HomeMonitor, Outline.x))' = OnMonitor(HomeMonitor, Outline.x)
        /\ \A k : SourcePoint(k)' = SourcePoint(k)
    BY <1>1 DEF OnMonitor, PhysicalOrigin, HomeMonitor, Overlap, Outline, SourcePoint
  <2>2. CASE ClickThroughSeat(c)
    BY <1>1, <2>1, <2>2 DEF ClickThroughSeat, ClickOK, SourcePoint
  <2>3. CASE ClickThroughPointer(c)
    BY <1>1, <2>1, <2>3 DEF ClickThroughPointer, ClickOK, SourcePoint
  <2> QED BY <2>2, <2>3
<1> QED BY <1>2, <1>3 DEF GeometryInv

LEMMA GeometryStep == GeometryInv /\ [NextPicture]_pictureVars => GeometryInv'
<1> SUFFICES ASSUME GeometryInv, [NextPicture]_pictureVars PROVE GeometryInv'
  OBVIOUS
<1>1. ASSUME NEW edge \in Edges,
             TakeDesktop(edge) \/ TakeCrop(edge) \/ TakeWindow(edge) PROVE GeometryInv'
  BY <1>1, DesktopKeeps, CropKeeps, WindowKeeps
<1>2. ASSUME NEW edge \in Edges, NEW x \in {1, MonitorWidth}, TakeTile(edge, x, MonitorWidth)
      PROVE  GeometryInv'
  <2>1. x \in Nat /\ MonitorWidth \in Nat
    BY GeometryAssumption
  <2> QED BY <1>2, <2>1, TileKeeps
<1>3. ASSUME picture.kind # "none", NEW c \in 0..(picture.out - 1), ClickThroughSeat(c) \/ ClickThroughPointer(c)
      PROVE  GeometryInv'
  BY <1>3, ClickKeeps
<1>4. CASE UNCHANGED pictureVars
  BY <1>4 DEF pictureVars, GeometryInv, GeometryTypes, PictureOK, PhysicalOK, CropOK, WindowOK, ClickOK,
              Masked, Columns, Region, SourcePoint, Outline, OnMonitor, PhysicalOrigin, HomeMonitor, Overlap, Extent
<1> QED BY <1>1, <1>2, <1>3, <1>4 DEF NextPicture

-----------------------------------------------------------------------------
(* What is covered, and where a click lands.                                 *)

\* One region: the columns that are masked are all that show a part of it.
LEMMA ColumnsCover ==
    ASSUME NEW n \in Nat, NEW e \in Nat \ {0}, NEW f \in Nat,
           NEW a \in Int, NEW b \in Int, NEW c \in 0..(n - 1),
           c * (4 * e) < (b - 4 * f) * n, (c + 1) * (4 * e) > (a - 4 * f) * n
    PROVE  /\ ((Larger(a \div 4, f) - f) * n) \div e <= c
           /\ c < Upward((Upward(b, 4) - f) * n, e)
<1>0. c \in Nat /\ 4 \in Nat \ {0}
  OBVIOUS
<1>1. ((Larger(a \div 4, f) - f) * n) \div e <= c
  <2>1. PICK l \in Int : l = a \div 4 /\ 4 * l <= a
    BY DivBounds
  <2>2. PICK left \in Int : left = Larger(l, f) - f /\ (left = 0 \/ left = l - f)
    <3>1. Larger(l, f) = l \/ Larger(l, f) = f
      BY DEF Larger
    <3>2. Larger(l, f) - f \in Int /\ (Larger(l, f) - f = 0 \/ Larger(l, f) - f = l - f)
      BY <2>1, <3>1
    <3> QED BY <3>2
  <2>3. PICK m \in Int : m = left * n
    OBVIOUS
  <2>4. PICK q \in Int : q = m \div e /\ e * q <= m
    BY DivBounds
  <2>5. e * q < e * (c + 1)
    <3>1. CASE left = 0
      <4>1. m = 0
        BY <2>3, <3>1
      <4>2. 0 < e * (c + 1)
        BY <1>0
      <4> QED BY <2>4, <4>1, <4>2
    <3>2. CASE left = l - f
      <4>1. 4 * left <= a - 4 * f
        BY <2>1, <3>2
      <4>2. (4 * left) * n <= (a - 4 * f) * n
        BY <4>1, Scales
      <4>3. 4 * m = (4 * left) * n
        BY <2>3
      <4>4. PICK u \in Int : u = (a - 4 * f) * n
        OBVIOUS
      <4>5. PICK v \in Int : v = e * (c + 1)
        BY <1>0
      <4>6. (c + 1) * (4 * e) = 4 * v
        BY <1>0, <4>5
      <4>7. PICK w \in Int : w = e * q
        OBVIOUS
      <4> QED BY <2>4, <4>2, <4>3, <4>4, <4>5, <4>6, <4>7
    <3> QED BY <2>2, <3>1, <3>2
  <2>6. q < c + 1
    <3>1. q * e < (c + 1) * e
      BY <1>0, <2>5
    <3> QED BY <1>0, <3>1, Scales
  <2> QED BY <2>1, <2>2, <2>3, <2>4, <2>6
<1>2. c < Upward((Upward(b, 4) - f) * n, e)
  <2>1. PICK r \in Int : r = Upward(b, 4) /\ b <= 4 * r
    BY <1>0, UpwardBounds
  <2>2. PICK m \in Int : m = (r - f) * n
    OBVIOUS
  <2>3. PICK q \in Int : q = Upward(m, e) /\ m <= e * q
    BY UpwardBounds
  <2>4. (b - 4 * f) * n <= (4 * (r - f)) * n
    <3>1. b - 4 * f <= 4 * (r - f)
      BY <2>1
    <3> QED BY <3>1, Scales
  <2>5. (4 * (r - f)) * n = 4 * m
    BY <2>2
  <2>6. c * e < q * e
    <3>1. PICK u \in Int : u = (b - 4 * f) * n
      OBVIOUS
    <3>2. PICK v \in Int : v = c * e /\ c * (4 * e) = 4 * v
      BY <1>0
    <3>3. PICK w \in Int : w = e * q /\ w = q * e
      OBVIOUS
    <3> QED BY <2>3, <2>4, <2>5, <3>1, <3>2, <3>3
  <2>7. c < q
    BY <1>0, <2>6, Scales
  <2> QED BY <2>1, <2>2, <2>3, <2>7
<1> QED BY <1>1, <1>2

LEMMA MaskStep == GeometryInv => MaskCovers
<1> SUFFICES ASSUME GeometryInv, AsAnswered, picture.space = "physical",
                    NEW c \in 0..(picture.file - 1), NEW o \in Origins,
                    NEW left, NEW right,
                    left = Larger(Outline.x, o), right = Smaller(Outline.x + Outline.w, o + MonitorWidth),
                    left < right, Shows(c, OnMonitor(o, left), OnMonitor(o, right))
             PROVE  c \in black
  BY DEF MaskCovers
<1>1. PhysicalOK /\ picture.out \in Nat /\ picture.out = picture.file
  BY DEF GeometryInv, PictureOK, AsAnswered, CropOK, WindowOK
<1>2. /\ MonitorWidth \in Nat \ {0} /\ scale \in Nat \ {0} /\ o \in Int
      /\ Outline.x \in Int /\ Outline.w \in Int
  BY GeometryAssumption DEF GeometryInv, GeometryTypes, Outline, Origins
<1>3. PhysicalOrigin(o) \in Int
  <2>1. o * scale \in Int /\ 4 \in Nat \ {0}
    BY <1>2
  <2> QED BY <2>1, RoundedBounds DEF PhysicalOrigin
<1>4. left \in Int /\ right \in Int
  BY <1>2 DEF Larger, Smaller
<1>5. PICK a \in Int, b \in Int : a = OnMonitor(o, left) /\ b = OnMonitor(o, right)
  <2>1. \A x \in Int : OnMonitor(o, x) \in Int
    BY <1>2, <1>3 DEF OnMonitor
  <2> QED BY <1>4, <2>1
<1>6. PICK region : region = [from |-> a \div 4, to |-> Upward(b, 4)]
  OBVIOUS
<1>7. region \in Region(o)
  <2>1. ~(right <= left)
    BY <1>4
  <2> QED BY <1>5, <1>6, <2>1 DEF Region
<1>8. PICK n \in Nat, e \in Nat \ {0}, f \in Nat :
        /\ n = picture.out /\ n = picture.file /\ e = picture.extent /\ f = picture.from
        /\ picture.at = 4 * f /\ picture.wide = 4 * e /\ black = Masked(picture)
  BY <1>1 DEF PhysicalOK
<1>9. c \in 0..(n - 1) /\ c * (4 * e) < (b - 4 * f) * n /\ (c + 1) * (4 * e) > (a - 4 * f) * n
  BY <1>5, <1>8 DEF Shows
<1>10. /\ ((Larger(a \div 4, f) - f) * n) \div e <= c
       /\ c < Upward((Upward(b, 4) - f) * n, e)
  BY <1>9, ColumnsCover
<1>11. c \in Columns(picture, region)
  BY <1>6, <1>8, <1>9, <1>10 DEF Columns
<1> QED BY <1>7, <1>8, <1>11 DEF Masked

(* Every column of a masked picture that shows a part of the protected       *)
(* window is black, for any monitors, scales, sizes of pictures and previews,*)
(* and places of the window (screenshot_image.rs:128, observation_policy.rs).*)
THEOREM MaskCoversHolds == SpecPicture => []MaskCovers
BY GeometryStart, GeometryStep, MaskStep, PTL DEF SpecPicture

\* The extent of a window's picture, in its native pixels and back, is off by
\* no more than a pixel.
LEMMA ExtentClose ==
    ASSUME NEW w \in Nat \ {0}, NEW s \in Nat \ {0}, scale = s
    PROVE  \E e \in Nat \ {0} :
              /\ e = Extent(Larger(Rounded(w * s, 4), 1))
              /\ (e - w) * s <= 4 /\ -4 <= (e - w) * s
<1>0. 4 \in Nat \ {0}
  OBVIOUS
<1>1. PICK m \in Nat \ {0} : m = w * s
  OBVIOUS
<1>2. PICK r \in Int : r = Rounded(m, 4) /\ 8 * r <= 2 * m + 4 /\ 2 * m < 8 * r + 4
  <2>1. /\ Rounded(m, 4) \in Int
        /\ 2 * 4 * Rounded(m, 4) <= 2 * m + 4 /\ 2 * m < 2 * 4 * Rounded(m, 4) + 4
    BY <1>0, <1>1, RoundedBounds
  <2> QED BY <2>1
<1>3. PICK native \in Nat \ {0} : native = Larger(r, 1) /\ (native = r \/ (r < 1 /\ native = 1))
  <2>1. CASE r > 1
    BY <2>1 DEF Larger
  <2>2. CASE ~(r > 1)
    <3>1. Larger(r, 1) = 1
      BY <2>2 DEF Larger
    <3> QED BY <1>2, <2>2, <3>1
  <2> QED BY <2>1, <2>2
<1>4. 4 * native <= m + 3 /\ m - 2 <= 4 * native /\ (4 * native <= m + 2 \/ m = 1)
  BY <1>1, <1>2, <1>3
<1>5. PICK e0 \in Int : /\ e0 = Rounded(4 * native, s)
                         /\ 2 * s * e0 <= 2 * (4 * native) + s /\ 2 * (4 * native) < 2 * s * e0 + s
  <2>1. 4 * native \in Int
    OBVIOUS
  <2> QED BY <2>1, RoundedBounds
<1>6. PICK p \in Int : p = s * e0 /\ 2 * p <= 8 * native + s /\ 8 * native < 2 * p + s
  <2>1. 2 * s * e0 = 2 * (s * e0)
    OBVIOUS
  <2> QED BY <1>5, <2>1
<1>7. native * 4 = 4 * native /\ Extent(native) = Larger(e0, 1)
  BY <1>5 DEF Extent
<1>8. e0 >= 0
  <2>1. 0 < (2 * e0 + 1) * s
    <3>1. (2 * e0 + 1) * s = 2 * p + s
      BY <1>6
    <3> QED BY <1>3, <1>6, <3>1
  <2>2. 0 * s < (2 * e0 + 1) * s
    BY <2>1
  <2>3. 0 < 2 * e0 + 1
    BY <2>2, Scales
  <2> QED BY <2>3
<1>9. /\ 2 * (p - m) <= s + 6 /\ -(s + 4) <= 2 * (p - m)
      /\ 2 * (p - m) <= s + 4 \/ m = 1
  BY <1>4, <1>6
<1>10. PICK e \in Nat \ {0} : e = Extent(native) /\ (e = e0 \/ (e0 = 0 /\ e = 1))
  <2>1. CASE e0 > 1
    BY <1>7, <2>1 DEF Larger
  <2>2. CASE ~(e0 > 1)
    <3>1. Larger(e0, 1) = 1
      BY <2>2 DEF Larger
    <3> QED BY <1>7, <1>8, <2>2, <3>1
  <2> QED BY <2>1, <2>2
<1>11. e = Extent(Larger(Rounded(w * s, 4), 1))
  BY <1>1, <1>2, <1>3, <1>10
<1>12. (e - w) * s <= 4 /\ -4 <= (e - w) * s
  <2>1. CASE m = 1
    <3>1. w = 1 /\ s = 1
      BY <1>1, <2>1
    <3>2. p = e0
      BY <1>6, <3>1
    <3>3. e <= 4
      BY <1>3, <1>4, <1>6, <1>10, <2>1, <3>1, <3>2
    <3>4. (e - w) * s = e - 1
      BY <3>1
    <3> QED BY <3>3, <3>4
  <2>2. CASE m # 1 /\ e = e0
    <3>1. (e - w) * s = p - m
      BY <1>1, <1>6, <2>2
    <3>2. CASE s <= 4
      BY <1>9, <2>2, <3>1, <3>2
    <3>3. CASE s > 4
      <4>1. p - m < s /\ -s < p - m
        BY <1>9, <2>2, <3>3
      <4>2. (e - w) * s < 1 * s /\ (w - e) * s < 1 * s
        BY <3>1, <4>1
      <4>3. e - w < 1 /\ w - e < 1
        BY <4>2, Scales
      <4>4. e = w
        BY <4>3
      <4>5. (e - w) * s = 0
        BY <4>4
      <4> QED BY <4>5
    <3> QED BY <3>2, <3>3
  <2>3. CASE m # 1 /\ e0 = 0 /\ e = 1
    <3>1. p = 0
      BY <1>6, <2>3
    <3>2. 2 * m <= s + 4
      BY <1>9, <3>1
    <3>3. (e - w) * s = s - m
      BY <1>1, <2>3
    <3>4. s <= m
      <4>1. 1 * s <= w * s
        BY Scales
      <4> QED BY <1>1, <4>1
    <3> QED BY <3>2, <3>3, <3>4
  <2> QED BY <1>10, <2>1, <2>2, <2>3
<1> QED BY <1>11, <1>12

\* A click that is off by no more than its column's part of a pixel lands.
LEMMA NearLands ==
    ASSUME NEW n \in Nat, NEW c \in 0..(n - 1), NEW e \in Int, NEW w \in Nat, NEW s \in Nat, NEW o \in Int,
           (e - w) * s <= 4, -4 <= (e - w) * s
    PROVE  /\ o * n + (c * e) * s > o * n + c * (w * s) - 4 * n
           /\ o * n + (c * e) * s < o * n + c * (w * s) + w * s + 4 * n
<1>1. PICK d \in Int : d = (e - w) * s
  OBVIOUS
<1>2. c \in Nat /\ (c * e) * s = c * (w * s) + d * c
  BY <1>1
<1>3. d * c <= 4 * c /\ (-4) * c <= d * c
  BY <1>1, <1>2, Scales
<1>4. w * s \in Nat
  OBVIOUS
<1>5. PICK u \in Int : u = c * (w * s)
  BY <1>2
<1>6. PICK v \in Int : v = d * c
  BY <1>2
<1>7. PICK y \in Int : y = o * n
  OBVIOUS
<1> QED BY <1>2, <1>3, <1>4, <1>5, <1>6, <1>7

\* At scale one nothing is rounded away.
LEMMA NothingLost ==
    ASSUME NEW v \in Int
    PROVE  Rounded(v * 4, 4) = v /\ Rounded(4 * v, 4) = v
<1>1. 4 \in Nat \ {0} /\ v * 4 \in Int /\ v * 4 = 4 * v
  OBVIOUS
<1>2. /\ Rounded(v * 4, 4) \in Int
      /\ 2 * 4 * Rounded(v * 4, 4) <= 2 * (v * 4) + 4 /\ 2 * (v * 4) < 2 * 4 * Rounded(v * 4, 4) + 4
  BY <1>1, RoundedBounds
<1>3. Rounded(v * 4, 4) = v
  BY <1>2
<1> QED BY <1>1, <1>3

LEMMA UnscaledPoint ==
    ASSUME scale = 4, NEW o \in Int, NEW x \in Int
    PROVE  OnMonitor(o, x) = 4 * x
<1>1. PhysicalOrigin(o) = o
  BY NothingLost DEF PhysicalOrigin
<1> QED BY <1>1 DEF OnMonitor

LEMMA LandsStep == GeometryInv => ClicksLand
<1> SUFFICES ASSUME GeometryInv, AsAnswered, click # NoClick,
                    ~(click.path = "pointer" /\ picture.kind = "window" /\ window.deco # 0),
                    ~(picture.kind = "crop" /\ scale # 4)
             PROVE  Lands
  BY DEF ClicksLand
<1>1. PICK n \in Nat, c \in Nat :
         n = picture.out /\ n = picture.file /\ c = click.column /\ c \in 0..(n - 1)
  BY DEF GeometryInv, PictureOK, ClickOK, AsAnswered
<1>2. /\ MonitorWidth \in Nat \ {0} /\ scale \in Nat \ {0}
      /\ window.x \in Int /\ window.w \in Nat \ {0} /\ window.deco \in Nat
      /\ Outline.x \in Int /\ Outline.w \in Nat /\ HomeMonitor \in Int
  BY GeometryAssumption DEF GeometryInv, GeometryTypes, Outline, HomeMonitor
<1>3. \A x \in Int : OnMonitor(HomeMonitor, x) \in Int
  <2>1. 4 \in Nat \ {0} /\ HomeMonitor * scale \in Int
    BY <1>2
  <2>2. PhysicalOrigin(HomeMonitor) \in Int
    BY <2>1, RoundedBounds DEF PhysicalOrigin
  <2> QED BY <1>2, <2>2 DEF OnMonitor
<1>4. SourcePoint(c) = picture.from * n + c * picture.extent
  BY <1>1 DEF SourcePoint
<1>5. c \in Nat /\ n > 0
  BY <1>1
<1>6. CASE PhysicalOK
  <2>1. click.at = SourcePoint(c) * 4
    BY <1>1, <1>6 DEF GeometryInv, ClickOK, PhysicalOK
  <2>2. PICK f \in Nat, e \in Nat \ {0} :
           f = picture.from /\ e = picture.extent /\ picture.at = 4 * f /\ picture.wide = 4 * e
    BY <1>6 DEF PhysicalOK
  <2>3. PICK shown \in Int : shown = picture.at * n + c * picture.wide /\ click.at = shown
    <3>1. (f * n + c * e) * 4 = (4 * f) * n + c * (4 * e) /\ (f * n + c * e) * 4 \in Int
      BY <1>5
    <3> QED BY <1>4, <2>1, <2>2, <3>1
  <2>4. shown > shown - 4 * n /\ shown < shown + 4 * e + 4 * n
    BY <1>5
  <2> QED BY <1>1, <2>2, <2>3, <2>4 DEF Lands
<1>7. CASE CropOK
  <2>1. scale = 4
    BY <1>7 DEF CropOK
  <2>2. click.at = OnMonitor(HomeMonitor, Outline.x) * n + SourcePoint(c) * scale
    BY <1>1, <1>7 DEF GeometryInv, ClickOK, CropOK
  <2>3. PICK x \in Int, w \in Nat : x = Outline.x /\ w = Outline.w
    BY <1>2
  <2>4. PICK origin \in Int : picture.at = 4 * Rounded(OnMonitor(origin, x), 4)
    BY <1>2, <1>7, <2>3 DEF CropOK, Origins
  <2>5. OnMonitor(origin, x) = 4 * x /\ OnMonitor(HomeMonitor, x) = 4 * x
    BY <1>2, <2>1, UnscaledPoint
  <2>6. picture.at = 4 * x
    BY <2>4, <2>5, NothingLost
  <2>7. picture.from = 0 /\ picture.extent = w /\ picture.wide = 4 * w
    <3>1. Rounded(w * 4, 4) = w
      BY NothingLost
    <3> QED BY <1>7, <2>1, <2>3, <3>1 DEF CropOK
  <2>8. PICK shown \in Int : shown = picture.at * n + c * picture.wide /\ click.at = shown
    <3>1. SourcePoint(c) = c * w
      BY <1>4, <1>5, <2>7
    <3>2. (c * w) * 4 = c * (4 * w) /\ (4 * x) * n + c * (4 * w) \in Int
      BY <1>5
    <3> QED BY <2>1, <2>2, <2>3, <2>5, <2>6, <2>7, <3>1, <3>2
  <2>9. shown > shown - 4 * n /\ shown < shown + 4 * w + 4 * n
    BY <1>5
  <2> QED BY <1>1, <2>7, <2>8, <2>9 DEF Lands
<1>8. CASE WindowOK
  <2>1. click.at = OnMonitor(HomeMonitor, window.x) * n + SourcePoint(c) * scale
    <3>1. CASE click.path = "seat"
      BY <1>1, <1>8, <3>1 DEF GeometryInv, ClickOK, WindowOK
    <3>2. CASE click.path # "seat"
      <4>1. click.path = "pointer"
        BY <3>2 DEF GeometryInv, ClickOK
      <4>2. window.deco = 0
        BY <1>8, <4>1 DEF WindowOK
      <4>3. Outline.x = window.x
        BY <1>2, <4>2 DEF Outline
      <4>4. click.at = OnMonitor(HomeMonitor, Outline.x) * n + SourcePoint(c) * scale
        BY <1>1, <1>8, <3>2 DEF GeometryInv, ClickOK, WindowOK
      <4> QED BY <4>3, <4>4
    <3> QED BY <3>1, <3>2
  <2>2. PICK o \in Int, w \in Nat \ {0}, s \in Nat \ {0} :
           o = OnMonitor(HomeMonitor, window.x) /\ w = window.w /\ s = scale
    BY <1>2, <1>3
  <2>3. PICK e \in Nat \ {0} : /\ e = Extent(Larger(Rounded(w * s, 4), 1))
                               /\ (e - w) * s <= 4 /\ -4 <= (e - w) * s
    BY <2>2, ExtentClose
  <2>4. picture.from = 0 /\ picture.extent = e /\ picture.at = o /\ picture.wide = w * s
    BY <1>8, <2>2, <2>3 DEF WindowOK
  <2>5. click.at = o * n + (c * e) * s
    <3>1. SourcePoint(c) = c * e
      BY <1>4, <1>5, <2>4
    <3> QED BY <2>1, <2>2, <3>1
  <2>6. /\ o * n + (c * e) * s > o * n + c * (w * s) - 4 * n
        /\ o * n + (c * e) * s < o * n + c * (w * s) + w * s + 4 * n
    <3>1. e \in Int /\ w \in Nat /\ s \in Nat
      OBVIOUS
    <3> QED BY <1>1, <2>3, <3>1, NearLands, Zenon
  <2> QED BY <1>1, <2>4, <2>5, <2>6 DEF Lands
<1>9. PhysicalOK \/ CropOK \/ WindowOK
  BY DEF GeometryInv, PictureOK, AsAnswered
<1> QED BY <1>6, <1>7, <1>8, <1>9

(* A click on a preview lands within a pixel of what the preview shows       *)
(* there, for any scales and sizes, but for the pointer in a window with a   *)
(* decoration and crops at a scale other than one (pointer_coordinates.rs).  *)
THEOREM ClicksLandHolds == SpecPicture => []ClicksLand
BY GeometryStart, GeometryStep, LandsStep, PTL DEF SpecPicture

-----------------------------------------------------------------------------
(* All of it, each part at rest while another moves.                       *)

LEMMA PartsOfCaptures ==
    SpecCaptureSide => SpecFrames /\ SpecStream /\ SpecPortal /\ SpecPicture /\ SpecShots
<1>1. InitCaptureSide => InitFrames /\ InitStream /\ InitPortal /\ InitPicture /\ InitShots
  BY DEF InitCaptureSide
<1>2. [NextCaptureSide]_captureSideVars => [NextFrames]_framesVars
  BY DEF NextCaptureSide, Store, Stream, Portal, Picture, Screenshot, captureSideVars
<1>3. [NextCaptureSide]_captureSideVars => [NextStream]_streamVars
  BY DEF NextCaptureSide, Store, Stream, Portal, Picture, Screenshot, captureSideVars
<1>4. [NextCaptureSide]_captureSideVars => [NextPortal]_portalVars
  BY DEF NextCaptureSide, Store, Stream, Portal, Picture, Screenshot, captureSideVars
<1>5. [NextCaptureSide]_captureSideVars => [NextPicture]_pictureVars
  BY DEF NextCaptureSide, Store, Stream, Portal, Picture, Screenshot, captureSideVars
<1>6. [NextCaptureSide]_captureSideVars => [NextShots]_shotVars
  BY DEF NextCaptureSide, Store, Stream, Portal, Picture, Screenshot, captureSideVars
<1> QED BY <1>1, <1>2, <1>3, <1>4, <1>5, <1>6, PTL
        DEF SpecCaptureSide, SpecFrames, SpecStream, SpecPortal, SpecPicture, SpecShots

(* The store of the captures and the handshake keep their types, whichever   *)
(* part of the capture side moves.                                           *)
THEOREM CaptureTypeCorrect == SpecCaptureSide => []CaptureSideTypeOK
<1>1. SpecCaptureSide => []FramesTypeOK /\ []PortalTypeOK
  BY PartsOfCaptures, FramesTypeCorrect, PortalTypeCorrect
<1> QED BY <1>1, PTL DEF CaptureSideTypeOK

(* What is proved of the store, its previews, a stream, the handshake, the   *)
(* masks and the geometry holds of all of them together.                     *)
THEOREM CaptureSideSafe ==
    SpecCaptureSide =>
        /\ [](/\ OpensWithinLimits /\ PreviewsMapTruly
              /\ MaskCovers /\ ClicksLand /\ OnlyMaskedLeft
              /\ SnapshotIsCurrent /\ AnswersHeard)
        /\ FramesNeverGoBack /\ ReportedOpenIsOpen
<1>1. SpecCaptureSide => []OpensWithinLimits /\ []PreviewsMapTruly
  BY PartsOfCaptures, OpensWithinLimitsHolds, PreviewsMapTrulyHolds
<1>2. SpecCaptureSide => []MaskCovers /\ []ClicksLand /\ []OnlyMaskedLeft
  BY PartsOfCaptures, MaskCoversHolds, ClicksLandHolds, OnlyMaskedLeftHolds
<1>3. SpecCaptureSide => []SnapshotIsCurrent /\ []AnswersHeard
  BY PartsOfCaptures, SnapshotIsCurrentHolds, AnswersHeardHolds
<1>4. SpecCaptureSide => FramesNeverGoBack /\ ReportedOpenIsOpen
  BY PartsOfCaptures, FramesNeverGoBackHolds, ReportedOpenIsOpenHolds
<1> QED BY <1>1, <1>2, <1>3, <1>4, PTL
=============================================================================

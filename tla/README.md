# Seatgeist in TLA+

Seatgeist lets agents see and use windows of a KDE Wayland desktop that a
person is using at the same time. `seatgeistd` is the daemon between them: it
opens captures, grants each agent an exclusive lease on the window it works in,
sends the agent's input through a virtual seat of the compositor or, under a
lease, through the person's own, and stands back when the person touches the
window. This directory models the daemon and the plugins, portals and streams it
talks to, checks the models with TLC on small instances, and proves with TLAPS what
matters most of them for every value of the constants.

Paths below are relative to `src/`; `D/` stands for `crates/seatgeistd/src/`.

## Inventory

### Components that keep state

| component | state | operations | correct when |
|---|---|---|---|
| interaction sessions, `D/interaction.rs` | session id -> window, app id and pid, owner, lane, expiry | bind, clear, renew, resolve, prune to the active captures | a window has one owner, an owner one lane, at most four owners; a lease lasts until close, expiry or loss of its target |
| retained captures, `D/capture.rs` | reservations of opens in flight; session id -> source, owner, expiry, retained preview | begin/finish/fail open, reap, renew, close, snapshot, wait, invalidate, map a point | quotas hold with opens in flight; one chooser at a time; a preview used for input is not older than the user's input |
| execution records, `D/session_execution.rs` | session id -> metadata of the last action | open, clear, record | every live session has one |
| session requests, `D/main.rs` | one connection task per client; local variables across awaits | open, renew, close, close window, status, actions | the three stores stay consistent whatever overtakes a request; a refused open is undone |
| agent-seat queue, `D/agent_seat.rs` | pending actions, completion senders, registered connection and its heartbeat, a `Notify` | submit, register, take (long poll), complete, cancel for a window | an action is performed at most once, not after it was cancelled, every submitter is answered |
| agent-seat plugin, `kwin/seatgeist-agent-seat` | poll in flight; four lanes, each with its window and place | register, poll, bind a lane, execute, complete | an action goes to its own window, from where its agent left the pointer |
| activity tracker, `D/activity.rs` | backend and its generation, generation and time of last touch, per window and seat-wide | register, record, snapshot, safe since, freshness | a touch during an action is reported, and only that |
| focus lease, `D/interaction.rs` `execute_raw_action` | the seat mutex, previous window | focus, verify, inject, restore | no injection into a window that is not the target; the user's focus is not stolen back |
| window-action queue, `D/kwin_bridge.rs`; `kwin/seatgeist-bridge` | pending actions, result and acknowledgement senders, script capabilities; intents of the script | close, move, resize, arm/finish/cancel launch | an action has one outcome; a failed launch leaves no armed intent |
| bridge ownership, `D/kwin_bridge.rs` | connection, owner of the name, retry count | acquire the D-Bus name, back off | the status names the owner there is |
| launched windows, `D/launched_window.rs` | window -> client that launched it, expiry | record, check, remove | only the launching client may close without being asked |
| request pipeline, `D/main.rs` `handle_request` | six tables over the kinds of requests | route, check, execute | a request meets every check that what it does calls for |
| safety gates, `D/safety_runtime.rs`, `crates/seatgeist-policy` | panic-stop file, approvals file, accepted control requests of the last minute | set, check | no control request passes a gate that is shut; the rate is bounded |
| semantic handles and actions, `D/semantic_handle.rs`, `crates/seatgeist-atspi` | handle -> AT-SPI node; search in progress | mint, resolve, search, correlate, act | an action is on the only match, in the guarded window |
| observation after an action, `D/main.rs`, `D/semantic_settle.rs` | samples before and after | prepare, poll or listen, finish | "confirmed" has a reason |
| PipeWire capture, `crates/seatgeist-pipewire` | latest frame, one-slot mailbox, stream life | frame, wait, snapshot, close | a reader gets the latest frame or learns of the end |
| portal sessions, `crates/seatgeist-portal` | a request in flight, its signal subscription, the session | create, select, start, close | an answer is heard however early it comes; an open session is open |
| EIS, `crates/seatgeist-eis`, `D/portal_eis_session.rs` | connection, seat, capabilities, devices, plan in progress | start, read events, send a plan | nothing stays pressed, no emulation is left on |
| screenshots, `D/screenshot.rs`, `D/screenshot_image.rs`, `D/compatibility_capture_backend.rs` | files of a request: raw picture, crop, mask, preview | take, list windows, mask, tile, convert, answer | nothing shows a denied window; a point of a picture is the point of the desktop it shows |
| restore tokens, `D/capture_restore.rs` | one private file | load, save, delete | never a torn or foreign token |
| uinput, `crates/seatgeist-uinput` | a device that lives for one call | click, drag, type | what was pressed is released |

Without state of interest here: the CLI and the MCP server (each turns one call
into one request), clipboard, configuration, diagnostics, the test kit, scripts
and packaging.

### Interaction

A client sends one request at a time over a Unix socket; the daemon serves all
connections concurrently. A request goes through the checks of `handle_request`
(policy, panic stop, pause, owner, semantic handle, guard, app policy, rate), each of which
decides by a table of its own whether it applies, and is then executed.
`capture_open` resolves the window, reserves in the capture store, asks the
backend (which may ask the user), stores the slot, writes the execution record,
prunes and binds the interaction lease, and undoes the capture when the bind is
refused. An agent-seat action checks capture and lease, resolves the window,
checks that the user is not there, snapshots the activity count, submits to the
queue and judges the outcome with the count it finds afterwards. A raw action
takes the seat mutex, moves the focus, injects and gives the focus back. The
KWin plugins and the bridge script call the daemon over D-Bus: one takes and
completes agent-seat actions, one carries out window actions and publishes the
active window, one reports physical input, which is recorded, cancels what is
queued for the window, and invalidates the window's previews, in that order and
with other requests in between.

### What is hard

Each store has a mutex of its own and every request crosses several; the
compositor can crash between taking an action and completing it; timers of the
submitter, the long poll, the heartbeat and the leases race the answers; the
person acts at any time; what a grab, a snapshot, a search or a window list says
is old when it is used; signals arrive before the call that announces them
returns. `PROJECT.json` lists the hazards, each at its line.

## Modules

    AgentRequests <- AgentSeat, Preemption     (INSTANCE: implemented, used)
    AgentLeases <- InteractionSessions         (INSTANCE: implemented)
    InteractionSessions, CaptureSessions <- SessionLifecycle   (INSTANCE)
    CaptureSessions <- CaptureFrames           (EXTENDS)
    InputActivity <- Preemption                (EXTENDS)
    Queues <- AgentSeat, WindowActions, AgentLanes   (EXTENDS)

    MCSessionLifecycle   SessionLifecycle
    MCInputSide          AgentSeat, FocusLease
    MCWindowSide         InteractionSessions, Preemption, WindowActions, BridgeOwnership
    MCCaptureSide        CaptureFrames, FrameStream, PortalHandshake, PictureGeometry,
                         Screenshots
    MCRequestSide        RequestRouting, RequestGates, AgentLanes, EisSession,
                         SemanticActions, PostAction
    MCCaptureFrames, MCPreemption: one module each, for a run that is violated

### Sessions and captures

**InteractionSessions** is the lease store, one action per operation. `Bind`
and `RejectBind` are the two outcomes of `bind()`, both after the purge of
expired sessions; `Clear`, `Renew`, `RetainActive` are the methods; `Resolves`
is `resolve()`. `Age` moves the clock: an `expires_at` is the number of ticks
left, 0 for an expired lease that nothing has purged. A lane id is a UUID
minted by the owner's first session; the id of that session stands for it. When
an owner's live sessions disagree on the lane, the code takes an arbitrary one of
the map, the model any of them (`LaneChoices`).
**AgentLeases** is what that store promises the rest of the daemon, without
sessions, deadlines and purges: who holds which window, and which lane is kept for
whom. A window is granted, taken up again by an owner whose lane is still kept, or
released; a lane is forgotten when its owner holds nothing, at the latest by the next
grant. `InteractionSessions` implements it with the windows and lanes of its live
sessions and of all its stored ones (`ImplementsLeases`).

**CaptureSessions** is the capture store: reservations (`BeginOpen`,
`RefuseOpen`, `FinishOpen`, `FailOpen`), removal (`close()` and
`capture_backend_error()`), renewal, the backend's ends. `reap_ended()` asks each
session for its life and removes the dead; the operation that called it follows
under a second lock. Reaping and operation are one step here.
**CaptureFrames** adds the retained preview. A grab takes the frame from the
backend without a lock (`GrabFrame`), stores it (`RetainFrame`) and stores it
again after masking (`RetainMasked`); `InvalidateLatestFrames` is the third step
of a touch. `outdated` marks a frame as shown before the last touch, which the
code does not know.

**SessionLifecycle** composes the two stores, by INSTANCE on shared variables,
with the execution records, the seat mutex, the compositor's windows and the
request tasks. `task[q].at` is the await at which request `q` stands; each
action is what the handler does up to the next one, and its locals
(`session`, `source`, `identity`, `active`) are the values it carries across.
Each error path is a disjunct: a refused reservation, a backend error, a bind
refused by the store or because the window has no app id, a session that ended
under a renewal, a backend that fails to close, a window the script does not
close. `windows` changes freely: a window closes or its identity changes. The
queue is reduced to `Deliver` and `FailDelivery`.

**FrameStream** is what lies below one retained portal capture: the PipeWire
thread puts numbered frames into a mailbox of one, and snapshots, waits and a
close contend for the one source. **PortalHandshake** is the conversation that
opens such a capture, or a RemoteDesktop session: subscribe, call, compare the
path the portal answered with, wait for the Response; then the end of the
session, which the portal signals and the capture latches.

**Screenshots** are the requests that write a picture to a path a client names:
the steps of each source (KWin's picture of the desktop or of a window, the
portal's answer, the crop of an old one), the list of windows that follows, the
masks, each read and painted in one step (`PaintMask`) and saved over the file in
another (`SaveMask`), and the files that are left when a step fails or another
request shares the path; a denied window appears, moves and goes meanwhile.
**PictureGeometry** is the arithmetic on one axis, at quarter-pixel scales: how
large a picture and its preview are, which columns are masked for a window, and
which point of the desktop a click on the picture reaches. Its state is one
picture and one click on it, chosen from everything the bounds allow.

### Input

**AgentRequests** is the contract of a targeted input backend
(`TargetedInputBackend`): an action is asked for, taken, performed, answered.
**AgentSeat** is the queue that implements it, with the `Notify` at the level of
permits and sleepers, the long poll as the steps first take, sleep, wake or time
out, second take, and the plugin on the other side of D-Bus: calls, replies and
completions are separate steps and are lost with a connection. `Complete` may
come after the timeout, `CancelTarget` at any time, `Crash` with a reply on its
way.
**AgentLanes** is what the plugin keeps for each agent: a lane with the window it
points into and the place there, of which there are fewer than there were ever
agents. Windows shrink and close, the daemon's list of them is late, and the
daemon restarts while its actions are on their way.
**Queues** is `retain()` of a queue, which the three of them and the bridge use.

**InputActivity** is the activity tracker; **Preemption** puts agent actions
and physical events around it. An action goes quiet check, snapshot, request,
verdict; an event is recorded and then cancels the queue. The queue is
`AgentRequests`, the contract that `AgentSeat` is shown to meet.

**FocusLease** is `execute_raw_action`: every read, wait and failure of it is a
step (`pc` names the line it stands at), with the compositor's focus, the script's
updates of the active window and the plugin's reports as messages in flight.
`seen` and `fresh` are all that the daemon knows; `newsLate` and `touchLate`
mark what the two channels cannot have told it.

**EisSession** is the libei connection of a RemoteDesktop session: the server
announces a seat and devices and takes them away, the daemon reads what has been
announced when it runs a plan (`runtime`), binds capabilities, starts emulation,
presses, releases and stops. A plan is sent event by event, and the server acts
between two of them. A text whose call fails ends its plan after emulation has
begun: because it has a NUL inside, or because the libei installed has no text
calls (`cut` remembers it until the keyboard's next plan ends).

### Windows

**WindowActions** has the bridge's queue, the script's poll and callbacks, the
intents of launches, the application that opens a window late or never, the user
who opens windows of the same application, and the launched-window store on top
of it. **BridgeOwnership** is the supervisor of the D-Bus name.

### Requests

**RequestRouting** is the pipeline by tables: for each kind of request, what
each check's table says and what `execute_request` does; a request stands at a
check, which it meets, passes by or fails. **RequestGates** is what the checks
that keep state do: handles consumed, the rate limiter, whose clock is read
before its lock. **SemanticActions** is the search of a semantic action, element
by element or from the cache of an application, while the tree and the titles change, its
correlation with the guarded window, and the act. A read that fails is silent: the
element is left out, or found with a default for what could not be read (`VisitFails`,
`MisreadNode`), or nothing leads to it any more (`PassOver`: its parent's children
could not be read, or it lies below the depth limit); `missed` remembers it.
**PostAction** is what the client is told: samples of the desktop or readings of
the target, before and after, polled or on a signal, or, of a condition that asks
for nothing, after one look.

### How the MC modules combine them

TLC checks the parts of a side in one run. `MCRequestSide`, `MCWindowSide`,
`MCCaptureSide` and `MCInputSide` EXTEND components that share no state in these
models and have a variable `part`: a behaviour belongs to one part from its first
state, and the other parts stay in one initial state. What is explored is the sum
of the parts, not their product, and each property speaks of its own part. `part` restricts
nothing in a component's Next. For `SemanticActions`, `FrameStream` and `AgentLanes`
the MC module leaves out combinations that differ by names only, or of which one
side of a choice is enough (its comments say which).

Operators named `Bug...` stand before the definition they vary; each is a
plausible mistake in the code, and every checked property is violated by one of
them. They are used by no specification.

## Runs

| run (cfg) | question | instance | result |
|---|---|---|---|
| session_open (MCSessionOpen) | is every open completed or undone? | 2 requests (open, close, close window, status), 2 sessions, 2 windows, 2 owners | holds, 1.8 M states |
| session_use (MCSessionUse) | do lease and capture agree, do the requests implement the stores, and what do they keep of the claims below? | 2 requests (open, renew, act), 2 sessions, 1 window with 2 identities | holds, 0.9 M states |
| input_side (MCInputSide) | does the queue meet its contract and answer everybody; where can raw input go? | 2 submissions, 2 plugin connections; 2 raw actions, 3 windows, 2 events of the environment | holds, 0.9 M states |
| window_side (MCWindowSide) | are leases exclusive and lanes private, and do they implement the abstract lock; do verdicts match what the user did; whose is a new window; is the bridge's status true? | 3 sessions, 3 owners, 2 lanes; 2 actions and 2 events; 2 launches, 1 order, 2 new windows; 3 retries | holds, 2.2 M states |
| capture_side (MCCaptureSide) | do quotas, previews, streams and handshakes hold under races; what do pictures show and clicks reach? | see Bounds | holds, 1.7 M states |
| request_side (MCRequestSide) | does every kind of request meet its checks; whose lane, plan, element or change is it? | see Bounds | holds, 2.4 M states |
| session_pinned | "a session remains pinned to its target until close, ..." | 2 opens, 3 sessions, 2 windows | violated |
| session_delivery | "a target window has one exclusive agent owner" | 2 requests (open, close, act) | violated |
| preemption_reported | "a matching physical event ... produces user_preempted" | 1 action, 2 events, 2 backend changes | violated |
| preview_fresh | "preview-based input requires a fresh frame" | 3 opens, quota 2, 1 grab | violated |
| area_closed | "area targets fail closed when a protected window is present" | 1 request, 1 path, 1 place of the denied window | violated |
| settle_confirmed | a target-scoped confirmation means a change | 2 windows, 2 elements, 1 move | violated |

### What the passing runs show

*session_open.* `LiveSessionsWhole`: a live capture of a window was granted its lease
and has its record, unless the request that opens it is still under way; it may lose the
lease later, and does so only to the prune or the purge of an open, or to a
status request that did not find its target. A close takes the capture first.

*session_use.* `LeaseMatchesCapture`: where a session has both a lease and a capture,
they name the same window and the same owner. Of a lease without its capture, or a
capture without its lease, it says nothing: that both last equally long is not a
property of this code. Every chain of awaits implements the specification of each store
(`ImplementsInteraction`, `ImplementsCapture`). `SessionsKeepWindows` is what holds of
the two claims that session_pinned and session_delivery refute. A live session loses its
lease only to an open whose list of live captures does not have it, to a status request
that did not find its target a moment before, or, expired, to the purge of an open; a
close takes the capture first. And an action is delivered into the window of another agent only if
its own session has lost its lease by then.

*input_side.* `ImplementsRequests`: the queue refines `AgentRequests`.
`NothingLeftBehind`: an answered submission leaves neither an action nor a
sender. `SleepingPollInTime`: a poll that sleeps beside a pending action wakes
before the submitter gives up, even when the wake-up went to an abandoned poll.
`InputSettles`: every submission is answered and every raw action lets go of the
seat. `AstrayUnseenOnly`: raw input reaches another window than its own, and the
focus is taken back from the user, only after a change that the daemon's two
channels cannot have told it of. `ClosedReceivesNothing`: once a close has
returned, the session's raw input goes nowhere.

*window_side.* `WindowExclusive`, `LaneIsolation`, `LaneQuota`: leases and lanes;
`ImplementsLeases`: the store is an `AgentLeases`, whatever expires and is revived in
between.
`RecentTouchReported`: a touch after the snapshot is reported while the history is
kept; `NothingQueuedBehindTouch`: what was queued before a touch was recorded does
not outlive its cancellation. `RequestsCleanedUp`: a request that ended leaves
no action in the queue and no sender, but for the sender of a launch whose launcher
could not be asked, which the script still has to answer; and as long as the script
holds the intent of a launch that was acknowledged and then called off, its
cancellation is on the way.
`LaunchedWindowsOwned`: two launches are not given one window, and without an
approval a client closes only the window its launch was told of.
`StatusMatchesOwner`: after each round of the supervisor window actions are enabled
just when it saw the name as its own.

*capture_side.* `OpensWithinLimits`: quotas count reservations and sessions
together. `PreviewsMapTruly`: an old preview comes back only through a grab in
flight, and points of a preview map to its window but for a grab in flight or
refused. `SnapshotIsCurrent`: a capture has no frame that had been followed by
another when it was asked for, and a wait is told of a change only if there is
one; `FramesNeverGoBack` (unless two calls overlapped). `AnswersHeard`: no Response
is missed; `ReportedOpenIsOpen`: a capture reported open had not been revoked when it
was read; whether its stream still delivers is not said. `OnlyMaskedLeft`: what is left
on disk shows no denied window, unless that moved between picture and list, a mask was
saved over what another request had written since it was read, or a request failed in
between. `MaskCovers` and `ClicksLand`: at every scale, a masked window is black to its last column, and a
click on a preview reaches what the preview shows there.

*request_side.* `ChecksFitEffects`: input, window, node and image effects are
reached only by requests that met the checks the effect calls for: a kind missing
in one of six tables would show. `RateBounded`: no more requests than the limit are
admitted in a window of time that is shorter by the delay between clock and lock.
`LanesServeTheirAgent`: an action goes to the window it was authorized for, from
where its agent left the pointer, unless the plugin dropped the lane or the window
changed. `SeatLeftClean`: no plan, however it fails, leaves a key or a button pressed,
and none leaves a device emulating but the keyboard after a text that could not be
sent, until its next plan ends; a device that the state calls resumed has a retained
handle. `ActsOnRequested`: a semantic action after a search that no limit ended is on
the only match among the elements that were there all the time and were read and
reached; with a guard it is in the guarded window, or in one of the same process whose
title cannot be told from the guarded one's. `ConfirmedHasReason`: if a client asked for
a change, a confirmation rests on such a change or on a look that failed, but for a
semantic target that has text; `none` and `stable` ask for no change, and are confirmed
without one.

### Bounds

Constants are scaled so that every limit is met, and named in the cfg.

- Sessions: two lanes for three owners, and three windows, or exclusive leases
  alone would keep the third out; a TTL of one tick, so that leases expire, are
  revived and purged. Races of session requests are pairwise, hence two requests
  (three sessions in MCSessionPinned, where the victim needs a second window).
- Capture store: three opens against a quota of one (`MaxExact`; two in
  MCPreviewFresh and in the session runs), one grab. Stream: three frames of two
  revisions, which is one more than the mailbox and the latest frame hold; two
  clients and a close.
- Pictures: windows and monitors of five to seven logical pixels at scales from 1
  to 2 in quarters, and limits on the longer edge below and above them, so that
  every conversion rounds both ways. Screenshots: two requests for one path, two
  places of the denied window, which may go there and leave again: with one place every
  mask is the same, and none saved over another is noticed.
- Lanes: two agents, two lanes in the plugin's pool and three ever made, so that
  one is dropped; one change of a window and one action queued.
- Agent seat: the poll timeout is shorter than action timeout and heartbeat, as
  2 s, 3 s and 5 s are.
- Focus lease: two raw actions with the same, or with different, windows; of the
  initial choices of windows one per renaming is kept. Two steps of the
  environment are enough for a switch and a switch back, or a touch and a switch.
- Preemption: a history of one tick and `QuietTime` 0, which makes only a touch in the
  current tick fresh; `MaxBackendChanges` bounds a counter.
- Window actions: two launches of one application, since intents of two never
  meet; one stop of the script. Ownership: the retry counter saturates at three, as the
  backoff saturates.
- Gates: a limit of two in a window of three ticks, and a clock read at most one
  tick before its lock. Semantic actions: three elements, two results at most, one
  change, and one element missed if there is no guard, none if there is. Post action:
  two moves. EIS: three unread events.
- Session ids are fresh UUIDs: `minted` and `opened` remember those used, and
  end a behaviour's supply. Runs have CHECK_DEADLOCK FALSE because a finished
  request, stream or handshake is a state in which a part really stops.

**Symmetry** is used in the runs that check invariants and action properties, on
ids that are only compared. session_use and window_side also check refinement, as safety only;
input_side, which checks liveness, uses none.

**Fairness** (`FairInput`, `Fairness` of AgentSeat). Weak fairness is assumed of
the daemon's own steps of each submission (`Push`, `NotifyOne`, `Receive`,
`TimeOut`: a runnable tokio task runs), of each raw action's step (its reads and
waits all have timeouts or fail), of the handlers of polls, and of the clock.
Nothing is assumed of the compositor: `InputSettles` holds when it never polls,
takes an action and dies, or never comes up. The clock does not tick past a due
timer of the daemon (`Settled`).

### What the violated runs show

1. *session_pinned.* Request 1 reads the ids of the live captures
   (`D/main.rs:4455`). Request 2 opens a session and binds it. Request 1 prunes
   the leases to its list (4456) and drops the one of request 2. The session is
   alive, its window unchanged, and its next action fails with "no bound sticky
   session", against `docs/computer-use-modernization-plan.md:590`.
2. *session_delivery.* An action of agent A is checked and queued
   (`D/interaction.rs:435`). A's capture ends. Agent B opens the window: pruning
   drops A's lease, B's bind succeeds. The compositor takes A's action and
   delivers it to B's window, against `docs/status.md:213`.
3. *preemption_reported.* The window was touched longer ago than
   `TARGET_HISTORY_TTL` and has count 1. An action takes its snapshot; the user
   touches the window; `record_payload` drops the old entry (`D/activity.rs:170`)
   and counts the touch as the first. The count equals the snapshot, the verdict
   is "quiet", against `docs/human-input-activity.md:26`.
4. *preview_fresh.* A grab has its frame; the user touches the window and the
   preview is invalidated; the grab stores the old frame and clears the flag
   (`D/capture.rs:401`), against `docs/agent-seat.md:98`.
5. *area_closed.* The user chooses an area in the portal's dialog; no denied
   window is open. One opens before the list that follows the picture, and
   `apply_protected_window_redactions` paints its desktop region on a picture that
   begins where the user chose (`D/screenshot.rs:162`), against
   `docs/config.md:137-140`.
6. *settle_confirmed.* The reading before an action hashes the target with its
   text (`D/semantic_settle.rs:55-56`), the one after without (193-207): for an
   element with text the two differ though nothing changed, and the client is told
   that the action was confirmed, against `docs/mcp-tools.md:285`.

### Divergences without a run

Met while modelling; each is in the models as the code has it.

- Without the activity plugin the focus lease skips its checks of the user's
  input (`D/interaction.rs:705`), where
  `docs/computer-use-modernization-plan.md:703` has them fail;
  `docs/human-input-activity.md:198-199` promises an activity state after every action,
  which an error skips (`D/interaction.rs:363-372`).
- An arm timeout removes the action but does not cancel an intent that the
  script has taken already (`D/kwin_bridge.rs:371`; `docs/backends.md:145`).
- The limiter orders requests by a clock read before its lock, so that a window of
  time can hold more requests than the limit when some are overtaken
  (`docs/status.md:200`).
- A session-less raw action and `page_zoom` take no lease (`D/interaction.rs:249-250`,
  `D/input_actions.rs:275`; `docs/status.md:70`).
- An action in the agent-seat queue is still delivered after a panic stop; a
  semantic handle is consumed although a later gate refuses the request.
- An unguarded semantic action is checked against the active window's app
  (`D/window_safety.rs:86-92`), and `invoke()` does not look again at name or
  sensitivity; correlation is by containment of titles
  (`docs/computer-use-modernization-plan.md:525-528`); ambiguity is decided on
  what a limited search has seen, and an element whose name, role, children or
  actions cannot be read is silently none of it, as is what lies below the depth limit
  (`crates/seatgeist-atspi/src/lib.rs:453`, 515-518, 545, 549): of two elements of one
  name the code may act on one (`docs/mcp-tools.md:264`).
- A launch whose launcher cannot be asked whether it has ended fails without calling
  the script off (`D/main.rs:4771`; the other failures do, 4762-4788): the script keeps
  the intent until that expires, and a window that opens meanwhile is taken for the
  failed launch (`docs/backends.md:145`).
- A seat added during a later plan binds that plan's capabilities only; a libei
  without the text calls leaves emulation on when text is asked for, and so does any
  libei for a text with a NUL inside, which passes the daemon's checks
  (`D/input_actions.rs:469`, `crates/seatgeist-eis/src/lib.rs:1399`;
  `docs/plan.md:863`).
- A portal capture whose PipeWire stream has ended stays open in what is reported:
  only the session's `closed` is looked at
  (`crates/seatgeist-pipewire/src/session.rs:165-185`, 293-299). A monitor of the
  portal session that fails is latched as a closed session
  (`crates/seatgeist-portal/src/lib.rs:1270-1284`) where `docs/mcp-tools.md:182` has a
  reason of its own.
- Two requests that write to one path paint their masks on copies and save them
  over each other (`D/screenshot_image.rs:90-110`).
- `wait_for_frame` answers at once, with `timed_out`, when the first frame it
  takes is unchanged.
- A window that the user opens while a launch of the same application is armed is
  taken for the launch (`kwin/seatgeist-bridge/contents/code/main.js:241`),
  recorded as the client's own (`D/main.rs:4806`), and closed for it without an
  approval (`D/main.rs:3471`; `docs/mcp-tools.md:111`).
- libei offers five capabilities to a session that asked for keyboard and
  pointer, and a `match` on at most four of them panics
  (`crates/seatgeist-eis/src/lib.rs:1238`).
- For a monitor or a virtual output the daemon answers a revision of its own
  (`D/main.rs:2910`), which the backend's wait never finds equal
  (`crates/seatgeist-pipewire/src/session.rs:321`): such a wait returns at once
  (`docs/capture-backends.md:4`).
- A frame that is refused to the client has its file removed (`D/main.rs:2146`) but
  stays the retained preview (2131); between the two updates of the preview
  (`D/main.rs:2143-2151`) a point is mapped by a frame that is not annotated
  (`docs/mcp-tools.md:176`).
- Clicks on a preview that go through the pointer are shifted by a server-side
  decoration (`D/main.rs:2967`); a crop of a visible window is answered as local to
  the window with physical extents (`D/compatibility_capture_backend.rs:885`;
  `docs/capture-backends.md:177`); a preview that keeps its proportions is answered
  with the size that was asked for (`docs/config.md:161`).
- A tile outside the picture, or a conversion that fails, leaves the unmasked picture
  or a temporary file; the file the portal wrote is never removed
  (`D/screenshot.rs:436`).
- The plugin drops the lane used longest ago, of a live agent or not
  (`agentseatplugin.cpp:257`; `docs/agent-seat.md:55-57`); a pointer that a shrunken
  window has left outside makes it refuse keys; a drag that ends outside
  the client area has already clicked where it began.
- A touch of another window can prune the count of the target and make its
  action look preempted (`D/activity.rs:172`).

## Proofs

An `X_proofs` module EXTENDS the component it is about, or the MC module of a side
and with it the side's components, and is checked by TLAPS to the last leaf. The theorems hold for all values
of the constants that satisfy the modules' ASSUMEs; these say that numbers are
naturals (quotas, TTLs and retry limits positive; the poll's timeout shorter than
the action's; the limiter's window longer than the delay between clock and lock; a
monitor at least a pixel wide), that owners are finitely many, and that the null
values are none of the values they stand beside. Sets of requests, sessions,
windows, actions, events, launches, connections and agents may be infinite.

| module | theorem | states |
|---|---|---|
| InteractionSessions_proofs | TypeCorrect, WindowExclusiveHolds, LaneIsolationHolds, LaneQuotaHolds | the lease store of the run window_side |
| | LeasesImplemented, LeasesPassOverFree | it implements AgentLeases; no window goes from one agent to another in one step, and a holder keeps its lane |
| CaptureSessions_proofs | StoreWithinLimits | the capture store's quotas |
| SessionLifecycle_proofs | LifecycleTypeCorrect, LiveSessionsWholeHolds, LeaseMatchesCaptureHolds | what the chains of awaits keep consistent of the three stores |
| | InteractionRefined, CaptureRefined | they implement the two stores |
| | DaemonKeepsAgentsApart, DaemonLeases | so the stores' theorems hold in the daemon, which is an AgentLeases |
| | SessionsKeepWindowsHolds | why a session loses its lease, and whose action reaches which window |
| InputSide_proofs | SeatTypeCorrect, NothingLeftBehindHolds, SleepingPollInTimeHolds | the agent-seat queue (AgentSeat) |
| | RequestsRefined | it implements AgentRequests |
| | FocusTypeCorrect, AstrayUnseenOnlyHolds, ClosedReceivesNothingHolds | where raw input goes (FocusLease) |
| | InputTypeCorrect, InputSideSafe | all of it in the specification that the run input_side checks |
| WindowSide_proofs | StatusMatchesOwnerHolds | the bridge's name (BridgeOwnership) |
| | WindowTypeCorrect, RequestsCleanedUpHolds, LaunchedWindowsOwnedHolds | the window actions (WindowActions) |
| | PreemptionTypeCorrect, RecentTouchReportedHolds, NothingQueuedBehindTouchHolds | the user at the agents' windows (Preemption) |
| | SideTypeCorrect, WindowSideSafe | all of it, and the leases, in the specification of window_side |
| CaptureSide_proofs | FramesTypeCorrect, OpensWithinLimitsHolds, PreviewsMapTrulyHolds | the quotas with grabs and previews; what old previews come from (CaptureFrames) |
| | PortalTypeCorrect, AnswersHeardHolds, ReportedOpenIsOpenHolds | the conversation with the portal (PortalHandshake) |
| | SnapshotIsCurrentHolds, FramesNeverGoBackHolds | the frames of a stream (FrameStream) |
| | OnlyMaskedLeftHolds | the files of screenshots (Screenshots) |
| | MaskCoversHolds, ClicksLandHolds | masks and clicks at every scale and size (PictureGeometry) |
| | CaptureTypeCorrect, CaptureSideSafe | all of it in the specification of capture_side |
| RequestSide_proofs | RoutingTypeCorrect, ChecksFitEffectsHolds | the tables of checks and effects (RequestRouting) |
| | LanesServeTheirAgentHolds | the agents' pointers (AgentLanes) |
| | SemanticTypeCorrect, ActsOnRequestedHolds | semantic actions (SemanticActions) |
| | PostTypeCorrect, ConfirmedHasReasonHolds | confirmations (PostAction) |
| | RateBoundedHolds | the rate limiter (RequestGates) |
| | SeatLeftCleanHolds | EIS plans (EisSession) |
| | RequestTypeCorrect, RequestSideSafe | all of it in the specification of request_side |
| Queues_proofs | (lemmas) | what `Without` keeps of a queue; the least number with a property |

**How the invariants become inductive.** Each component has one invariant, of which
its proofs module shows that it holds initially, by one lemma for each action that it is
kept, and that the theorems follow.

- *InteractionSessions.* `bind()` decides on unexpired sessions only, so the
  properties are not inductive over `Live`; they are over all stored sessions,
  because `bind()` purges before it decides. `Inv` adds that the lane of a stored
  session was minted by a session bound earlier (`lane \in minted`): a fresh session
  that mints a lane then cannot collide with one that its minter has left behind.
  Of the refinement, the abstract lanes are those of all stored sessions, live or not:
  an owner's stored sessions share a lane, so a session that is cleared or purged takes
  the lane with it only as the owner's last. A renewal that revives an expired lease is a
  `Resume`, which needs that no other owner has bound the window meanwhile: that
  is `WindowExclusive` over the stored sessions.
- *CaptureSessions.* The quotas are about cardinalities, so `CaptureInv` adds that
  reservations and slots are finite sets; `SmallerSet` counts two sets together, which
  is why `finish_open()` turns a reservation into a slot without a new check.
- *CaptureFrames.* `GrabsOvertaken`: what a grab holds is outdated only if an input
  has overtaken it. A step with previews is a step of the store
  (`FramesStepOfStore`), from which the quotas follow.
- *SessionLifecycle.* `LifecycleInv` consists of the invariants of the stores, cited
  from their modules by INSTANCE, of what each request knows at each await
  (`TaskOK`), and of who answers for a live session that was not granted its lease, or has
  no record (`Pinned`, `Recorded`). A bind may happen only under an id that is fresh in the store:
  `minted \subseteq opened`, the capture store having handed it out once. The same
  invariant makes each step one operation of each store or none, which is the
  refinement. For `SessionsKeepWindows`, `ActOK` says of an action that its owner
  is the one of the open that made its session, should that open still run, and of the
  lease as long as there is one; and that, once resolved, its window is the lease's. It is
  inductive because an id is opened and bound once (`opened`, `minted`): a lease that is
  gone does not come back for another window or owner.
- *AgentSeat.* `ActionOK`: an action is in the queue at most once, only while its submitter waits for a
  sender that nobody has used and no poll has taken it. `PollOK`: the connection that is
  registered and asleep has waited at least as long as anything in the queue, which
  with the shorter timeout is `SleepingPollInTime`; a reply on its way holds an
  action that was taken, not performed, and is in no other reply.
- *FocusLease.* `NewsOK`: the updates in flight end with the window that has the
  focus, so what the daemon has read is either true or marked late. `HolderOK`
  says for each line of `execute_raw_action` where the focus is if neither channel
  has anything left to tell.
- *BridgeOwnership.* What a round has found out is true of the connection until the
  next one (`OwnershipInv`); it needs that a name is only requested on a connection that is up.
- *WindowActions.* `LaunchOK`, `OrderOK` and `WindowOK` say where the one message
  about a launch, an order or a window can be: in the queue, in a reply, with the
  script, or in a call back, and never in two of these places. That is why a
  timeout that removes the queued order and the sender forgets all of the request.
  `SenderInv`: what a launch that could not be asked leaves behind is with the script,
  or on the way back from it.
- *Preemption.* `CountsOn`: as long as the target's history is kept its count has not
  fallen below an action's snapshot, and exceeds it once the target was touched.
  `EventOK`: the handler of a touch, on its way to cancel, covers everything that was queued
  for its window when it recorded the touch.
- *PortalHandshake.* `PortalInv`: whoever waits listens on the path the portal
  answers on, the expected one until the call has returned and the real one after;
  and a capture that can still be answered knows its session.
- *FrameStream.* `StreamInv`: the mailbox is empty, broken or holds the last frame
  sent, never an older one; what a call is encoding is no older than the call
  (`CallOK`), and as long as no two calls overlapped the answers follow the order of
  the frames (`InOrder`).
- *Screenshots.* `ShotInv` says of each file, output, full picture or composed copy,
  that it shows nothing denied, or that the request whose picture it holds has yet to
  mask or remove it, or that one failed in between (`OutputAt`, `FullAt`,
  `ComposedAt`); and of a mask that is painted and not yet saved, that it covers what
  its copy shows.
- *PictureGeometry.* `PictureOK` and `ClickOK`: the sizes and places in the state are
  what the conversions make of the window. The rest is arithmetic: what a
  division with rounding leaves (`ColumnsCover`), that extents are off by less than a
  pixel (`ExtentClose`), and that a click comes back into its column (`NearLands`).
- *RequestRouting.* `RoutingInv`: a request has met each check before the one at
  which it stands (`Met`), and does nothing before the last. That the tables agree is
  then a fact about kinds: what has an effect on the desktop is classed as control
  (`ControlsAreControl`), and where a table makes an exception, the effect
  lands elsewhere or is authorized later (`EffectTable`, `AuthorizedLate`).
- *AgentLanes.* `LaneInv`: a lane is minted once, no two agents have one, and the
  plugin's lane is as its agent's last action left it, or dropped (`AsLeft`).
- *SemanticActions.* `VisitedFound`: a match that was there all the time and was not
  missed has been found once the search has visited it, so "the only match" is true of
  what a search without limit found. `Guarded`: the list that was read for the guard does not exclude
  the match.
- *PostAction.* What was read of the desktop differs from it only by what has moved
  since the first look: `ActiveOK` for the active window, `TargetOK` for the
  element, `PollingOK` for the samples in between.
- *RequestGates.* `WindowInQueue`: the acceptances within the window are the last
  entries of the limiter's queue, in the same order, each with a time read at most
  `MaxDelay` before it. The queue having at most `Limit` entries, so has the window.
- *EisSession.* The daemon knows the server's devices only as far as it has read, so the
  invariant speaks of what it would know had it read everything (`CaughtUp`), for
  every set of capabilities it could have asked for. `SendingOK`: whatever is held
  while a plan is sent is lifted by the rest of the plan, and so is the emulation unless
  the keyboard's last plan was `cut`. Reading is a fold over
  the unread events; that one more event is one more step of the fold
  (`AfterAppend`) is proved from the equation of this fold by taking the shortest sequence for
  which it would fail (`LeastNat`, from the well-ordering of the naturals).

**From the parts to the runs.** A step of a side is a step of one part and leaves the
variables of the others, so the side's specification implies that of each part
(`SeatIsPart`, `FocusIsPart`, `PartsOfSide`, ...), and the theorems about the parts make
those about the side: what the run checks on its instance is a theorem about the
very specification that it names. `SeatSafety` and `FocusSafety` are AgentSeat and
FocusLease without fairness, of which no theorem needs any.

`Quiet` and the lemmas named `...Kept` state once what a step leaves alone.

**What proving changed.** The ownership invariant needed the conjunct about the
connection. In WindowActions' type invariant a conjunct that was indented by one
column too many, and in PortalHandshake's two conjuncts on one line before an
implication, had made these weaker than they read; both are as meant now, and TLC
has checked them again. The two assumptions of SessionLifecycle
(`LimitsAssumption`, `IdsAssumption`) are those of its stores. The history `admitted`
of RequestGates is the sequence of the ages of the acceptances and not a count of each age, so that an
acceptance can be set beside its entry in the limiter's queue. EisSession sends a plan one event
at a time: in one step, it had left out a server that takes a device away between the
press and the release. PictureGeometry assumes that a monitor has a
pixel: of a monitor that rounds to none no click has a place.

**Only model-checked.** Liveness (`InputSettles`) under its fairness, and what is
ENABLED. The properties
of the violated runs are false. No module declares a recursive operator.

## Abstractions

- One step for reaping and the operation that follows; one for the verification
  of a D-Bus caller and its registration.
- The transit of a physical event and its recording are one step in Preemption,
  where only the daemon's receipt orders events, as `record_payload` says of
  itself; in FocusLease the transit is a step, because the user acts between.
- The quiet check and the snapshot of an action are two steps, as in the code. A
  touch between them is in the model and goes unreported.
- A registration may be late but is not lost; the code sends it once.
- Sources are windows and one `Chooser` for all that the user picks. In
  FocusLease some window always has the focus.
- A kind of request stands for those that all tables treat alike
  (RequestRouting names them).
- What a gate only reads may decide either way: approvals, configured levels,
  the comparison of a guard's fields.
- A reading after a semantic action for which no settling was asked
  (`not_requested`) confirms nothing and is left out of PostAction.
- End reasons, status texts, journal entries and metadata are left out.

## Not modelled

- **Restore tokens**: the backend that uses them is not reachable in the daemon,
  which wires the routed KWin backend (`D/main.rs:573`).
- **CLI and MCP server**: they translate one call at a time into one request, and
  keep no state that a request depends on; the kinds they send are in RequestRouting.
- **uinput**: a device is created, used and destroyed within one call.
- **Pixels and encodings**: of a picture its size, what it shows and what is masked
  in it are modelled.
- **Clipboard, configuration, diagnostics, commands, journal contents, test kit,
  scripts, packaging**: I/O and formatting without shared state.

## Plan

1. An abstract limiter, which RequestGates implements up to the delay between clock
   and lock; an abstract stream of frames, which FrameStream implements.
2. Larger instances of RequestGates and EisSession in the run request_side.

----------------------------- MODULE EisSession -----------------------------
(* A portal RemoteDesktop session of the daemon and the libei connection it *)
(* drives (seatgeist-eis, portal_eis_session.rs): the compositor's EIS      *)
(* server announces a seat and devices, which may go at any time; the       *)
(* daemon reads what has been announced only when it runs a plan, and then  *)
(* sends the plan to one device, event by event, while the server goes on.  *)
(* One session is followed: another one only takes its place in the store.  *)
(* The server has one device per kind.                                      *)
EXTENDS Naturals, Sequences, FiniteSets, SequencesExt

CONSTANT MaxUnread      \* bound on the events that wait to be read

ASSUME UnreadAssumption == MaxUnread \in Nat

VARIABLES
    session,          \* of the session: "none", "starting", "stored", "panicked"
    devices,        \* the portal devices that were asked for
    textApi,        \* the installed libei has the text calls
    link,           \* the server's side: "new", "open", "gone"
    seat,           \* capabilities of the server's seat, {} without one
    device,         \* the server's devices
    unread,         \* events sent and not yet read
    runtime,        \* EisRuntimeState and LibeiSenderContext.retained_devices
    sending,        \* the device of the plan under way, and what is left to send
    emulating,      \* devices on which emulation was started
    held,           \* keys and buttons held down: <<device, code>>
    cut             \* history: the keyboard's last plan ended before its StopEmulating

server == <<link, seat, device>>
eisVars == <<session, devices, textApi, server, unread, runtime, sending, emulating, held, cut>>

KeyboardCapabilities == {"Keyboard", "Text"}
PointerCapabilities == {"PointerAbsolute", "Button", "Scroll"}
Capabilities == KeyboardCapabilities \cup PointerCapabilities
Devices == {"keyboard", "pointer"}
CapabilitiesOf(d) == IF d = "keyboard" THEN KeyboardCapabilities ELSE PointerCapabilities

\* requested_eis_capabilities()
Requested(asked) == UNION {CapabilitiesOf(d) : d \in asked}

DeviceStates == [Devices -> {"none", "paused", "resumed"}]
Idle == [device |-> "none", events |-> <<>>]
NoDevices == [d \in Devices |-> "none"]
Disconnected == [connected |-> FALSE, bound |-> {}, devices |-> NoDevices,
                 retained |-> {}, panic |-> FALSE]

InitEis ==
    /\ session = "none" /\ devices = {} /\ textApi \in BOOLEAN
    /\ link = "gone" /\ seat = {} /\ device = NoDevices
    /\ unread = <<>> /\ runtime = Disconnected
    /\ sending = Idle /\ emulating = {} /\ held = {} /\ cut = FALSE

-----------------------------------------------------------------------------
(* The server.                                                             *)

Announce(event) ==
    /\ Len(unread) < MaxUnread
    /\ unread' = Append(unread, event)

Release(gone) ==
    /\ emulating' = emulating \ gone
    /\ held' = {h \in held : h[1] \notin gone}

ServerConnects ==
    /\ link = "new" /\ link' = "open"
    /\ Announce([type |-> "Connect"])
    /\ UNCHANGED <<seat, device, emulating, held>>

ServerAddsSeat(capabilities) ==
    /\ link = "open" /\ seat = {} /\ seat' = capabilities
    /\ Announce([type |-> "SeatAdded", capabilities |-> capabilities])
    /\ UNCHANGED <<link, device, emulating, held>>

ServerRemovesSeat ==
    /\ link = "open" /\ seat # {} /\ seat' = {}
    /\ device' = NoDevices /\ Release(Devices)
    /\ Announce([type |-> "SeatRemoved"])
    /\ UNCHANGED link

\* A device is added once the client has bound a capability of it.
ServerChangesDevice(d) ==
    /\ link = "open"
    /\ \/ /\ device[d] = "none" /\ CapabilitiesOf(d) \cap seat \cap runtime.bound # {}
          /\ device' = [device EXCEPT ![d] = "paused"]
          /\ Announce([type |-> "DeviceAdded", device |-> d])
       \/ /\ device[d] = "paused"
          /\ device' = [device EXCEPT ![d] = "resumed"]
          /\ Announce([type |-> "DeviceResumed", device |-> d])
       \/ /\ device[d] = "resumed"
          /\ device' = [device EXCEPT ![d] = "paused"]
          /\ Announce([type |-> "DevicePaused", device |-> d])
       \/ /\ device[d] # "none"
          /\ device' = [device EXCEPT ![d] = "none"]
          /\ Announce([type |-> "DeviceRemoved", device |-> d])
    /\ Release({e \in Devices : device'[e] # "resumed"})
    /\ UNCHANGED <<link, seat>>

ServerDisconnects ==
    /\ link = "open" /\ link' = "gone"
    /\ seat' = {} /\ device' = NoDevices /\ Release(Devices)
    /\ Announce([type |-> "Disconnect"])

Server ==
    /\ \/ ServerConnects \/ ServerRemovesSeat \/ ServerDisconnects
       \/ \E c \in {Capabilities, Capabilities \ {"Text"}} : ServerAddsSeat(c)
       \/ \E d \in Devices : ServerChangesDevice(d)
    /\ UNCHANGED <<session, devices, textApi, runtime, sending, cut>>

-----------------------------------------------------------------------------
(* Reading what the server has sent.                                       *)

\* Plausible bug: a paused device stays retained.
BugRetainedAfter(retained, event) ==
    CASE event.type = "DeviceResumed" -> retained \cup {event.device}
      [] event.type = "DeviceRemoved" -> retained \ {event.device}
      [] event.type \in {"Disconnect", "SeatRemoved"} -> {}
      [] OTHER -> retained

\* update_retained_devices()
RetainedAfter(retained, event) ==
    CASE event.type = "DeviceResumed" -> retained \cup {event.device}
      [] event.type \in {"DevicePaused", "DeviceRemoved"} -> retained \ {event.device}
      [] event.type \in {"Disconnect", "SeatRemoved"} -> {}
      [] OTHER -> retained

\* upsert_device(), and the loss of one; a pause of an unknown device is lost.
DevicesAfter(known, event) ==
    CASE event.type = "DeviceAdded" -> [known EXCEPT ![event.device] = "paused"]
      [] event.type = "DeviceResumed" -> [known EXCEPT ![event.device] = "resumed"]
      [] event.type = "DevicePaused" /\ known[event.device] # "none" ->
             [known EXCEPT ![event.device] = "paused"]
      [] event.type = "DeviceRemoved" -> [known EXCEPT ![event.device] = "none"]
      [] event.type \in {"Disconnect", "SeatRemoved"} -> NoDevices
      [] OTHER -> known

\* bind_available_seat_capabilities(): the plan's, as far as the seat has them.
\* bind_seat_capability_slice() passes on four at most.
BoundAfter(bound, event, wanted) ==
    CASE event.type = "SeatAdded" -> wanted \cap event.capabilities
      [] event.type \in {"Disconnect", "SeatRemoved"} -> {}
      [] OTHER -> bound

\* libei_event_snapshot(), update_retained_devices() and apply_snapshot()
Read(state, event, wanted) ==
    LET bound == BoundAfter(state.bound, event, wanted) IN
    [connected |-> event.type = "Connect" \/ (state.connected /\ event.type # "Disconnect"),
     bound |-> bound,
     devices |-> DevicesAfter(state.devices, event),
     retained |-> RetainedAfter(state.retained, event),
     panic |-> state.panic \/ Cardinality(bound) > 4]

\* dispatch_pending_with_bindings() reads to the end.
Dispatched(wanted) ==
    FoldLeft(LAMBDA state, event : Read(state, event, wanted), runtime, unread)

-----------------------------------------------------------------------------
(* The session.                                                            *)

DropSession ==
    /\ link' = "gone" /\ seat' = {} /\ device' = NoDevices
    /\ unread' = <<>> /\ runtime' = Disconnected
    /\ emulating' = {} /\ held' = {} /\ cut' = FALSE

\* remote_desktop_eis_start(), once the portal has handed over the connection
StartEis(asked) ==
    /\ session \in {"none", "panicked"}
    /\ session' = "starting" /\ devices' = asked
    /\ link' = "new"
    /\ UNCHANGED <<textApi, seat, device, unread, runtime, sending, emulating, held, cut>>

\* One round of initialize_eis_runtime(): refresh_for_plan(), and replace()
InitializeRuntime ==
    /\ session = "starting"
    /\ LET read == Dispatched(Requested(devices))
           usable == /\ read.connected /\ read.bound # {}
                     /\ \E d \in Devices : read.devices[d] = "resumed"
       IN \/ /\ read.panic
             /\ session' = "panicked" /\ DropSession
          \/ /\ ~read.panic
             /\ runtime' = read /\ unread' = <<>>
             /\ session' = IF usable THEN "stored" ELSE "starting"
             /\ UNCHANGED <<server, emulating, held, cut>>
    /\ UNCHANGED <<devices, textApi, sending>>

InitializationTimesOut ==
    /\ session = "starting"
    /\ session' = "none" /\ DropSession
    /\ UNCHANGED <<devices, textApi, sending>>

\* remote_desktop_eis_stop(), or another session is stored: the store's mutex
\* is held while a plan is sent.
StopEis ==
    /\ session = "stored" /\ sending = Idle
    /\ session' = "none" /\ DropSession
    /\ UNCHANGED <<devices, textApi, sending>>

-----------------------------------------------------------------------------
(* Plans.                                                                  *)

Start == [event |-> "StartEmulating"]
Stop == [event |-> "StopEmulating"]
Frame == [event |-> "Frame"]
Motion == [event |-> "PointerMotionAbsolute"]
Press(k) == [event |-> "Press", code |-> k]
Lift(k) == [event |-> "Release", code |-> k]
Utf8(nul) == [event |-> "TextUtf8", nul |-> nul]
TextPress == [event |-> "TextKeysym", press |-> TRUE]
TextLift == [event |-> "TextKeysym", press |-> FALSE]

\* A text may have a NUL inside: neither validate_text() nor the plan minds.
Texts == {"text_utf8", "text_with_nul", "text_keysyms"}
Plans == Texts \cup {"key_combo", "move", "click", "double_click", "drag", "scroll"}

\* required_capabilities
Required(plan) ==
    CASE plan \in Texts -> {"Text"}
      [] plan = "key_combo" -> {"Keyboard"}
      [] plan = "move" -> {"PointerAbsolute"}
      [] plan \in {"click", "double_click", "drag"} -> {"PointerAbsolute", "Button"}
      [] plan = "scroll" -> {"Scroll"}

Click == <<Press("button"), Frame, Lift("button"), Frame>>

\* Plausible bug: a drag ends where it was led to, with the button down.
BugDrag == <<Motion, Frame, Press("button"), Frame, Motion, Frame>>

Drag == <<Motion, Frame, Press("button"), Frame, Motion, Frame, Lift("button"), Frame>>

\* The events of plan_*(), between StartEmulating and StopEmulating.
Body(plan) ==
    CASE plan \in {"text_utf8", "text_with_nul"} -> <<Utf8(plan = "text_with_nul"), Frame>>
      [] plan = "text_keysyms" -> <<TextPress, TextLift, Frame>>
      [] plan = "key_combo" -> <<Press("modifier"), Press("key"), Frame,
                                 Lift("key"), Lift("modifier"), Frame>>
      [] plan = "move" -> <<Motion, Frame>>
      [] plan = "click" -> <<Motion, Frame>> \o Click
      [] plan = "double_click" -> <<Motion, Frame>> \o Click \o Click
      [] plan = "drag" -> Drag
      [] plan = "scroll" -> <<[event |-> "ScrollDiscrete"], Frame,
                              [event |-> "ScrollStop"], Frame>>

Events(plan) == <<Start>> \o Body(plan) \o <<Stop>>

\* The libei calls for text may be missing, and none takes a NUL.
Fails(event) ==
    \/ event.event \in {"TextUtf8", "TextKeysym"} /\ ~textApi
    \/ event.event = "TextUtf8" /\ event.nul

\* select_resumed_device_for_plan()
Selectable(state, plan) ==
    {d \in Devices : state.devices[d] = "resumed" /\ Required(plan) \subseteq CapabilitiesOf(d)}

\* execute_ready_plan(): dispatch_pending_for_plan(), the readiness, and the
\* device.  A pointer plan may also find no region under its points.
ExecutePlan(plan) ==
    /\ session = "stored" /\ sending = Idle
    /\ LET read == Dispatched(Required(plan))
           ready == IF read.connected /\ Required(plan) \subseteq read.bound
                       THEN Selectable(read, plan) \cap read.retained ELSE {}
       IN /\ runtime' = read /\ unread' = <<>>
          /\ \/ /\ ready = {} \/ "PointerAbsolute" \in Required(plan)
                /\ UNCHANGED sending
             \/ \E d \in ready : sending' = [device |-> d, events |-> Events(plan)]
    /\ UNCHANGED <<session, devices, textApi, server, emulating, held, cut>>

\* What the server makes of an event for a device.
Effect(d, event) ==
    /\ emulating' = CASE event.event = "StartEmulating" -> emulating \cup {d}
                      [] event.event = "StopEmulating" -> emulating \ {d}
                      [] OTHER -> emulating
    /\ held' = CASE event.event = "Press" -> held \cup {<<d, event.code>>}
                 [] event.event = "Release" -> held \ {<<d, event.code>>}
                 [] OTHER -> held

\* apply_plan_to_sink(): one event; the first that fails ends the plan.  A
\* server that has paused or removed the device in the meantime ignores it.
SendEvent ==
    /\ sending # Idle
    /\ LET event == Head(sending.events)
           rest == Tail(sending.events)
       IN /\ sending' = IF Fails(event) \/ rest = <<>> THEN Idle
                        ELSE [sending EXCEPT !.events = rest]
          /\ IF ~Fails(event) /\ device[sending.device] = "resumed"
                THEN Effect(sending.device, event)
                ELSE UNCHANGED <<emulating, held>>
          /\ cut' = (Fails(event) \/ (cut /\ ~(event = Stop /\ sending.device = "keyboard")))
    /\ UNCHANGED <<session, devices, textApi, server, unread, runtime>>

NextEis ==
    \/ Server
    \/ \E asked \in SUBSET Devices \ {{}} : StartEis(asked)
    \/ InitializeRuntime \/ InitializationTimesOut \/ StopEis
    \/ \E plan \in Plans : ExecutePlan(plan)
    \/ SendEvent

SpecEis == InitEis /\ [][NextEis]_eisVars

-----------------------------------------------------------------------------
(* The context retains the very devices that the runtime state has as       *)
(* resumed: a device selected for a plan is never one that was let go.      *)
ResumedIsRetained ==
    runtime.retained = {d \in Devices : runtime.devices[d] = "resumed"}

(* A plan that is over leaves no key and no button down, and no device       *)
(* emulating but the keyboard after a text that could not be sent: a plan    *)
(* ends at the call that fails, before its StopEmulating, and the keyboard   *)
(* stays so until the next of its plans ends (lib.rs:566, 1399).             *)
NothingLeftDown ==
    sending = Idle =>
        /\ held = {}
        /\ emulating \subseteq {"keyboard"}
        /\ emulating # {} => cut

(* Whatever the server does, between the events of a plan as well, and       *)
(* wherever a plan stops, nothing stays pressed, only a text that failed     *)
(* leaves its device emulating, and the retained devices fit the announced   *)
(* ones (lib.rs:566, 1008).                                                  *)
SeatLeftClean == ResumedIsRetained /\ NothingLeftDown
=============================================================================

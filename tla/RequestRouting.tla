--------------------------- MODULE RequestRouting ---------------------------
(***************************************************************************)
(* Which of the daemon's checks a request meets (handle_request in         *)
(* main.rs): every check decides by tables over the kinds of requests      *)
(* whether it applies, apart from the others and from execute_request(),   *)
(* which decides what the request does.  A kind of request that is missing *)
(* in one of the tables passes that check.  The stores the checks consult  *)
(* are in RequestGates, CaptureSessions and InteractionSessions: a check   *)
(* that applies may decide either way.                                     *)
(***************************************************************************)
EXTENDS Naturals, Sequences

VARIABLES
    demand,         \* the request, its client and what it carries
    config,         \* the daemon's settings
    stop,           \* index of the check it stands at; past the last: executing
    cleared,        \* the checks that applied to it and let it pass
    doing           \* what it does: "nothing", or an effect and on what

routingVars == <<demand, config, stop, cleared, doing>>

-----------------------------------------------------------------------------
(* The kinds of requests, by what the tables tell apart.                    *)

Pointing == {"move_pointer", "click_pointer", "drag_pointer"}
RawKinds == Pointing \cup {"type_text", "key_combo", "scroll_pointer"}
NamedKinds == {"click_button", "set_text_field", "focus_text_field", "activate_tab",
               "activate_link", "toggle_check", "set_value", "select_item", "select_menu"}
NodeKinds == {"accessibility_invoke", "accessibility_set_text", "accessibility_insert_text",
              "accessibility_delete_text", "accessibility_copy_text", "accessibility_cut_text",
              "accessibility_paste_text", "accessibility_set_caret",
              "accessibility_set_selection"}
WindowKinds == {"focus_window", "close_window", "move_window", "launch_window", "resize_window"}
PortalKinds == {"remote_desktop_session_probe", "remote_desktop_eis_probe",
                "remote_desktop_eis_start"}
FrameKinds == {"capture_snapshot", "capture_wait"}
LifecycleKinds == {"capture_session_renew", "capture_session_close"}
ReadKinds == {"focused_accessibility_tree", "accessibility_find",
              "accessibility_text_attributes"}
\* health stands for the other status requests, list_windows for the other
\* looks at the desktop.
PolicyKinds == {"health", "set_panic_stop", "remote_desktop_eis_stop"} \cup LifecycleKinds
LookKinds == {"list_windows", "capture_open"} \cup FrameKinds \cup ReadKinds
ImageKinds == {"observe", "screenshot"}
ClipboardKinds == {"clipboard_get", "clipboard_set"}
Kinds == RawKinds \cup NamedKinds \cup NodeKinds \cup WindowKinds \cup PortalKinds
           \cup PolicyKinds \cup LookKinds \cup ImageKinds \cup ClipboardKinds \cup {"page_zoom"}

ReturnsAction == RawKinds \cup NamedKinds \cup NodeKinds \cup WindowKinds
                   \cup {"page_zoom", "clipboard_set"}

\* Marked destructive, or labelled so; a secret label; the full resolution;
\* or a pointer that is asked for.
MarkedKinds == {"key_combo", "accessibility_invoke", "click_button", "select_menu",
                "set_text_field", "focus_text_field"} \cup ImageKinds \cup PortalKinds
SessionField == RawKinds \cup {"close_window"} \cup FrameKinds \cup LifecycleKinds
Whose == {"none", "own", "foreign"}

\* The session of the request, that of the image after the action, the guards,
\* coordinates that are local to a window, and the client: an MCP server, and
\* a launch that activates.
Demands ==
    {d \in [kind: Kinds, marked: BOOLEAN, session: Whose, image: Whose, guarded: BOOLEAN,
            targeted: BOOLEAN, local: BOOLEAN, mcp: BOOLEAN] :
        /\ d.marked => d.kind \in MarkedKinds
        /\ d.session # "none" => d.kind \in SessionField
        /\ d.kind \in FrameKinds \cup LifecycleKinds => d.session # "none"
        /\ d.image # "none" => d.kind \in ReturnsAction
        /\ d.guarded => d.kind \in (ReturnsAction \ {"clipboard_set"}) \cup PortalKinds
        /\ d.kind = "page_zoom" => d.guarded
        /\ d.targeted => d.kind \in NamedKinds
        /\ d.local => d.kind \in Pointing
        /\ d.mcp => d.kind \in {"focus_window", "launch_window"}}

\* Plausible bug: a new kind of request is put with the status requests.
BugSafetyClass(d) ==
    CASE d.kind \in PolicyKinds \cup {"page_zoom"} -> "Policy"
      [] d.kind \in ImageKinds -> IF d.marked THEN "FullResolutionScreenshot" ELSE "Observe"
      [] d.kind \in LookKinds -> "Observe"
      [] d.kind = "clipboard_get" -> "ClipboardRead"
      [] d.kind = "clipboard_set" -> "ClipboardWrite"
      [] OTHER -> "ControlSemantic"

\* safety_class_for_request()
SafetyClass(d) ==
    CASE d.kind \in PolicyKinds -> "Policy"
      [] d.kind \in ImageKinds -> IF d.marked THEN "FullResolutionScreenshot" ELSE "Observe"
      [] d.kind \in LookKinds -> "Observe"
      [] d.kind = "clipboard_get" -> "ClipboardRead"
      [] d.kind = "clipboard_set" -> "ClipboardWrite"
      [] d.kind \in PortalKinds -> IF d.marked THEN "ControlPointer" ELSE "ControlKeyboard"
      [] d.kind \in Pointing \cup {"scroll_pointer"} -> "ControlPointer"
      [] d.kind \in {"type_text", "page_zoom"} -> "ControlKeyboard"
      [] d.kind = "key_combo" -> IF d.marked THEN "DestructiveAction" ELSE "ControlKeyboard"
      [] d.kind = "close_window" -> "DestructiveAction"
      [] d.kind \in {"set_text_field", "focus_text_field"} /\ d.marked -> "SecretField"
      [] d.marked -> "DestructiveAction"
      [] OTHER -> "ControlSemantic"

IsControl(d) == SafetyClass(d) \in {"ControlPointer", "ControlKeyboard", "ControlSemantic",
                                    "DestructiveAction", "SecretField"}

\* interaction_session_id_for_request()
InteractionSession(d) == IF d.kind \in RawKinds \cup {"close_window"} THEN d.session ELSE "none"

\* Plausible bug: the image after the action is forgotten.
BugSessionIds(d) ==
    IF d.kind \in FrameKinds \cup LifecycleKinds THEN {d.session} ELSE {InteractionSession(d)}

\* capture_session_ids_for_request()
SessionIds(d) ==
    (IF d.kind \in FrameKinds \cup LifecycleKinds THEN {d.session} ELSE {InteractionSession(d)})
      \cup {d.image}

\* uses_independent_agent_seat()
UsesAgentSeat(d) ==
    config.agentSeat /\ InteractionSession(d) # "none" /\ d.kind \in RawKinds

-----------------------------------------------------------------------------
(* The checks, in their order: where each applies, and when it must refuse. *)

Checks == <<"combo", "policy", "isolation", "panic", "pause", "owner", "shape",
            "required guard", "active guard", "app", "observation", "rate", "image">>

\* A decided check refuses what it applies to, the others may.
Decided == {"combo", "isolation", "shape", "required guard"}

Applies(check, d) ==
    CASE check = "combo" ->          \* validate_targeted_key_combo()
            d.kind = "key_combo" /\ config.agentSeat /\ d.session # "none" /\ d.marked
      [] check = "policy" -> TRUE         \* some level is set for every class
      [] check = "isolation" ->      \* enforce_mcp_focus_isolation()
            d.mcp
      [] check = "panic" -> IsControl(d)
      [] check = "pause" -> config.pauses /\ IsControl(d) /\ ~UsesAgentSeat(d)
      [] check = "owner" -> SessionIds(d) # {"none"}
      [] check = "shape" ->          \* validate_interaction_session_request()
            InteractionSession(d) # "none" /\ d.guarded
      [] check = "required guard" ->
            /\ InteractionSession(d) = "none" /\ ~d.guarded
            /\ d.local \/ (config.guardRequired /\ IsControl(d) /\ ~d.targeted)
      [] check = "active guard" -> d.guarded
      [] check = "app" ->            \* enforce_app_policy()
            /\ config.appPolicy /\ IsControl(d) /\ d.kind \notin PortalKinds
            /\ ~d.targeted /\ InteractionSession(d) = "none"
      [] check = "observation" -> d.kind \in ReadKinds
      [] check = "rate" -> IsControl(d)
      [] OTHER -> d.image # "none"   \* post_action_capture::validate()

Configs == [agentSeat: BOOLEAN, pauses: BOOLEAN, guardRequired: BOOLEAN, appPolicy: BOOLEAN]

InitRouting ==
    /\ demand \in Demands
    /\ config \in Configs
    /\ stop = 1 /\ cleared = {} /\ doing = <<"nothing", "none">>

PassCheck ==
    /\ stop \in DOMAIN Checks
    /\ LET check == Checks[stop]
       IN  IF Applies(check, demand)
              THEN /\ check \notin Decided
                   /\ check = "owner" => "foreign" \notin SessionIds(demand)
                   /\ cleared' = cleared \cup {check}
              ELSE UNCHANGED cleared
    /\ stop' = stop + 1
    /\ UNCHANGED <<demand, config, doing>>

RefuseCheck ==
    /\ stop \in DOMAIN Checks
    /\ Applies(Checks[stop], demand)
    /\ stop' = 0
    /\ UNCHANGED <<demand, config, cleared, doing>>

\* execute_request(): what it does and on which window.  Raw input goes to the
\* agent seat if that is the backend, and is an error there without a session;
\* else to the seat of the user, under the seat lease only with a session.
EffectOf(d) ==
    CASE d.kind \in RawKinds ->
            IF config.agentSeat
               THEN IF d.session # "none" THEN <<"agent seat", "pinned">> ELSE <<"error", "none">>
               ELSE <<"user seat", IF d.session # "none" THEN "pinned" ELSE "active">>
      [] d.kind = "page_zoom" ->
            IF config.agentSeat THEN <<"error", "none">> ELSE <<"user seat", "active">>
      [] d.kind \in NamedKinds -> <<"semantic", IF d.targeted THEN "resolved" ELSE "element">>
      [] d.kind \in NodeKinds -> <<"semantic", "element">>
      [] d.kind \in WindowKinds ->
            <<"window", IF d.session # "none" THEN "pinned" ELSE "explicit">>
      [] d.kind \in FrameKinds \cup LifecycleKinds -> <<"session", "none">>
      [] d.kind \in PortalKinds -> <<"consent", "none">>
      [] OTHER -> <<"look", "none">>

\* What is pinned or resolved is authorised when it is known, by
\* execute_raw_action(), execute_agent_seat_action(), close_window() and
\* authorize_semantic_target(); raw input of a session on the user's seat
\* checks the panic stop and the pause again, under the lease.
ExecuteRequest ==
    /\ stop = Len(Checks) + 1
    /\ \/ doing' = EffectOf(demand)
       \/ doing' = <<"error", "none">>
    /\ cleared' = cleared
         \cup (IF EffectOf(demand)[2] \in {"pinned", "resolved"} \/ demand.kind = "close_window"
                  THEN {"app"} ELSE {})
         \cup (IF EffectOf(demand) = <<"user seat", "pinned">>
                  THEN {"panic", "pause", "lease"} ELSE {})
    /\ stop' = stop + 1
    /\ UNCHANGED <<demand, config>>

NextRouting == PassCheck \/ RefuseCheck \/ ExecuteRequest

SpecRouting == InitRouting /\ [][NextRouting]_routingVars

-----------------------------------------------------------------------------
Controls == {"user seat", "agent seat", "semantic", "window"}

(* Whatever acts on the desktop has passed the policy, the panic stop and   *)
(* the rate limit, and the pause for the input of the user unless it leaves *)
(* the user's seat alone: no kind of request acts through a table that      *)
(* forgets it.                                                              *)
EffectsAreGated ==
    doing[1] \in Controls =>
        /\ {"policy", "panic", "rate"} \subseteq cleared
        /\ config.pauses /\ doing[1] # "agent seat" => "pause" \in cleared

(* What acts or looks on behalf of a session is of the owner of that        *)
(* session, that of the image after the action included; what acts on a     *)
(* window or an element has had the application of its destination checked  *)
(* if there is an application policy, before it is resolved or after, and   *)
(* names its destination if a guard is required.                            *)
TargetsAreChecked ==
    /\ doing[1] \notin {"nothing", "error"} =>
          "foreign" \notin {demand.session, demand.image}
    /\ doing[1] \in Controls =>
          /\ config.appPolicy => "app" \in cleared
          /\ config.guardRequired =>
                demand.guarded \/ demand.targeted \/ demand.session # "none"

(* Both: nothing the daemon does for a request lacks one of the checks that  *)
(* the other tables say it needs.                                           *)
ChecksFitEffects == EffectsAreGated /\ TargetsAreChecked

(* Type invariant. *)
RoutingTypeOK ==
    /\ demand \in Demands
    /\ stop \in 0..(Len(Checks) + 2)
    /\ cleared \subseteq {Checks[n] : n \in DOMAIN Checks} \cup {"lease"}
    /\ doing \in {"nothing", "error", "look", "consent", "session"} \X {"none"}
          \cup Controls \X {"pinned", "active", "resolved", "element", "explicit"}
=============================================================================

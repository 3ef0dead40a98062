----------------------------- MODULE FrameStream -----------------------------
(* A retained portal capture (seatgeist-pipewire): the PipeWire thread puts  *)
(* frames into a mailbox that keeps only the latest, snapshot and wait       *)
(* requests take them out, encode them without a lock and leave what they    *)
(* have produced as the latest frame.  Frames are numbered as the stream     *)
(* numbers them (sequence); a revision is what a frame looks like.  The      *)
(* daemon gives the frames of a monitor or a virtual output a revision of    *)
(* its own before it answers (protect_retained_capture_frame in main.rs).    *)
EXTENDS Naturals, FiniteSets

CONSTANTS
    Calls,          \* clients, each with one request at a time
    Revisions,
    MaxFrames,      \* bound on the frames of the stream
    Empty,
    Broken          \* WorkerEvent::Error, and any other event that is no frame

ASSUME StreamAssumption == MaxFrames \in Nat /\ {Empty, Broken} \cap Nat = {} /\ Empty # Broken

VARIABLES
    sent,           \* WorkerData.sequence
    revision,       \* revision of the frames sent
    mailbox,        \* State.pending: a frame, Broken or Empty
    worker,         \* the stream's thread runs, and with it every sender
    source,         \* the call that has the source mutex, Empty, or "closed"
    closed,         \* "open", "closing" (its mutex is held), "closed"
    call,           \* call -> where it is, and what it has
    latest,         \* PipeWireCaptureSession.latest, 0 for none
    answer,         \* client -> the last frame it was given, 0 for none
    overlapped,     \* history: two calls have been between source and latest
    protected,      \* source_type # "window": the client's revisions are the daemon's
    unfounded       \* history: a wait was told of a change to what it had named

\* What no step of the thread or of the mutexes changes.
clientVars == <<protected, unfounded>>
streamVars == <<sent, revision, mailbox, worker, source, closed, call, latest, answer,
                overlapped, protected, unfounded>>

NoCall == [at |-> "idle", kind |-> "snapshot", began |-> 0, frame |-> 0, after |-> 0]

InitStream ==
    /\ sent = 0 /\ revision = [f \in 1..MaxFrames |-> Empty]
    /\ mailbox = Empty /\ worker = TRUE
    /\ source = Empty /\ closed = "open"
    /\ call = [c \in Calls |-> NoCall]
    /\ latest = 0 /\ answer = [c \in Calls |-> 0]
    /\ overlapped = FALSE
    /\ protected \in BOOLEAN /\ unfounded = FALSE

Ends(c) == call' = [call EXCEPT ![c] = NoCall]

-----------------------------------------------------------------------------
(* The thread.                                                             *)

\* Plausible bug: a frame that nobody has read yet is not replaced.
BugSend(event) == mailbox' = IF mailbox = Empty THEN event ELSE mailbox

\* LatestSender::send()
Send(event) == mailbox' = event

\* copy_latest_pipewire_buffer()
ProduceFrame(look) ==
    /\ worker /\ sent < MaxFrames
    /\ sent' = sent + 1
    /\ revision' = [revision EXCEPT ![sent + 1] = look]
    /\ Send(sent + 1)
    /\ UNCHANGED <<worker, source, closed, call, latest, answer, overlapped, clientVars>>

\* A stream error is an event like a frame; the thread may end with it.
StreamFails ==
    /\ worker /\ Send(Broken)
    /\ worker' \in BOOLEAN
    /\ UNCHANGED <<sent, revision, source, closed, call, latest, answer, overlapped, clientVars>>

-----------------------------------------------------------------------------
(* Requests.                                                               *)

\* Plausible bug: the daemon's revisions are not the backend's for any source.
BugKnown(after, frame) == FALSE

\* The revision that a wait names is the one the backend has for this frame.
Known(after, frame) == ~protected /\ after # 0 /\ revision[after] = revision[frame]

\* A wait that named a frame is told that this one is a change.
ToldChange(after, frame) ==
    unfounded' = (unfounded \/ (after # 0 /\ ~Known(after, frame)
                                          /\ revision[after] = revision[frame]))

\* wait_for_frame() with what is there already: the latest frame, if it does
\* not look like the one the client asks to see replaced.
AnswerWait(c, after) ==
    /\ call[c].at = "idle" /\ closed = "open"
    /\ latest # 0 /\ ~Known(after, latest)
    /\ answer' = [answer EXCEPT ![c] = latest]
    /\ ToldChange(after, latest)
    /\ UNCHANGED <<sent, revision, mailbox, worker, source, closed, call, latest, overlapped,
                   protected>>

\* capture(), after ensure_open()
BeginCapture(c, kind, after) ==
    /\ call[c].at = "idle" /\ closed = "open"
    /\ kind = "wait" /\ latest # 0 => Known(after, latest)
    /\ kind = "snapshot" => after = 0
    /\ call' = [call EXCEPT ![c] = [at |-> "source", kind |-> kind, began |-> sent, frame |-> 0,
                                    after |-> after]]
    /\ UNCHANGED <<sent, revision, mailbox, worker, source, closed, latest, answer, overlapped,
                   clientVars>>

LockSource(c) ==
    /\ call[c].at = "source"
    /\ \/ /\ source = Empty /\ source' = c
          /\ call' = [call EXCEPT ![c].at = "receiving"]
       \/ /\ source = "closed" /\ Ends(c) /\ UNCHANGED source
    /\ UNCHANGED <<sent, revision, mailbox, worker, closed, latest, answer, overlapped, clientVars>>

\* next_frame() and recv_timeout() with an event
TakeFrame(c) ==
    /\ call[c].at = "receiving" /\ mailbox # Empty
    /\ source' = Empty /\ mailbox' = Empty
    /\ \/ mailbox = Broken /\ Ends(c) /\ UNCHANGED overlapped
       \/ /\ mailbox # Broken
          /\ call' = [call EXCEPT ![c].at = "encoding", ![c].frame = mailbox]
          /\ overlapped' = (overlapped \/ \E d \in Calls : call[d].at = "encoding")
    /\ UNCHANGED <<sent, revision, worker, closed, latest, answer, clientVars>>

\* recv_timeout() without one: a wait falls back on the latest frame.
TakeNothing(c) ==
    /\ call[c].at = "receiving" /\ mailbox = Empty
    /\ source' = Empty
    /\ Ends(c)
    /\ answer' = IF worker /\ call[c].kind = "wait" /\ latest # 0
                 THEN [answer EXCEPT ![c] = latest] ELSE answer
    /\ UNCHANGED <<sent, revision, mailbox, worker, closed, latest, overlapped, clientVars>>

\* Plausible bug: only a wait leaves its frame as the latest.
BugInstalled(c) == IF call[c].kind = "wait" THEN call[c].frame ELSE latest

Installed(c) == call[c].frame

\* Encoded and written, unless that fails; the daemon may still refuse the
\* client a frame that has become the latest.
InstallFrame(c) ==
    /\ call[c].at = "encoding"
    /\ \/ UNCHANGED <<latest, answer, unfounded>>
       \/ latest' = Installed(c) /\ UNCHANGED <<answer, unfounded>>
       \/ /\ latest' = Installed(c)
          /\ answer' = [answer EXCEPT ![c] = call[c].frame]
          /\ ToldChange(call[c].after, call[c].frame)
    /\ Ends(c)
    /\ UNCHANGED <<sent, revision, mailbox, worker, source, closed, overlapped, protected>>

\* close() takes the two mutexes one after the other.
BeginClose ==
    /\ closed = "open" /\ closed' = "closing"
    /\ UNCHANGED <<sent, revision, mailbox, worker, source, call, latest, answer, overlapped, clientVars>>

FinishClose ==
    /\ closed = "closing" /\ source = Empty
    /\ closed' = "closed" /\ source' = "closed" /\ worker' = FALSE
    /\ UNCHANGED <<sent, revision, mailbox, call, latest, answer, overlapped, clientVars>>

NextStream ==
    \/ \E look \in Revisions : ProduceFrame(look)
    \/ StreamFails \/ BeginClose \/ FinishClose
    \/ \E c \in Calls : \/ \E after \in {0, answer[c]} :
                               \/ AnswerWait(c, after)
                               \/ \E kind \in {"snapshot", "wait"} : BeginCapture(c, kind, after)
                        \/ LockSource(c) \/ TakeFrame(c) \/ TakeNothing(c) \/ InstallFrame(c)

SpecStream == InitStream /\ [][NextStream]_streamVars

-----------------------------------------------------------------------------
(* A capture never hands out a frame that had been followed by another when  *)
(* its request came, however long the stream has run unread                  *)
(* (latest_mailbox.rs:45); and a client that waits on a window is told of a  *)
(* change only if what it gets differs from what it named (session.rs:321).  *)
SnapshotIsCurrent ==
    /\ \A c \in Calls : call[c].at = "encoding" => call[c].frame >= call[c].began
    /\ ~protected => ~unfounded

(* No client is given a frame older than one it already had, nor a wait a    *)
(* latest frame from before it, as long as no two captures have overlapped   *)
(* (session.rs:250).                                                         *)
FramesNeverGoBack ==
    [][~overlapped' => \A c \in Calls : answer'[c] >= answer[c]]_streamVars
=============================================================================

-------------------------- MODULE SemanticActions --------------------------
(***************************************************************************)
(* A semantic action (main.rs: click_button, set_text_field, activate_tab, *)
(* ...): the daemon searches the accessibility tree for an element by its  *)
(* name, refuses unless just one suits, correlates it with the guarded     *)
(* window in KWin's list, and acts on it.  The tree is read over D-Bus one *)
(* element at a time, or from an application's cache, and the applications *)
(* change it, and the titles of their windows, meanwhile.                  *)
(***************************************************************************)
EXTENDS Naturals, FiniteSets

CONSTANTS
    ElementCount,   \* elements, numbered in the order of the search
    Frames,         \* windows
    Unguarded,      \* no target_guard in the request
    MaxResults,     \* max_results of the search
    MaxChanges      \* bound on the changes the applications make

ASSUME SemanticAssumption ==
    /\ ElementCount \in Nat /\ MaxResults \in Nat \ {0} /\ MaxChanges \in Nat
    /\ Unguarded \notin Frames

VARIABLES
    screen,         \* element -> how it answers to the name that is asked for
    within,          \* element -> its window
    title,          \* window -> its title
    oneProcess,     \* the windows are all of one process
    ask,            \* the request: its guard, cache or tree, and max_nodes
    at,             \* where its handler is
    next, left,     \* the search: next element, rest of the budget
    listed,         \* the names the application's cache gave
    found,          \* matches: element, what was read of it, title of its window
    chosen,         \* the match it acts on
    missed,         \* elements that were not read, or not in full (history)
    changes,
    steady,         \* elements that have not changed during the request (history)
    titles          \* window -> the titles it had during the request (history)

applications == <<screen, within, title, oneProcess, changes, steady, titles>>
semanticVars == <<screen, within, title, oneProcess, ask, at, next, left, listed, found,
                  chosen, missed, changes, steady, titles>>

Elements == 1..ElementCount

\* The name is the one asked for, or contains it; it does but the element does
\* not suit (sensitive, another role, no such action); it does not, or the
\* element is gone.
Answers == {"exact", "contains", "unfit", "gone"}
Suitable == {"exact", "contains"}

\* One title is a part of the other: text_identity_matches().
Titles == {"short", "long", "other"}
TextIdentityMatches(t, u) == t = u \/ {t, u} = {"short", "long"}

\* The title of a window that could not be read is no title at all.
NoTitle == "unread"

Nothing == [element |-> 0, read |-> "gone", title |-> "other"]
NoRequest == [guard |-> Unguarded, cached |-> FALSE, maxNodes |-> 1]

InitSemantic ==
    /\ screen \in [Elements -> Answers]
    /\ within \in [Elements -> Frames]
    /\ title \in [Frames -> Titles]
    /\ oneProcess \in BOOLEAN
    /\ ask = NoRequest /\ at = "idle" /\ next = 1 /\ left = 0
    /\ listed = screen /\ found = {} /\ chosen = Nothing /\ missed = {}
    /\ changes = 0 /\ steady = Elements
    /\ titles = [f \in Frames |-> {title[f]}]

-----------------------------------------------------------------------------
\* An application that is named in the request may answer from its cache,
\* which gives the names of all its elements at once.
StartSemantic(guard, cached, maxNodes) ==
    /\ at = "idle"
    /\ ask' = [guard |-> guard, cached |-> cached, maxNodes |-> maxNodes]
    /\ at' = "search" /\ left' = maxNodes /\ listed' = screen
    /\ UNCHANGED <<applications, next, found, chosen, missed>>

\* In the cache only a match costs budget, in the tree every element does.
NameMatches(e) == IF ask.cached THEN listed[e] # "gone" ELSE screen[e] # "gone"
Costs(e) == ask.cached => NameMatches(e)

\* Plausible bug: one result more than was asked for.
BugSearchOver ==
    \/ next > ElementCount
    \/ Cardinality(found) > MaxResults
    \/ next \in Elements /\ left = 0 /\ Costs(next)

SearchOver ==
    \/ next > ElementCount
    \/ Cardinality(found) >= MaxResults
    \/ next \in Elements /\ left = 0 /\ Costs(next)

\* Roles and actions are read live; the title was read on the way down.
ReadNode(e) ==
    [element: {e},
     read: {IF screen[e] \notin Suitable THEN "unfit"
            ELSE IF ask.cached THEN listed[e] ELSE screen[e]},
     title: titles[within[e]] \cup {NoTitle}]

\* A read that fails leaves a default: an element without its actions suits no
\* request, one without its name is no exact match.
MisreadNode(e) ==
    [element: {e},
     read: {"unfit"} \cup (IF screen[e] \in Suitable /\ ~ask.cached THEN {"contains"} ELSE {}),
     title: titles[within[e]] \cup {NoTitle}]

Visit ==
    /\ at = "search" /\ ~SearchOver
    /\ next' = next + 1
    /\ left' = IF Costs(next) THEN left - 1 ELSE left
    /\ IF NameMatches(next) THEN \E m \in ReadNode(next) : found' = found \cup {m}
                            ELSE UNCHANGED found
    /\ UNCHANGED <<applications, ask, at, listed, chosen, missed>>

\* A read fails: without its name or its role the element is passed over.
VisitFails ==
    /\ at = "search" /\ ~SearchOver
    /\ next' = next + 1
    /\ left' = IF Costs(next) THEN left - 1 ELSE left
    /\ missed' = missed \cup {next}
    /\ \/ UNCHANGED found
       \/ NameMatches(next) /\ \E m \in MisreadNode(next) : found' = found \cup {m}
    /\ UNCHANGED <<applications, ask, at, listed, chosen>>

\* An element is not reached: the children of one above it could not be read,
\* it is too deep, or the application's cache leaves it out.
PassOver ==
    /\ at = "search" /\ ~SearchOver
    /\ next' = next + 1
    /\ missed' = missed \cup {next}
    /\ UNCHANGED <<applications, ask, at, left, listed, found, chosen>>

SearchEnds ==
    /\ at = "search" /\ SearchOver
    /\ at' = "resolve"
    /\ UNCHANGED <<applications, ask, next, left, listed, found, chosen, missed>>

\* An exact name beats the names that contain it.
Candidates ==
    LET suitable == {m \in found : m.read \in Suitable}
        exact == {m \in suitable : m.read = "exact"}
    IN  IF exact # {} THEN exact ELSE suitable

\* Plausible bug: of several exact matches the first is taken.
BugResolveMatch ==
    /\ at = "resolve"
    /\ IF Candidates # {}
          THEN /\ chosen' = CHOOSE m \in Candidates : \A o \in Candidates : m.element <= o.element
               /\ at' = "authorize"
          ELSE at' = "ended" /\ UNCHANGED chosen
    /\ UNCHANGED <<applications, ask, next, left, listed, found, missed>>

ResolveMatch ==
    /\ at = "resolve"
    /\ IF Cardinality(Candidates) = 1
          THEN (\E m \in Candidates : chosen' = m) /\ at' = "authorize"
          ELSE at' = "ended" /\ UNCHANGED chosen
    /\ UNCHANGED <<applications, ask, next, left, listed, found, missed>>

\* Plausible bug: the process ids are not compared.
BugCorrelated == TextIdentityMatches(title[ask.guard], chosen.title)

\* resolve_semantic_target(), in a window list read now.
Correlated ==
    /\ oneProcess \/ within[chosen.element] = ask.guard
    /\ TextIdentityMatches(title[ask.guard], chosen.title)

\* Other checks of the guard, the app's identity and the policy may refuse.
AuthorizeTarget ==
    /\ at = "authorize"
    /\ \/ at' = "act" /\ (ask.guard # Unguarded => Correlated)
       \/ at' = "ended" /\ ask.guard # Unguarded
    /\ UNCHANGED <<applications, ask, next, left, listed, found, chosen, missed>>

\* The element must still offer the action, and may refuse it.
ActOn ==
    /\ at = "act"
    /\ \/ screen[chosen.element] # "gone" /\ at' = "acted"
       \/ at' = "ended"
    /\ UNCHANGED <<applications, ask, next, left, listed, found, chosen, missed>>

SemanticStep ==
    \/ Visit \/ VisitFails \/ PassOver \/ SearchEnds
    \/ ResolveMatch \/ AuthorizeTarget \/ ActOn

-----------------------------------------------------------------------------
Busy == at \in {"search", "resolve", "authorize", "act"}
Changes == Busy /\ changes < MaxChanges /\ changes' = changes + 1
Request == <<ask, at, next, left, listed, found, chosen, missed>>

ElementChanges(e) ==
    /\ Changes
    /\ \E answer \in Answers \ {screen[e]} : screen' = [screen EXCEPT ![e] = answer]
    /\ steady' = steady \ {e}
    /\ UNCHANGED <<within, title, oneProcess, titles, Request>>

TitleChanges(f) ==
    /\ Changes
    /\ \E t \in Titles \ {title[f]} :
          /\ title' = [title EXCEPT ![f] = t]
          /\ titles' = [titles EXCEPT ![f] = @ \cup {t}]
    /\ UNCHANGED <<screen, within, oneProcess, steady, Request>>

NextSemantic ==
    \/ \E guard \in Frames \cup {Unguarded}, cached \in BOOLEAN, maxNodes \in Elements :
          StartSemantic(guard, cached, maxNodes)
    \/ SemanticStep
    \/ \E e \in Elements : ElementChanges(e)
    \/ \E f \in Frames : TitleChanges(f)

SpecSemantic == InitSemantic /\ [][NextSemantic]_semanticVars

-----------------------------------------------------------------------------
Match == [element: Elements, read: Answers, title: Titles \cup {NoTitle}]

(* Type invariant. *)
SemanticTypeOK ==
    /\ screen \in [Elements -> Answers] /\ listed \in [Elements -> Answers]
    /\ within \in [Elements -> Frames] /\ title \in [Frames -> Titles]
    /\ ask \in [guard: Frames \cup {Unguarded}, cached: BOOLEAN, maxNodes: Nat]
    /\ at \in {"idle", "search", "resolve", "authorize", "act", "acted", "ended"}
    /\ next \in 1..ElementCount + 1 /\ left \in 0..ElementCount
    /\ missed \subseteq Elements
    /\ found \subseteq Match /\ Cardinality(found) <= MaxResults
    /\ at \in {"authorize", "act", "acted"} => chosen \in found

Acts == at = "act" /\ at' = "acted"

OtherMatch(e) == screen[e] = "exact" \/ (chosen.read = "contains" /\ screen[e] = "contains")

(* The daemon acts on an element only if no other one, that was there all   *)
(* the time, answers as well to the name: it says so instead of choosing,   *)
(* unless a limit ended the search before it saw the other one, or the      *)
(* other one was missed: a read of it failed, or nothing led to it          *)
(* (lib.rs:515-518, 545, 549), mcp-tools.md:264 notwithstanding.            *)
ActsOnTheOnlyMatch ==
    [][Acts /\ next > ElementCount =>
          \A e \in steady \ ({chosen.element} \cup missed) : ~OtherMatch(e)]_semanticVars

(* With a guard the element is one of the guarded window, or of one that    *)
(* cannot be told from it: of the same process, and with a title that was   *)
(* during the request part of the guarded one's, or the other way around.   *)
ActsInGuardedWindow ==
    [][Acts /\ ask.guard # Unguarded =>
          LET f == within[chosen.element]
          IN  \/ f = ask.guard
              \/ /\ oneProcess
                 /\ \E t \in titles[f], u \in titles[ask.guard] :
                       TextIdentityMatches(t, u)]_semanticVars

(* The element acted on is the one the request describes (target.rs:133,    *)
(* main.rs:5466).                                                           *)
ActsOnRequested == ActsOnTheOnlyMatch /\ ActsInGuardedWindow
=============================================================================

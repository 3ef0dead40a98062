--------------------------- MODULE MCRequestSide ---------------------------
(* What a request meets on its way to the desktop and back: the gates of the *)
(* daemon, the lanes of the agent seat, the EIS session, the search of a     *)
(* semantic action and what the client is told after an action.  The parts   *)
(* share no state in these models, so that a behaviour is one of one part    *)
(* with the others at rest: what is explored is their sum and not their      *)
(* product.                                                                  *)
EXTENDS RequestRouting, RequestGates, AgentLanes, EisSession, SemanticActions, PostAction, TLC

CONSTANTS f1, f2

VARIABLE part

requestSideVars == <<part, routingVars, gateVars, laneVars, eisVars, semanticVars, postVars>>

SomeDemand == CHOOSE d \in Demands : d.kind = "health"
SomeConfig == CHOOSE c \in Configs : ~c.agentSeat

\* At rest a part is in one state.  Of the initial states of the others one
\* will do of those that differ by a renaming of titles, windows or elements.
InitRequestSide ==
    /\ part \in {"routing", "gates", "lanes", "eis", "semantic", "post"}
    /\ part # "routing" => demand = SomeDemand /\ config = SomeConfig
    /\ part # "eis" => textApi = TRUE
    /\ part # "semantic" =>
          /\ oneProcess = TRUE /\ title = [f \in Frames |-> "other"]
          /\ screen = [e \in Elements |-> "gone"] /\ within = [e \in Elements |-> f1]
    /\ part # "post" => targetValue = ""
    /\ activePlace = f1 /\ focused = f1
    /\ InitRouting /\ InitGates /\ InitLanes /\ InitEis /\ InitSemantic /\ InitPost
    /\ width = [w \in Surfaces |-> 4]
    /\ \E w \in Surfaces : deco[w] = 0
    /\ part # "lanes" => deco = [w \in Surfaces |-> 0]
    /\ title[f1] # "long" /\ (title[f1] = "other" => title[f2] # "long")

Routing ==
    /\ part = "routing" /\ NextRouting
    /\ UNCHANGED <<part, gateVars, laneVars, eisVars, semanticVars, postVars>>

Gates ==
    /\ part = "gates" /\ NextGates
    /\ UNCHANGED <<part, routingVars, laneVars, eisVars, semanticVars, postVars>>

\* Two agents point at windows without decorations; one drags as well, from one
\* of the points to the other, where a window has one.
Lanes ==
    /\ part = "lanes" /\ NextLanes
    /\ \A i \in DOMAIN authorized' :
          authorized'[i].kind = "drag" =>
              authorized'[i].from < authorized'[i].to /\ \E w \in Surfaces : deco[w] # 0
    /\ (\E w \in Surfaces : deco[w] # 0) => lanesMinted' <= 1
    /\ UNCHANGED <<part, routingVars, gateVars, eisVars, semanticVars, postVars>>

Eis ==
    /\ part = "eis" /\ NextEis
    /\ UNCHANGED <<part, routingVars, gateVars, laneVars, semanticVars, postVars>>

\* With a guard the search is of the whole tree, which has two elements and
\* may get a third, and the guard f1; without one the windows and their titles
\* make no difference, and one element is missed at most.
Semantic ==
    /\ part = "semantic" /\ NextSemantic
    /\ at = "idle" =>
          IF ask'.guard = Unguarded
             THEN /\ \A e \in Elements : within[e] = f1
                  /\ oneProcess /\ \A f \in Frames : title[f] = "other"
             ELSE /\ ask' = [guard |-> f1, cached |-> FALSE, maxNodes |-> ElementCount]
                  /\ screen[ElementCount] = "gone"
    /\ ask'.guard = Unguarded => title' = title /\ \A m \in found' : m.title # NoTitle
    /\ Cardinality(missed') <= IF ask'.guard = Unguarded THEN 1 ELSE 0
    /\ UNCHANGED <<part, routingVars, gateVars, laneVars, eisVars, postVars>>

Post ==
    /\ part = "post" /\ NextPost
    /\ UNCHANGED <<part, routingVars, gateVars, laneVars, eisVars, semanticVars>>

NextRequestSide == Routing \/ Gates \/ Lanes \/ Eis \/ Semantic \/ Post

SpecRequestSide == InitRequestSide /\ [][NextRequestSide]_requestSideVars

(* Type invariants. *)
RequestSideTypeOK == RoutingTypeOK /\ SemanticTypeOK /\ PostTypeOK

\* The agents of the lanes are the clients in flight: they never meet.
SymmetryRequestSide == Permutations(Inflight) \cup Permutations(Surfaces)
=============================================================================

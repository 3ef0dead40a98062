--------------------- MODULE InteractionSessions_proofs ---------------------
(***************************************************************************)
(* Proofs about the interaction-session store, for every set of sessions,  *)
(* windows and owners and every quota.                                     *)
(***************************************************************************)
EXTENDS InteractionSessions, FiniteSetTheorems, TLAPS

(* A stored session and the lane it uses were minted before: the lane of a *)
(* new session, which was not, is nobody else's.                           *)
LanesMinted ==
    /\ Bound \subseteq minted
    /\ \A s \in Bound : interaction[s].lane \in minted

(* The inductive invariant. *)
Inv ==
    /\ TypeOK
    /\ LanesMinted
    /\ WindowExclusive
    /\ LaneIsolation
    /\ LaneQuota

LEMMA LeaseFields ==
    ASSUME TypeOK, NEW s \in Bound
    PROVE  /\ interaction[s] \in Lease
           /\ interaction[s].window \in Windows
           /\ interaction[s].owner \in Owners
           /\ interaction[s].lane \in Sessions
           /\ interaction[s].ttl \in 0..SessionTTL
<1>1. interaction[s] \in Lease
  BY DEF TypeOK, Bound
<1> QED BY <1>1 DEF Lease

LEMMA OwnersFinite ==
    ASSUME TypeOK
    PROVE  /\ OwnersIn(Live) \subseteq OwnersIn(Bound)
           /\ IsFiniteSet(OwnersIn(Bound))
           /\ IsFiniteSet(OwnersIn(Live))
<1>1. OwnersIn(Bound) \subseteq Owners
  BY LeaseFields DEF OwnersIn
<1>2. OwnersIn(Live) \subseteq OwnersIn(Bound)
  BY DEF OwnersIn, Live
<1> QED BY <1>1, <1>2, OwnersAssumption, FS_Subset

LEMMA InitInv == InitInteraction => Inv
<1> SUFFICES ASSUME InitInteraction PROVE Inv
  OBVIOUS
<1>1. Bound = {}
  BY DEF InitInteraction, Bound
<1>2. LaneQuota
  BY <1>1, FS_EmptySet, LanesAssumption DEF LaneQuota, OwnersIn
<1>3. TypeOK
  BY DEF InitInteraction, TypeOK
<1> QED BY <1>1, <1>2, <1>3 DEF Inv, LanesMinted, WindowExclusive, LaneIsolation

(* What a step keeps of the leases it does not bind, up to the time left:  *)
(* an invariant that reads window, owner and lane survives any step that   *)
(* only drops or ages sessions.                                            *)
Shrinks ==
    /\ minted' = minted
    /\ \A s \in Sessions :
          interaction'[s] # Unbound =>
             /\ interaction[s] # Unbound
             /\ interaction'[s].window = interaction[s].window
             /\ interaction'[s].owner = interaction[s].owner
             /\ interaction'[s].lane = interaction[s].lane

LEMMA ShrinkKeepsQuota ==
    ASSUME TypeOK, Shrinks, LaneQuota
    PROVE  LaneQuota'
<1>1. OwnersIn(Bound)' \subseteq OwnersIn(Bound)
  BY DEF OwnersIn, Bound, Shrinks
<1>2. /\ IsFiniteSet(OwnersIn(Bound))
      /\ Cardinality(OwnersIn(Bound)') <= Cardinality(OwnersIn(Bound))
      /\ IsFiniteSet(OwnersIn(Bound)')
  BY <1>1, OwnersFinite, FS_Subset
<1>3. Cardinality(OwnersIn(Bound)) \in Nat /\ Cardinality(OwnersIn(Bound)') \in Nat
  BY <1>2, FS_CardinalityType
<1> QED BY <1>2, <1>3, LanesAssumption DEF LaneQuota

LEMMA ShrinkKeeps ==
    ASSUME Inv, Shrinks, TypeOK'
    PROVE  Inv'
<1>1. LanesMinted' /\ WindowExclusive' /\ LaneIsolation'
  BY DEF Inv, Shrinks, LanesMinted, WindowExclusive, LaneIsolation, Bound
<1>2. LaneQuota'
  BY ShrinkKeepsQuota DEF Inv
<1> QED BY <1>1, <1>2 DEF Inv

-----------------------------------------------------------------------------
(* Steps that bind nothing. *)

LEMMA PurgeStep ==
    ASSUME Inv, NEW w \in Windows, NEW o \in Owners, RejectBind(w, o)
    PROVE  TypeOK' /\ Shrinks
<1>1. TypeOK'
  BY DEF Inv, TypeOK, RejectBind, AfterPurge
<1>2. Shrinks
  BY DEF Inv, TypeOK, RejectBind, AfterPurge, Shrinks
<1> QED BY <1>1, <1>2

LEMMA ClearStep ==
    ASSUME Inv, NEW s \in Sessions, Clear(s)
    PROVE  TypeOK' /\ Shrinks
<1>1. TypeOK'
  BY DEF Inv, TypeOK, Clear
<1>2. Shrinks
  BY DEF Inv, TypeOK, Clear, Shrinks
<1> QED BY <1>1, <1>2

LEMMA RetainStep ==
    ASSUME Inv, NEW active \in SUBSET Sessions, RetainActive(active)
    PROVE  TypeOK' /\ Shrinks
<1>1. TypeOK'
  BY DEF Inv, TypeOK, RetainActive
<1>2. Shrinks
  BY DEF Inv, TypeOK, RetainActive, Shrinks
<1> QED BY <1>1, <1>2

LEMMA RenewStep ==
    ASSUME Inv, NEW s \in Sessions, Renew(s)
    PROVE  TypeOK' /\ Shrinks
<1>1. interaction[s] \in Lease
  BY LeaseFields DEF Inv, Renew
<1>2. [interaction[s] EXCEPT !.ttl = SessionTTL] \in Lease
  BY <1>1, LanesAssumption DEF Lease
<1>3. interaction' = [interaction EXCEPT ![s] = [interaction[s] EXCEPT !.ttl = SessionTTL]]
  BY DEF Renew
<1>4. TypeOK'
  BY <1>2, <1>3 DEF Inv, TypeOK, Renew
<1>5. Shrinks
  BY <1>1, <1>3 DEF Inv, TypeOK, Renew, Shrinks, Bound, Lease
<1> QED BY <1>4, <1>5

LEMMA AgeStep ==
    ASSUME Inv, Age
    PROVE  TypeOK' /\ Shrinks
<1>1. ASSUME NEW s \in Live
      PROVE  /\ [interaction[s] EXCEPT !.ttl = @ - 1] \in Lease
             /\ [interaction[s] EXCEPT !.ttl = @ - 1].window = interaction[s].window
             /\ [interaction[s] EXCEPT !.ttl = @ - 1].owner = interaction[s].owner
             /\ [interaction[s] EXCEPT !.ttl = @ - 1].lane = interaction[s].lane
  <2>1. interaction[s] \in Lease /\ interaction[s].ttl > 0
    BY LeaseFields DEF Inv, Live
  <2> QED BY <2>1, LanesAssumption DEF Lease
<1>2. TypeOK'
  BY <1>1 DEF Inv, TypeOK, Age, Live, Bound
<1>3. Shrinks
  BY <1>1 DEF Inv, TypeOK, Age, Shrinks, Live, Bound
<1> QED BY <1>2, <1>3

-----------------------------------------------------------------------------
(* The step that binds. *)

LEMMA LaneChoiceType ==
    ASSUME Inv, NEW s \in Sessions, NEW o \in Owners, NEW l \in LaneChoices(s, o)
    PROVE  l \in Sessions
BY LeaseFields DEF Inv, LaneChoices, Live

LEMMA BindStep ==
    ASSUME Inv,
           NEW s \in Sessions, NEW w \in Windows, NEW i \in Identities,
           NEW o \in Owners, Bind(s, w, i, o)
    PROVE  Inv'
<1>1. PICK l \in LaneChoices(s, o) :
         interaction' = [t \in Sessions |->
                            IF t = s THEN NewLease(w, i, o, l) ELSE AfterPurge(t)]
  BY DEF Bind
<1>2. l \in Sessions
  BY LaneChoiceType
<1>3. NewLease(w, i, o, l) \in Lease
  BY <1>2, LanesAssumption DEF NewLease, Lease
<1>4. TypeOK'
  BY <1>1, <1>3 DEF Inv, TypeOK, AfterPurge, Bind
<1>5. Bound' = Live \cup {s}
  BY <1>1, <1>3, UnboundAssumption DEF AfterPurge, Bound, Live
<1>6. /\ interaction'[s].window = w
      /\ interaction'[s].owner = o
      /\ interaction'[s].lane = l
  BY <1>1 DEF NewLease
<1>7. ASSUME NEW t \in Live
      PROVE  t # s /\ interaction'[t] = interaction[t]
  BY <1>1 DEF AfterPurge, Bind, Inv, LanesMinted, Live, Bound
<1>8. Live \subseteq Bound
  BY DEF Live
<1>9. WindowExclusive'
  <2>1. ASSUME NEW t \in Live, interaction[t].window = w
        PROVE  interaction[t].owner = o
    BY <2>1 DEF Bind, Accepts, InUseByOther
  <2> QED BY <2>1, <1>5, <1>6, <1>7, <1>8 DEF Inv, WindowExclusive
\* The lane bound is the lane of exactly those sessions the owner holds.
<1>10. ASSUME NEW t \in Live
       PROVE  interaction[t].lane = l <=> interaction[t].owner = o
  <2>1. CASE \E u \in Live : interaction[u].owner = o
    <3>1. PICK u \in Live : interaction[u].owner = o /\ interaction[u].lane = l
      BY <2>1 DEF LaneChoices
    <3> QED BY <3>1, <1>8 DEF Inv, LaneIsolation
  <2>2. CASE ~ \E u \in Live : interaction[u].owner = o
    <3>1. l = s
      BY <2>2 DEF LaneChoices
    <3>2. interaction[t].lane # s
      BY <1>8 DEF Inv, LanesMinted, Bind
    <3> QED BY <3>1, <3>2, <2>2
  <2> QED BY <2>1, <2>2
<1>11. LaneIsolation'
  BY <1>5, <1>6, <1>7, <1>8, <1>10 DEF Inv, LaneIsolation
<1>12. l \in minted \cup {s}
  BY <1>8 DEF LaneChoices, Inv, LanesMinted
<1>13. LanesMinted'
  BY <1>5, <1>6, <1>7, <1>8, <1>12 DEF Inv, LanesMinted, Bind
<1>14. LaneQuota'
  <2>1. OwnersIn(Bound)' = OwnersIn(Live) \cup {o}
    BY <1>5, <1>6, <1>7 DEF OwnersIn
  <2>2. IsFiniteSet(OwnersIn(Live)) /\ Cardinality(OwnersIn(Live)) \in Nat
    BY OwnersFinite, FS_CardinalityType DEF Inv
  <2>3. CASE o \in OwnersIn(Live)
    <3>1. Cardinality(OwnersIn(Live)) <= Cardinality(OwnersIn(Bound))
      BY OwnersFinite, FS_Subset DEF Inv
    <3>2. Cardinality(OwnersIn(Bound)) \in Nat
      BY OwnersFinite, FS_CardinalityType DEF Inv
    <3>3. OwnersIn(Bound)' = OwnersIn(Live)
      BY <2>1, <2>3
    <3> QED BY <3>1, <3>2, <3>3, <2>2, LanesAssumption DEF Inv, LaneQuota
  <2>4. CASE o \notin OwnersIn(Live)
    <3>1. Cardinality(OwnersIn(Live)) < MaxAgentLanes
      BY <2>2, <2>4, LanesAssumption DEF Bind, Accepts, LaneQuotaReached
    <3>2. Cardinality(OwnersIn(Bound)') = Cardinality(OwnersIn(Live)) + 1
      BY <2>1, <2>2, <2>4, FS_AddElement
    <3> QED BY <3>1, <3>2, <2>2, LanesAssumption DEF LaneQuota
  <2> QED BY <2>3, <2>4
<1> QED BY <1>4, <1>9, <1>11, <1>13, <1>14 DEF Inv

LEMMA NextInv == Inv /\ [NextInteraction]_interactionVars => Inv'
<1> SUFFICES ASSUME Inv, [NextInteraction]_interactionVars
             PROVE  Inv'
  OBVIOUS
<1>1. CASE \E s \in Sessions, w \in Windows, i \in Identities, o \in Owners : Bind(s, w, i, o)
  BY <1>1, BindStep
<1>2. CASE \E w \in Windows, o \in Owners : RejectBind(w, o)
  BY <1>2, PurgeStep, ShrinkKeeps
<1>3. CASE \E s \in Sessions : Clear(s)
  BY <1>3, ClearStep, ShrinkKeeps
<1>4. CASE \E s \in Sessions : Renew(s)
  BY <1>4, RenewStep, ShrinkKeeps
<1>5. CASE \E active \in SUBSET Sessions : RetainActive(active)
  BY <1>5, RetainStep, ShrinkKeeps
<1>6. CASE Age
  BY <1>6, AgeStep, ShrinkKeeps
<1>7. CASE UNCHANGED interactionVars
  BY <1>7 DEF interactionVars, Inv, TypeOK, LanesMinted, WindowExclusive, LaneIsolation,
              LaneQuota, OwnersIn, Bound
<1> QED BY <1>1, <1>2, <1>3, <1>4, <1>5, <1>6, <1>7 DEF NextInteraction

LEMMA InvHolds == SpecInteraction => []Inv
BY InitInv, NextInv, PTL DEF SpecInteraction

(* What a step keeps of a lease that is stored before it and after it.     *)
LEMMA LeasesKept ==
    ASSUME Inv, [NextInteraction]_interactionVars
    PROVE  /\ minted \subseteq minted'
           /\ \A s \in Bound' : s \in Bound => /\ interaction'[s].window = interaction[s].window
                                             /\ interaction'[s].owner = interaction[s].owner
<1> DEFINE Kept == /\ minted \subseteq minted'
                   /\ \A s \in Bound' : s \in Bound => /\ interaction'[s].window = interaction[s].window
                                                     /\ interaction'[s].owner = interaction[s].owner
<1>1. Shrinks => Kept
  BY DEF Shrinks, Bound
<1>2. ASSUME NEW s \in Sessions, NEW w \in Windows, NEW i \in Identities, NEW o \in Owners,
             Bind(s, w, i, o)
      PROVE  Kept
  BY <1>2 DEF Bind, Bound, AfterPurge, Inv, LanesMinted
<1>3. CASE \E w \in Windows, o \in Owners : RejectBind(w, o)
  BY <1>1, <1>3, PurgeStep
<1>4. CASE \E s \in Sessions : Clear(s) \/ Renew(s)
  BY <1>1, <1>4, ClearStep, RenewStep
<1>5. CASE \E active \in SUBSET Sessions : RetainActive(active)
  BY <1>1, <1>5, RetainStep
<1>6. CASE Age
  BY <1>1, <1>6, AgeStep
<1>7. CASE UNCHANGED interactionVars
  BY <1>7 DEF interactionVars, Bound
<1> QED BY <1>2, <1>3, <1>4, <1>5, <1>6, <1>7 DEF NextInteraction

(* The state of interaction.rs is always well formed. *)
THEOREM TypeCorrect == SpecInteraction => []TypeOK
<1>1. Inv => TypeOK
  BY DEF Inv
<1> QED BY InvHolds, <1>1, PTL

(* Window interaction leases are exclusive across owners, for any number   *)
(* of sessions, windows and owners.                                        *)
THEOREM WindowExclusiveHolds == SpecInteraction => []WindowExclusive
<1>1. Inv => WindowExclusive
  BY DEF Inv
<1> QED BY InvHolds, <1>1, PTL

(* Lanes are isolated between owners and stable within one. *)
THEOREM LaneIsolationHolds == SpecInteraction => []LaneIsolation
<1>1. Inv => LaneIsolation
  BY DEF Inv
<1> QED BY InvHolds, <1>1, PTL

(* No sequence of operations makes the store hand out more lanes than the  *)
(* compositor plugin keeps.                                                *)
THEOREM LaneQuotaHolds == SpecInteraction => []LaneQuota
<1>1. Inv => LaneQuota
  BY DEF Inv
<1> QED BY InvHolds, <1>1, PTL
-----------------------------------------------------------------------------
(* The store is a lock on each window with a lane for each holder.         *)

LEMMA HeldBy ==
    /\ Leases!Holding = OwnersIn(Live)
    /\ \A w \in Windows, o \in Owners : ~InUseByOther(w, o) => Leases!HoldersOf(w) \subseteq {o}
<1> DEFINE held == {<<interaction[s].window, interaction[s].owner>> : s \in Live}
<1>1. Leases!Holding = {h[2] : h \in held}
  BY DEF Leases!Holding
<1>2. OwnersIn(Live) \subseteq {h[2] : h \in held}
  <2> SUFFICES ASSUME NEW s \in Live PROVE interaction[s].owner \in {h[2] : h \in held}
    BY DEF OwnersIn
  <2>1. /\ <<interaction[s].window, interaction[s].owner>> \in held
        /\ <<interaction[s].window, interaction[s].owner>>[2] = interaction[s].owner
    OBVIOUS
  <2>2. \E h \in held : h[2] = interaction[s].owner
    BY <2>1
  <2> QED BY <2>2
<1>3. {h[2] : h \in held} \subseteq OwnersIn(Live)
  BY DEF OwnersIn
<1>4. ASSUME NEW w \in Windows, NEW o \in Owners, ~InUseByOther(w, o),
             NEW p \in Leases!HoldersOf(w)
      PROVE  p = o
  <2>1. <<w, p>> \in held
    BY DEF Leases!HoldersOf
  <2>2. PICK s \in Live : <<w, p>> = <<interaction[s].window, interaction[s].owner>>
    BY <2>1
  <2> QED BY <1>4, <2>2 DEF InUseByOther
<1> QED BY <1>1, <1>2, <1>3, <1>4

LEMMA HeldPrimed == Leases!Holding' = OwnersIn(Live)'
<1> DEFINE held == {<<interaction'[s].window, interaction'[s].owner>> : s \in Live'}
<1>1. Leases!Holding' = {h[2] : h \in held}
  BY DEF Leases!Holding
<1>2. OwnersIn(Live)' = {interaction'[s].owner : s \in Live'}
  BY DEF OwnersIn
<1>3. ASSUME NEW s \in Live' PROVE interaction'[s].owner \in {h[2] : h \in held}
  <2>1. /\ <<interaction'[s].window, interaction'[s].owner>> \in held
        /\ <<interaction'[s].window, interaction'[s].owner>>[2] = interaction'[s].owner
    OBVIOUS
  <2>2. \E h \in held : h[2] = interaction'[s].owner
    BY <2>1
  <2> QED BY <2>2
<1>4. {h[2] : h \in held} \subseteq {interaction'[s].owner : s \in Live'}
  OBVIOUS
<1> QED BY <1>1, <1>2, <1>3, <1>4

\* What only drops sessions, or lets them expire, lets go of windows.  The lane
\* of an owner goes with its last session: the others use the same one.
LEMMA DropIsRelease ==
    ASSUME Inv, Shrinks, Live' \subseteq Live
    PROVE  Leases!Release
<1> DEFINE held == {<<interaction[s].window, interaction[s].owner>> : s \in Live}
           lanes == {<<interaction[s].owner, interaction[s].lane>> : s \in Bound}
<1>1. /\ Bound' \subseteq Bound
      /\ Live' \subseteq Bound'
      /\ \A s \in Bound' : /\ interaction'[s].window = interaction[s].window
                           /\ interaction'[s].owner = interaction[s].owner
                           /\ interaction'[s].lane = interaction[s].lane
  BY DEF Shrinks, Bound, Live
<1>2. held' \subseteq held
  BY <1>1
<1>3. lanes' \subseteq lanes
  BY <1>1
<1>4. ASSUME NEW s \in Bound, NEW t \in Live', interaction'[t].owner = interaction[s].owner
      PROVE  <<interaction[s].owner, interaction[s].lane>> \in lanes'
  <2>1. t \in Bound' /\ t \in Bound /\ interaction[t].owner = interaction[s].owner
    BY <1>1, <1>4
  <2>2. interaction[t].lane = interaction[s].lane
    BY <2>1 DEF Inv, LaneIsolation
  <2>3. <<interaction'[t].owner, interaction'[t].lane>> \in lanes'
    BY <2>1
  <2> QED BY <1>1, <1>4, <2>1, <2>2, <2>3
<1>5. \A r \in lanes : r[1] \in OwnersIn(Live)' => r \in lanes'
  <2> SUFFICES ASSUME NEW s \in Bound, interaction[s].owner \in OwnersIn(Live)'
               PROVE  <<interaction[s].owner, interaction[s].lane>> \in lanes'
    OBVIOUS
  <2>1. PICK t \in Live' : interaction'[t].owner = interaction[s].owner
    BY DEF OwnersIn
  <2> QED BY <1>4, <2>1
<1>6. Leases!Holding' = OwnersIn(Live)'
  BY HeldPrimed
<1>7. minted' = minted
  BY DEF Shrinks
<1> QED BY <1>2, <1>3, <1>5, <1>6, <1>7 DEF Leases!Release

LEMMA RenewIsResume ==
    ASSUME Inv, NEW s \in Sessions, Renew(s)
    PROVE  Leases!NextLeases
<1>1. Shrinks
  BY RenewStep
<1>2. /\ interaction[s] \in Lease /\ s \in Bound
      /\ interaction[s].window \in Windows /\ interaction[s].owner \in Owners
  BY LeaseFields DEF Inv, Renew
<1>3. interaction' = [interaction EXCEPT ![s] = [interaction[s] EXCEPT !.ttl = SessionTTL]]
  BY DEF Renew
<1>4. /\ \A t \in Sessions : t # s => interaction'[t] = interaction[t]
      /\ interaction'[s] = [interaction[s] EXCEPT !.ttl = SessionTTL]
  BY <1>3 DEF Inv, TypeOK
<1>5. [interaction[s] EXCEPT !.ttl = SessionTTL] \in Lease
  BY <1>2, LanesAssumption DEF Lease
<1>6. interaction'[s] # Unbound /\ interaction'[s].ttl > 0
  BY <1>2, <1>4, <1>5, LanesAssumption, UnboundAssumption DEF Lease
<1>7. Live' = Live \cup {s}
  BY <1>4, <1>6 DEF Live, Bound
<1>8. CASE s \in Live
  <2>1. Leases!Release
    BY <1>1, <1>7, <1>8, DropIsRelease
  <2> QED BY <2>1 DEF Leases!NextLeases
<1>9. CASE s \notin Live
  <2> PICK w \in Windows, o \in Owners : w = interaction[s].window /\ o = interaction[s].owner
    BY <1>2
  <2> DEFINE held == {<<interaction[t].window, interaction[t].owner>> : t \in Live}
             lanes == {<<interaction[t].owner, interaction[t].lane>> : t \in Bound}
  <2>1. Leases!HoldersOf(w) \subseteq {o}
    <3>1. ~InUseByOther(w, o)
      BY <1>2 DEF Inv, WindowExclusive, InUseByOther, Live
    <3> QED BY <1>2, <3>1, HeldBy
  <2>2. \A t \in Bound : /\ interaction'[t].window = interaction[t].window
                         /\ interaction'[t].owner = interaction[t].owner
                         /\ interaction'[t].lane = interaction[t].lane
    BY <1>2, <1>4 DEF Bound, Lease
  <2>3. Bound' = Bound /\ Live \subseteq Bound
    BY <1>2, <1>4, <1>6 DEF Bound, Live
  <2>4. held' = held \cup {<<w, o>>}
    BY <1>2, <1>7, <2>2, <2>3
  <2>5. lanes' = lanes
    BY <2>2, <2>3
  <2>6. \E r \in lanes : r[1] = o
    <3>1. <<o, interaction[s].lane>> \in lanes /\ <<o, interaction[s].lane>>[1] = o
      BY <1>2
    <3> QED BY <3>1
  <2>7. minted' = minted
    BY DEF Renew
  <2>8. Leases!Resume(w, o)
    BY <2>1, <2>4, <2>5, <2>6, <2>7 DEF Leases!Resume
  <2> QED BY <2>8 DEF Leases!NextLeases
<1> QED BY <1>8, <1>9

LEMMA BindIsGrant ==
    ASSUME Inv, NEW s \in Sessions, NEW w \in Windows, NEW i \in Identities, NEW o \in Owners,
           Bind(s, w, i, o)
    PROVE  Leases!Grant(w, o, s)
<1> DEFINE held == {<<interaction[t].window, interaction[t].owner>> : t \in Live}
           lanes == {<<interaction[t].owner, interaction[t].lane>> : t \in Bound}
           kept == {r \in lanes : r[1] \in OwnersIn(Live)}
           liveLanes == {<<interaction[t].owner, interaction[t].lane>> : t \in Live}
<1>1. PICK l \in LaneChoices(s, o) :
         interaction' = [t \in Sessions |->
                            IF t = s THEN NewLease(w, i, o, l) ELSE AfterPurge(t)]
  BY DEF Bind
<1>2. l \in Sessions
  BY LaneChoiceType
<1>3. NewLease(w, i, o, l) \in Lease
  BY <1>2, LanesAssumption DEF NewLease, Lease
<1>4. Live' = Live \cup {s} /\ Bound' = Live \cup {s}
  BY <1>1, <1>3, UnboundAssumption, LanesAssumption DEF AfterPurge, Bound, Live, NewLease
<1>5. /\ interaction'[s].window = w
      /\ interaction'[s].owner = o
      /\ interaction'[s].lane = l
  BY <1>1 DEF NewLease
<1>6. ASSUME NEW t \in Live
      PROVE  interaction'[t] = interaction[t]
  BY <1>1 DEF AfterPurge, Bind, Inv, LanesMinted, Live, Bound
<1>7. held' = held \cup {<<w, o>>}
  BY <1>4, <1>5, <1>6
<1>8. lanes' = liveLanes \cup {<<o, l>>}
  BY <1>4, <1>5, <1>6
<1>9. liveLanes = kept
  <2>1. Live \subseteq Bound
    BY DEF Live
  <2>2. ASSUME NEW t \in Live
        PROVE  <<interaction[t].owner, interaction[t].lane>> \in kept
    BY <2>1 DEF OwnersIn
  <2>3. ASSUME NEW t \in Bound, interaction[t].owner \in OwnersIn(Live)
        PROVE  <<interaction[t].owner, interaction[t].lane>> \in liveLanes
    <3>1. PICK u \in Live : interaction[u].owner = interaction[t].owner
      BY <2>3 DEF OwnersIn
    <3>2. interaction[u].lane = interaction[t].lane
      BY <2>1, <3>1 DEF Inv, LaneIsolation
    <3> QED BY <3>1, <3>2
  <2> QED BY <2>2, <2>3
<1>10. lanes' = IF o \in OwnersIn(Live) THEN kept ELSE kept \cup {<<o, s>>}
  <2>1. CASE o \in OwnersIn(Live)
    <3>1. PICK u \in Live : interaction[u].owner = o /\ interaction[u].lane = l
      BY <2>1 DEF OwnersIn, LaneChoices
    <3>2. <<o, l>> \in liveLanes
      BY <3>1
    <3> QED BY <1>8, <1>9, <2>1, <3>2
  <2>2. CASE o \notin OwnersIn(Live)
    <3>1. l = s
      BY <2>2 DEF OwnersIn, LaneChoices
    <3> QED BY <1>8, <1>9, <2>2, <3>1
  <2> QED BY <2>1, <2>2
<1>11. Leases!HoldersOf(w) \subseteq {o}
  BY HeldBy DEF Bind, Accepts
<1>12. o \in OwnersIn(Live) \/ Leases!Cardinality(OwnersIn(Live)) < MaxAgentLanes
  <2>1. Cardinality(OwnersIn(Live)) \in Nat
    BY OwnersFinite, FS_CardinalityType DEF Inv
  <2>2. o \in OwnersIn(Live) \/ Cardinality(OwnersIn(Live)) < MaxAgentLanes
    BY <2>1, LanesAssumption DEF Bind, Accepts, LaneQuotaReached
  <2> QED BY <2>2 DEF Cardinality, Leases!Cardinality
<1>13. Leases!KeptLanes = kept
  BY HeldBy DEF Leases!KeptLanes
<1>14. s \notin minted /\ minted' = minted \cup {s}
  BY DEF Bind
<1> QED BY <1>7, <1>10, <1>11, <1>12, <1>13, <1>14, HeldBy DEF Leases!Grant

LEMMA LeasesStep == Inv /\ [NextInteraction]_interactionVars => [Leases!NextLeases]_(Leases!leaseVars)
<1> SUFFICES ASSUME Inv, [NextInteraction]_interactionVars
             PROVE  Leases!NextLeases \/ UNCHANGED Leases!leaseVars
  OBVIOUS
<1>1. ASSUME NEW s \in Sessions, NEW w \in Windows, NEW i \in Identities, NEW o \in Owners,
             Bind(s, w, i, o)
      PROVE  Leases!NextLeases
  <2>1. Leases!Grant(w, o, s)
    BY <1>1, BindIsGrant
  <2> QED BY <2>1 DEF Leases!NextLeases
<1>2. ASSUME Shrinks, Live' \subseteq Live
      PROVE  Leases!NextLeases
  BY <1>2, DropIsRelease DEF Leases!NextLeases
<1>3. CASE \E w \in Windows, o \in Owners : RejectBind(w, o)
  <2>1. Shrinks
    BY <1>3, PurgeStep
  <2>2. Live' \subseteq Live
    BY <1>3 DEF RejectBind, AfterPurge, Live, Bound
  <2> QED BY <1>2, <2>1, <2>2
<1>4. CASE \E s \in Sessions : Clear(s)
  <2>1. Shrinks
    BY <1>4, ClearStep
  <2>2. Live' \subseteq Live
    BY <1>4 DEF Clear, Live, Bound, Inv, TypeOK
  <2> QED BY <1>2, <2>1, <2>2
<1>5. CASE \E s \in Sessions : Renew(s)
  BY <1>5, RenewIsResume
<1>6. CASE \E active \in SUBSET Sessions : RetainActive(active)
  <2>1. Shrinks
    BY <1>6, RetainStep
  <2>2. Live' \subseteq Live
    BY <1>6 DEF RetainActive, Live, Bound
  <2> QED BY <1>2, <2>1, <2>2
<1>7. CASE Age
  <2>1. Shrinks
    BY <1>7, AgeStep
  <2>2. Live' \subseteq Live
    BY <1>7 DEF Age, Live, Bound
  <2> QED BY <1>2, <2>1, <2>2
<1>8. CASE UNCHANGED interactionVars
  BY <1>8 DEF interactionVars, Leases!leaseVars, Live, Bound
<1> QED BY <1>1, <1>3, <1>4, <1>5, <1>6, <1>7, <1>8 DEF NextInteraction

LEMMA LeasesStart == InitInteraction => Leases!InitLeases
<1> SUFFICES ASSUME InitInteraction PROVE Leases!InitLeases
  OBVIOUS
<1>1. Bound = {} /\ Live = {} /\ minted = {}
  BY DEF InitInteraction, Bound, Live
<1> QED BY <1>1 DEF Leases!InitLeases

(* The store, for any number of sessions, windows and owners, implements   *)
(* the lock: a window passes from one agent to another only over being     *)
(* free, and an agent has one lane while it holds a window, nobody else's, *)
(* however sessions expire, are revived, purged or pruned (interaction.rs).*)
THEOREM LeasesImplemented == SpecInteraction => ImplementsLeases
BY LeasesStart, LeasesStep, InvHolds, PTL DEF SpecInteraction, ImplementsLeases, Leases!SpecLeases
\* The abstract steps in terms of the sessions.
LEMMA HandOver ==
    ASSUME Inv, [NextInteraction]_interactionVars, NEW s \in Live, NEW t \in Live'
    PROVE  /\ interaction[s].window = interaction'[t].window => interaction[s].owner = interaction'[t].owner
           /\ interaction[s].owner = interaction'[t].owner => interaction[s].lane = interaction'[t].lane
<1> DEFINE held == {<<interaction[u].window, interaction[u].owner>> : u \in Live}
           lanes == {<<interaction[u].owner, interaction[u].lane>> : u \in Bound}
           heldNext == {<<interaction'[u].window, interaction'[u].owner>> : u \in Live'}
           lanesNext == {<<interaction'[u].owner, interaction'[u].lane>> : u \in Bound'}
           OneOwner == interaction[s].window = interaction'[t].window
                          => interaction[s].owner = interaction'[t].owner
           OneLane == interaction[s].owner = interaction'[t].owner
                          => interaction[s].lane = interaction'[t].lane
<1>1. /\ s \in Bound /\ t \in Bound'
      /\ <<interaction[s].window, interaction[s].owner>> \in held
      /\ <<interaction'[t].window, interaction'[t].owner>> \in heldNext
      /\ <<interaction'[t].owner, interaction'[t].lane>> \in lanesNext
  BY DEF Live
<1>2. ASSUME heldNext \subseteq held
      PROVE  OneOwner
  <2>1. PICK u \in Live : /\ interaction[u].window = interaction'[t].window
                         /\ interaction[u].owner = interaction'[t].owner
    BY <1>1, <1>2
  <2> QED BY <2>1, <1>1 DEF Inv, WindowExclusive, Live
<1>3. ASSUME <<interaction'[t].owner, interaction'[t].lane>> \in lanes
      PROVE  OneLane
  <2>1. PICK u \in Bound : /\ interaction[u].owner = interaction'[t].owner
                          /\ interaction[u].lane = interaction'[t].lane
    BY <1>3
  <2> QED BY <2>1, <1>1 DEF Inv, LaneIsolation
<1>4. ASSUME NEW w \in Windows, NEW o \in Owners, Leases!HoldersOf(w) \subseteq {o},
             heldNext = held \cup {<<w, o>>}
      PROVE  OneOwner
  <2>1. CASE <<interaction'[t].window, interaction'[t].owner>> \in held
    <3>1. PICK u \in Live : /\ interaction[u].window = interaction'[t].window
                           /\ interaction[u].owner = interaction'[t].owner
      BY <2>1
    <3> QED BY <3>1, <1>1 DEF Inv, WindowExclusive, Live
  <2>2. CASE <<interaction'[t].window, interaction'[t].owner>> = <<w, o>>
    <3>1. interaction[s].owner \in Owners
      BY <1>1, LeaseFields DEF Inv
    <3>2. interaction[s].window = w => interaction[s].owner \in Leases!HoldersOf(w)
      BY <1>1, <3>1 DEF Leases!HoldersOf
    <3> QED BY <1>4, <2>2, <3>2
  <2> QED BY <1>1, <1>4, <2>1, <2>2
<1>5. CASE Leases!Release
  BY <1>1, <1>2, <1>3, <1>5 DEF Leases!Release
<1>6. ASSUME NEW w \in Windows, NEW o \in Owners, Leases!Resume(w, o)
      PROVE  OneOwner /\ OneLane
  BY <1>1, <1>3, <1>4, <1>6 DEF Leases!Resume
<1>7. ASSUME NEW w \in Windows, NEW o \in Owners, NEW id \in Sessions, Leases!Grant(w, o, id)
      PROVE  OneOwner /\ OneLane
  <2>1. OneOwner
    BY <1>4, <1>7 DEF Leases!Grant
  <2>2. Leases!KeptLanes \subseteq lanes /\ interaction[s].owner \in Leases!Holding
    BY HeldBy DEF Leases!KeptLanes, OwnersIn
  <2>3. lanesNext = IF o \in Leases!Holding THEN Leases!KeptLanes ELSE Leases!KeptLanes \cup {<<o, id>>}
    BY <1>7 DEF Leases!Grant
  <2>4. OneLane
    BY <1>1, <1>3, <2>2, <2>3
  <2> QED BY <2>1, <2>4
<1>8. CASE UNCHANGED Leases!leaseVars
  <2>1. heldNext = held /\ lanesNext = lanes
    BY <1>8 DEF Leases!leaseVars
  <2> QED BY <1>1, <1>2, <1>3, <2>1
<1>9. Leases!NextLeases \/ UNCHANGED Leases!leaseVars
  BY LeasesStep
<1> QED BY <1>5, <1>6, <1>7, <1>8, <1>9 DEF Leases!NextLeases

(* What that means for the sessions: from one moment to the next no window *)
(* goes from one agent to another, and no agent that goes on holding a     *)
(* window changes its lane, whichever sessions they hold it by             *)
(* (interaction.rs:107).                                                   *)
THEOREM LeasesPassOverFree ==
    SpecInteraction =>
        [][\A s \in Live, t \in Live' :
              /\ interaction[s].window = interaction'[t].window
                    => interaction[s].owner = interaction'[t].owner
              /\ interaction[s].owner = interaction'[t].owner
                    => interaction[s].lane = interaction'[t].lane]_interactionVars
<1> DEFINE Passes == \A s \in Live, t \in Live' :
                        /\ interaction[s].window = interaction'[t].window
                              => interaction[s].owner = interaction'[t].owner
                        /\ interaction[s].owner = interaction'[t].owner
                              => interaction[s].lane = interaction'[t].lane
<1>1. Inv /\ [NextInteraction]_interactionVars => [Passes]_interactionVars
  BY HandOver
<1> QED BY <1>1, InvHolds, PTL DEF SpecInteraction
=============================================================================

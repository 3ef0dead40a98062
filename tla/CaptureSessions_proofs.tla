----------------------- MODULE CaptureSessions_proofs -----------------------
(***************************************************************************)
(* Proofs about the retained-capture store, for every set of requests,     *)
(* sessions, windows and owners, and every quota.                          *)
(***************************************************************************)
EXTENDS CaptureSessions, FiniteSetTheorems, TLAPS

ReservedBy(o) == {q \in Reserved : pending[q].owner = o}
HeldBy(o)     == {s \in Active : slots[s].owner = o}
Choosing      == {q \in Reserved : ~Exact(pending[q].source)}
Chosen        == {s \in Active : ~Exact(slots[s].source)}

(* The quotas are about finite sets, though there may be any number of     *)
(* request and session ids: a step adds one reservation or one slot.       *)
CaptureInv ==
    /\ CaptureTypeOK
    /\ IsFiniteSet(Reserved) /\ IsFiniteSet(Active)
    /\ OwnerQuota
    /\ ChooserSerialized

-----------------------------------------------------------------------------
(* Two finite sets that are counted together.                              *)

LEMMA SmallerSet ==
    ASSUME NEW A, NEW B, IsFiniteSet(A), IsFiniteSet(B),
           NEW C \in SUBSET A, NEW D \in SUBSET B
    PROVE  /\ IsFiniteSet(C) /\ IsFiniteSet(D)
           /\ Cardinality(C) + Cardinality(D) \in Nat
           /\ Cardinality(A) + Cardinality(B) \in Nat
           /\ Cardinality(C) + Cardinality(D) <= Cardinality(A) + Cardinality(B)
<1>1. /\ IsFiniteSet(C) /\ Cardinality(C) <= Cardinality(A)
      /\ IsFiniteSet(D) /\ Cardinality(D) <= Cardinality(B)
  BY FS_Subset
<1>2. /\ Cardinality(A) \in Nat /\ Cardinality(B) \in Nat
      /\ Cardinality(C) \in Nat /\ Cardinality(D) \in Nat
  BY <1>1, FS_CardinalityType
<1> QED BY <1>1, <1>2

LEMMA OneMore ==
    ASSUME NEW A, NEW B, IsFiniteSet(A), IsFiniteSet(B), NEW x
    PROVE  /\ IsFiniteSet(A \cup {x})
           /\ Cardinality(A \cup {x}) + Cardinality(B) \in Nat
           /\ Cardinality(A) + Cardinality(B) \in Nat
           /\ Cardinality(A \cup {x}) + Cardinality(B) <= Cardinality(A) + Cardinality(B) + 1
<1>1. /\ IsFiniteSet(A \cup {x})
      /\ Cardinality(A \cup {x}) = IF x \in A THEN Cardinality(A) ELSE Cardinality(A) + 1
  BY FS_AddElement
<1>2. Cardinality(A) \in Nat /\ Cardinality(B) \in Nat
  BY FS_CardinalityType
<1> QED BY <1>1, <1>2

(* An element goes from the one set to the other.                          *)
LEMMA Moved ==
    ASSUME NEW A, NEW B, IsFiniteSet(A), IsFiniteSet(B), NEW x \in A, NEW y
    PROVE  /\ IsFiniteSet(A \ {x}) /\ IsFiniteSet(B \cup {y})
           /\ Cardinality(A \ {x}) + Cardinality(B \cup {y}) \in Nat
           /\ Cardinality(A) + Cardinality(B) \in Nat
           /\ Cardinality(A \ {x}) + Cardinality(B \cup {y}) <= Cardinality(A) + Cardinality(B)
<1>1. /\ IsFiniteSet(B \cup {y})
      /\ Cardinality(B \cup {y}) = IF y \in B THEN Cardinality(B) ELSE Cardinality(B) + 1
  BY FS_AddElement
<1>2. /\ IsFiniteSet(A \ {x})
      /\ Cardinality(A \ {x}) = IF x \in A THEN Cardinality(A) - 1 ELSE Cardinality(A)
  BY FS_RemoveElement
<1>3. /\ Cardinality(A) \in Nat /\ Cardinality(B) \in Nat
      /\ Cardinality(A \ {x}) \in Nat
  BY <1>2, FS_CardinalityType
<1> QED BY <1>1, <1>2, <1>3

-----------------------------------------------------------------------------
(* The store.                                                              *)

LEMMA SlotFields ==
    ASSUME CaptureTypeOK
    PROVE  /\ \A s \in Active : /\ slots[s] \in Slot /\ slots[s].source \in Sources
                                /\ slots[s].owner \in Owners /\ slots[s].ttl \in 0..SessionTTL
           /\ \A q \in Reserved : /\ pending[q] \in Reservation /\ pending[q].source \in Sources
                                  /\ pending[q].owner \in Owners
<1>1. \A s \in Active : slots[s] \in Slot
  BY DEF CaptureTypeOK, Active
<1>2. \A q \in Reserved : pending[q] \in Reservation
  BY DEF CaptureTypeOK, Reserved
<1> QED BY <1>1, <1>2 DEF Slot, Reservation

(* A step that adds neither a reservation nor a slot keeps what the quotas *)
(* read of those it leaves.                                                *)
Thins ==
    /\ Reserved' \subseteq Reserved
    /\ \A q \in Reserved' : pending'[q] = pending[q]
    /\ Active' \subseteq Active
    /\ \A s \in Active' : /\ slots'[s].owner = slots[s].owner
                          /\ slots'[s].source = slots[s].source

LEMMA ThinsKeeps ==
    ASSUME CaptureInv, CaptureTypeOK', Thins
    PROVE  CaptureInv'
<1> USE DEF CaptureInv
<1>1. IsFiniteSet(Reserved') /\ IsFiniteSet(Active')
  BY FS_Subset DEF Thins
<1>2. ASSUME NEW o \in Owners
      PROVE  Cardinality(ReservedBy(o)') + Cardinality(HeldBy(o)') <= MaxExact
  <2>1. ReservedBy(o)' \subseteq ReservedBy(o) /\ HeldBy(o)' \subseteq HeldBy(o)
    BY DEF Thins, ReservedBy, HeldBy
  <2>2. IsFiniteSet(ReservedBy(o)) /\ IsFiniteSet(HeldBy(o))
    BY FS_Subset DEF ReservedBy, HeldBy
  <2>3. Cardinality(ReservedBy(o)) + Cardinality(HeldBy(o)) <= MaxExact
    BY DEF OwnerQuota, ReservedBy, HeldBy
  <2> QED BY <2>1, <2>2, <2>3, SmallerSet, QuotaAssumption
<1>3. Cardinality(Choosing') + Cardinality(Chosen') <= 1
  <2>1. Choosing' \subseteq Choosing /\ Chosen' \subseteq Chosen
    BY DEF Thins, Choosing, Chosen
  <2>2. IsFiniteSet(Choosing) /\ IsFiniteSet(Chosen)
    BY FS_Subset DEF Choosing, Chosen
  <2>3. Cardinality(Choosing) + Cardinality(Chosen) <= 1
    BY DEF ChooserSerialized, Choosing, Chosen
  <2> QED BY <2>1, <2>2, <2>3, SmallerSet
<1>4. OwnerQuota'
  BY <1>2 DEF OwnerQuota, ReservedBy, HeldBy
<1>5. ChooserSerialized'
  BY <1>3 DEF ChooserSerialized, Choosing, Chosen
<1> QED BY <1>1, <1>4, <1>5

LEMMA ReapStep ==
    ASSUME CaptureTypeOK, slots' = Reaped, UNCHANGED <<opened, ended>>,
           pending' \in [Requests -> Reservation \cup {None}]
    PROVE  /\ CaptureTypeOK'
           /\ Active' = Alive
           /\ Alive \subseteq Active
           /\ \A s \in Alive : slots'[s] = slots[s]
<1>1. Alive \subseteq Active /\ Active \subseteq Sessions
  BY DEF Alive, Active
<1>2. \A s \in Alive : slots'[s] = slots[s] /\ slots[s] # None
  BY <1>1 DEF Reaped, Active
<1>3. Active' = Alive
  BY <1>1, <1>2 DEF Active, Reaped
<1>4. slots' \in [Sessions -> Slot \cup {None}]
  BY DEF Reaped, CaptureTypeOK
<1> QED BY <1>1, <1>2, <1>3, <1>4 DEF CaptureTypeOK

LEMMA RefuseStep ==
    ASSUME CaptureInv, Reap
    PROVE  CaptureInv'
<1>1. CaptureTypeOK' /\ Active' = Alive /\ Alive \subseteq Active /\ \A s \in Alive : slots'[s] = slots[s]
  BY ReapStep DEF CaptureInv, Reap, CaptureTypeOK
<1>2. Thins
  BY <1>1 DEF Thins, Reap, Reserved
<1> QED BY <1>1, <1>2, ThinsKeeps

LEMMA BeginStep ==
    ASSUME CaptureInv, NEW q \in Requests, NEW o \in Owners, NEW src \in Sources,
           BeginOpen(q, o, src)
    PROVE  CaptureInv'
<1> DEFINE new == [source |-> src, owner |-> o]
<1>1. new \in Reservation /\ new # None
  BY NoneAssumption DEF Reservation
<1>2. pending' = [pending EXCEPT ![q] = new] /\ pending' \in [Requests -> Reservation \cup {None}]
  BY <1>1 DEF BeginOpen, CaptureInv, CaptureTypeOK
<1>3. CaptureTypeOK' /\ Active' = Alive /\ Alive \subseteq Active /\ \A s \in Alive : slots'[s] = slots[s]
  BY <1>2, ReapStep DEF CaptureInv, BeginOpen
<1>4. Reserved' = Reserved \cup {q} /\ pending'[q] = new /\ \A r \in Reserved : pending'[r] = pending[r]
  BY <1>1, <1>2 DEF Reserved, BeginOpen, CaptureInv, CaptureTypeOK
<1>5. IsFiniteSet(Reserved') /\ IsFiniteSet(Active')
  BY <1>3, <1>4, FS_AddElement, FS_Subset DEF CaptureInv
<1> DEFINE AliveOf(p) == {s \in Alive : slots[s].owner = p}
           AliveChosen == {s \in Alive : ~Exact(slots[s].source)}
<1>6. ASSUME NEW p \in Owners
      PROVE  /\ IsFiniteSet(ReservedBy(p)) /\ IsFiniteSet(HeldBy(p))
             /\ AliveOf(p) \subseteq HeldBy(p) /\ HeldBy(p)' = AliveOf(p)
             /\ Cardinality(ReservedBy(p)) + Cardinality(HeldBy(p)) <= MaxExact
             /\ ReservedBy(p)' = IF p = o THEN ReservedBy(p) \cup {q} ELSE ReservedBy(p)
  BY <1>3, <1>4, FS_Subset DEF CaptureInv, OwnerQuota, ReservedBy, HeldBy, BeginOpen, Reserved
<1>7. Held(o) = Cardinality(ReservedBy(o)) + Cardinality(AliveOf(o))
  BY DEF Held, ReservedBy
<1>8. Held(o) \in Nat /\ Held(o) < MaxExact
  <2>1. Held(o) \in Nat
    BY <1>6, <1>7, SmallerSet
  <2> QED BY <2>1, QuotaAssumption DEF BeginOpen, MayOpen
<1>9. ASSUME NEW p \in Owners
      PROVE  Cardinality(ReservedBy(p)') + Cardinality(HeldBy(p)') <= MaxExact
  <2>1. CASE p = o
    <3>1. IsFiniteSet(AliveOf(o))
      BY <1>6, FS_Subset
    <3>2. Cardinality(ReservedBy(o) \cup {q}) + Cardinality(AliveOf(o))
             <= Cardinality(ReservedBy(o)) + Cardinality(AliveOf(o)) + 1
          /\ Cardinality(ReservedBy(o) \cup {q}) + Cardinality(AliveOf(o)) \in Nat
      BY <3>1, <1>6, OneMore
    <3>3. Cardinality(ReservedBy(o) \cup {q}) + Cardinality(AliveOf(o)) <= MaxExact
      BY <3>2, <1>7, <1>8, QuotaAssumption
    <3>4. ReservedBy(p)' = ReservedBy(o) \cup {q} /\ HeldBy(p)' = AliveOf(o)
      BY <2>1, <1>6
    <3> QED BY <3>3, <3>4
  <2>2. CASE p # o
    BY <2>2, <1>6, SmallerSet, QuotaAssumption
  <2> QED BY <2>1, <2>2
<1>10. OwnerQuota'
  BY <1>9 DEF OwnerQuota, ReservedBy, HeldBy
<1>11. /\ IsFiniteSet(Choosing) /\ IsFiniteSet(Chosen)
       /\ Cardinality(Choosing) + Cardinality(Chosen) <= 1
       /\ AliveChosen \subseteq Chosen /\ Chosen' = AliveChosen
  BY <1>3, FS_Subset DEF CaptureInv, ChooserSerialized, Choosing, Chosen
<1>12. Cardinality(Choosing') + Cardinality(Chosen') <= 1
  <2>1. CASE Exact(src)
    <3>1. Choosing' = Choosing
      BY <2>1, <1>4 DEF Choosing, BeginOpen, Reserved
    <3> QED BY <3>1, <1>11, SmallerSet
  <2>2. CASE ~Exact(src)
    <3>1. Choosing = {} /\ AliveChosen = {}
      BY <2>2 DEF BeginOpen, MayOpen, ChooserBusy, Choosing
    <3>2. Choosing' = {q}
      BY <2>2, <3>1, <1>4 DEF Choosing
    <3>3. Cardinality(Choosing') = 1 /\ Cardinality(Chosen') = 0
      BY <3>1, <3>2, <1>11, FS_EmptySet, FS_Singleton
    <3> QED BY <3>3
  <2> QED BY <2>1, <2>2
<1>13. ChooserSerialized'
  BY <1>12 DEF ChooserSerialized, Choosing, Chosen
<1> QED BY <1>3, <1>5, <1>10, <1>13 DEF CaptureInv

LEMMA FinishStep ==
    ASSUME CaptureInv, NEW q \in Requests, NEW s \in Sessions, FinishOpen(q, s)
    PROVE  CaptureInv'
<1> DEFINE new == [source |-> pending[q].source, owner |-> pending[q].owner, ttl |-> SessionTTL]
<1>1. q \in Reserved /\ s \notin Active
  BY DEF FinishOpen, Reserved, CaptureInv, CaptureTypeOK
<1>2. new \in Slot /\ new # None
  BY <1>1, SlotFields, NoneAssumption, QuotaAssumption DEF Slot, CaptureInv
<1>3. CaptureTypeOK'
  BY <1>2 DEF CaptureInv, CaptureTypeOK, FinishOpen, Active
<1>4. /\ Reserved' = Reserved \ {q} /\ \A r \in Reserved' : pending'[r] = pending[r]
      /\ Active' = Active \cup {s} /\ slots'[s] = new /\ \A t \in Active : slots'[t] = slots[t]
  BY <1>1, <1>2 DEF FinishOpen, Reserved, Active, CaptureInv, CaptureTypeOK
<1>5. IsFiniteSet(Reserved') /\ IsFiniteSet(Active')
  BY <1>4, FS_AddElement, FS_Subset DEF CaptureInv
<1>6. ASSUME NEW p \in Owners
      PROVE  Cardinality(ReservedBy(p)') + Cardinality(HeldBy(p)') <= MaxExact
  <2>1. /\ IsFiniteSet(ReservedBy(p)) /\ IsFiniteSet(HeldBy(p))
        /\ Cardinality(ReservedBy(p)) + Cardinality(HeldBy(p)) <= MaxExact
    BY FS_Subset DEF CaptureInv, OwnerQuota, ReservedBy, HeldBy
  <2>2. CASE pending[q].owner = p
    <3>1. ReservedBy(p)' = ReservedBy(p) \ {q} /\ HeldBy(p)' = HeldBy(p) \cup {s} /\ q \in ReservedBy(p)
      BY <2>2, <1>1, <1>4 DEF ReservedBy, HeldBy
    <3>2. Cardinality(ReservedBy(p) \ {q}) + Cardinality(HeldBy(p) \cup {s})
             <= Cardinality(ReservedBy(p)) + Cardinality(HeldBy(p))
      BY <3>1, <2>1, Moved
    <3>3. /\ Cardinality(ReservedBy(p) \ {q}) + Cardinality(HeldBy(p) \cup {s}) \in Nat
          /\ Cardinality(ReservedBy(p)) + Cardinality(HeldBy(p)) \in Nat
      BY <3>1, <2>1, Moved
    <3> QED BY <3>1, <3>2, <3>3, <2>1, QuotaAssumption
  <2>3. CASE pending[q].owner # p
    <3>1. ReservedBy(p)' = ReservedBy(p) /\ HeldBy(p)' = HeldBy(p)
      BY <2>3, <1>1, <1>4 DEF ReservedBy, HeldBy
    <3> QED BY <3>1, <2>1
  <2> QED BY <2>2, <2>3
<1>7. Cardinality(Choosing') + Cardinality(Chosen') <= 1
  <2>1. /\ IsFiniteSet(Choosing) /\ IsFiniteSet(Chosen)
        /\ Cardinality(Choosing) + Cardinality(Chosen) <= 1
    BY FS_Subset DEF CaptureInv, ChooserSerialized, Choosing, Chosen
  <2>2. CASE ~Exact(pending[q].source)
    <3>1. Choosing' = Choosing \ {q} /\ Chosen' = Chosen \cup {s} /\ q \in Choosing
      BY <2>2, <1>1, <1>4 DEF Choosing, Chosen
    <3>2. Cardinality(Choosing \ {q}) + Cardinality(Chosen \cup {s})
             <= Cardinality(Choosing) + Cardinality(Chosen)
      BY <3>1, <2>1, Moved
    <3>3. /\ Cardinality(Choosing \ {q}) + Cardinality(Chosen \cup {s}) \in Nat
          /\ Cardinality(Choosing) + Cardinality(Chosen) \in Nat
      BY <3>1, <2>1, Moved
    <3> QED BY <3>1, <3>2, <3>3, <2>1
  <2>3. CASE Exact(pending[q].source)
    <3>1. Choosing' = Choosing /\ Chosen' = Chosen
      BY <2>3, <1>1, <1>4 DEF Choosing, Chosen
    <3> QED BY <3>1, <2>1
  <2> QED BY <2>2, <2>3
<1>8. OwnerQuota' /\ ChooserSerialized'
  BY <1>6, <1>7 DEF OwnerQuota, ChooserSerialized, ReservedBy, HeldBy, Choosing, Chosen
<1> QED BY <1>3, <1>5, <1>8 DEF CaptureInv

LEMMA FailStep ==
    ASSUME CaptureInv, NEW q \in Requests, FailOpen(q)
    PROVE  CaptureInv'
<1>1. CaptureTypeOK'
  BY DEF CaptureInv, CaptureTypeOK, FailOpen, Active
<1>2. Thins
  BY DEF CaptureInv, CaptureTypeOK, FailOpen, Thins, Reserved, Active
<1> QED BY <1>1, <1>2, ThinsKeeps

LEMMA RemoveStep ==
    ASSUME CaptureInv, NEW s, RemoveSlot(s)
    PROVE  CaptureInv'
<1>1. CaptureTypeOK'
  BY DEF CaptureInv, CaptureTypeOK, RemoveSlot, Active
<1>2. Thins
  BY DEF CaptureInv, CaptureTypeOK, RemoveSlot, Thins, Reserved, Active
<1> QED BY <1>1, <1>2, ThinsKeeps

(* Only the lease of a slot changes: of its fields, the time left.         *)
LEMMA RetimeStep ==
    ASSUME CaptureTypeOK, NEW s \in Active, NEW t \in 0..SessionTTL
    PROVE  LET new == [slots[s] EXCEPT !.ttl = t]
           IN  /\ new \in Slot /\ new # None
               /\ new.owner = slots[s].owner /\ new.source = slots[s].source
BY SlotFields, NoneAssumption DEF Slot

LEMMA RenewStep ==
    ASSUME CaptureInv, NEW s \in Sessions, RenewCapture(s)
    PROVE  CaptureInv'
<1>1. s \in Alive /\ Alive \subseteq Active /\ Active \subseteq Sessions
  BY DEF RenewCapture, Alive, Active
<1> DEFINE new == [slots[s] EXCEPT !.ttl = SessionTTL]
<1>2. new \in Slot /\ new # None /\ new.owner = slots[s].owner /\ new.source = slots[s].source
  BY <1>1, RetimeStep, QuotaAssumption DEF CaptureInv
<1>3. slots' = [t \in Sessions |-> IF t = s THEN new ELSE IF t \in Alive THEN slots[t] ELSE None]
  BY <1>1 DEF RenewCapture, Reaped
<1>4. Active' = Alive
  BY <1>1, <1>2, <1>3 DEF Active
<1>5. CaptureTypeOK'
  <2>1. slots' \in [Sessions -> Slot \cup {None}]
    BY <1>2, <1>3 DEF CaptureInv, CaptureTypeOK
  <2> QED BY <2>1, <1>1, <1>4 DEF CaptureInv, CaptureTypeOK, RenewCapture
<1>6. Thins
  BY <1>1, <1>2, <1>3, <1>4 DEF Thins, RenewCapture, Reserved
<1> QED BY <1>5, <1>6, ThinsKeeps

LEMMA EndStep ==
    ASSUME CaptureInv, NEW s \in Sessions, BackendEnds(s)
    PROVE  CaptureInv'
<1>1. CaptureTypeOK' /\ Thins
  BY DEF CaptureInv, CaptureTypeOK, BackendEnds, Thins, Active, Reserved
<1> QED BY <1>1, ThinsKeeps

LEMMA AgeStep ==
    ASSUME CaptureInv, AgeCaptures
    PROVE  CaptureInv'
<1>1. ASSUME NEW s \in Active, slots[s].ttl > 0
      PROVE  LET new == [slots[s] EXCEPT !.ttl = @ - 1]
             IN  /\ new \in Slot /\ new # None
                 /\ new.owner = slots[s].owner /\ new.source = slots[s].source
  BY <1>1, SlotFields, RetimeStep, QuotaAssumption DEF CaptureInv
<1>2. Active' = Active
  BY <1>1 DEF AgeCaptures, Active
<1>3. CaptureTypeOK'
  BY <1>1, <1>2 DEF CaptureInv, CaptureTypeOK, AgeCaptures, Active
<1>4. Thins
  BY <1>1, <1>2 DEF AgeCaptures, Thins, Reserved, Active
<1> QED BY <1>3, <1>4, ThinsKeeps

LEMMA CaptureStep == CaptureInv /\ [NextCapture]_captureVars => CaptureInv'
<1> SUFFICES ASSUME CaptureInv, [NextCapture]_captureVars PROVE CaptureInv'
  OBVIOUS
<1>1. CASE UNCHANGED captureVars
  <2>1. CaptureTypeOK' /\ Thins
    BY <1>1 DEF captureVars, CaptureInv, CaptureTypeOK, Thins, Active, Reserved
  <2> QED BY <2>1, ThinsKeeps
<1>2. CASE Reap
  BY <1>2, RefuseStep
<1>3. ASSUME NEW q \in Requests, NEW o \in Owners, NEW src \in Sources, BeginOpen(q, o, src)
      PROVE  CaptureInv'
  BY <1>3, BeginStep
<1>4. ASSUME NEW o \in Owners, NEW src \in Sources, RefuseOpen(o, src)
      PROVE  CaptureInv'
  BY <1>4, RefuseStep DEF RefuseOpen
<1>5. ASSUME NEW q \in Requests, NEW s \in Sessions, FinishOpen(q, s)
      PROVE  CaptureInv'
  BY <1>5, FinishStep
<1>6. ASSUME NEW q \in Requests, FailOpen(q)
      PROVE  CaptureInv'
  BY <1>6, FailStep
<1>7. ASSUME NEW s \in Sessions, RemoveSlot(s) \/ RenewCapture(s) \/ BackendEnds(s)
      PROVE  CaptureInv'
  BY <1>7, RemoveStep, RenewStep, EndStep
<1>8. CASE AgeCaptures
  BY <1>8, AgeStep
<1> QED BY <1>1, <1>2, <1>3, <1>4, <1>5, <1>6, <1>7, <1>8 DEF NextCapture

LEMMA CaptureStart == InitCapture => CaptureInv
<1> SUFFICES ASSUME InitCapture PROVE CaptureInv
  OBVIOUS
<1>1. Reserved = {} /\ Active = {}
  BY DEF InitCapture, Reserved, Active
<1>2. \A o \in Owners : ReservedBy(o) = {} /\ HeldBy(o) = {}
  BY <1>1 DEF ReservedBy, HeldBy
<1>3. Choosing = {} /\ Chosen = {}
  BY <1>1 DEF Choosing, Chosen
<1>4. OwnerQuota
  BY <1>2, FS_EmptySet, QuotaAssumption DEF OwnerQuota, ReservedBy, HeldBy
<1>5. ChooserSerialized
  <2>1. Cardinality(Choosing) = 0 /\ Cardinality(Chosen) = 0
    BY <1>3, FS_EmptySet
  <2> QED BY <2>1 DEF ChooserSerialized, Choosing, Chosen
<1>6. CaptureTypeOK
  BY <1>1 DEF InitCapture, CaptureTypeOK
<1> QED BY <1>1, <1>4, <1>5, <1>6, FS_EmptySet DEF CaptureInv

-----------------------------------------------------------------------------
(* A slot keeps its source and owner for as long as it is there.           *)
KeepsSources ==
    \A s \in Sessions : slots[s] # None /\ slots'[s] # None =>
        slots'[s].source = slots[s].source /\ slots'[s].owner = slots[s].owner

LEMMA SourcesKept ==
    ASSUME CaptureTypeOK, [NextCapture]_captureVars
    PROVE  KeepsSources
<1> USE DEF KeepsSources
<1>1. CASE UNCHANGED captureVars
  BY <1>1 DEF captureVars
<1>2. ASSUME slots' = Reaped
      PROVE  KeepsSources
  BY <1>2 DEF Reaped
<1>3. ASSUME NEW q \in Requests, NEW s \in Sessions, FinishOpen(q, s)
      PROVE  KeepsSources
  BY <1>3 DEF FinishOpen, CaptureTypeOK, Active
<1>4. ASSUME NEW q \in Requests, FailOpen(q)
      PROVE  KeepsSources
  BY <1>4 DEF FailOpen
<1>5. ASSUME NEW s \in Sessions, RemoveSlot(s)
      PROVE  KeepsSources
  BY <1>5 DEF RemoveSlot, CaptureTypeOK
<1>6. ASSUME NEW s \in Sessions, RenewCapture(s)
      PROVE  KeepsSources
  <2>1. s \in Active
    BY <1>6 DEF RenewCapture, Alive
  <2>2. /\ [slots[s] EXCEPT !.ttl = SessionTTL].source = slots[s].source
        /\ [slots[s] EXCEPT !.ttl = SessionTTL].owner = slots[s].owner
    BY <2>1, SlotFields DEF Slot
  <2>3. slots' = [t \in Sessions |-> IF t = s THEN [slots[s] EXCEPT !.ttl = SessionTTL]
                                     ELSE IF t \in Alive THEN slots[t] ELSE None]
    BY <1>6 DEF RenewCapture, Reaped
  <2> QED BY <2>2, <2>3
<1>7. ASSUME NEW s \in Sessions, BackendEnds(s)
      PROVE  KeepsSources
  BY <1>7 DEF BackendEnds
<1>8. CASE AgeCaptures
  <2>1. \A s \in Active : /\ [slots[s] EXCEPT !.ttl = @ - 1].source = slots[s].source
                          /\ [slots[s] EXCEPT !.ttl = @ - 1].owner = slots[s].owner
    BY SlotFields DEF Slot
  <2> QED BY <1>8, <2>1 DEF AgeCaptures
<1> QED BY <1>1, <1>2, <1>3, <1>4, <1>5, <1>6, <1>7, <1>8
        DEF NextCapture, Reap, BeginOpen, RefuseOpen

(* Only a finished open takes a slot, under an id that is new.             *)
LEMMA SlotsAreFresh ==
    ASSUME CaptureTypeOK, [NextCapture]_captureVars
    PROVE  /\ opened \subseteq opened'
           /\ \A s \in Active' : s \in Active \/ s \notin opened
<1> DEFINE Fresh == opened \subseteq opened' /\ \A s \in Active' : s \in Active \/ s \notin opened
<1>1. CASE UNCHANGED captureVars
  BY <1>1 DEF captureVars, Active
<1>2. ASSUME slots' = Reaped, opened' = opened
      PROVE  Fresh
  BY <1>2 DEF Reaped, Active, Alive
<1>3. ASSUME NEW q \in Requests, NEW s \in Sessions, FinishOpen(q, s)
      PROVE  Fresh
  BY <1>3 DEF FinishOpen, CaptureTypeOK, Active
<1>4. ASSUME NEW q \in Requests, FailOpen(q)
      PROVE  Fresh
  BY <1>4 DEF FailOpen, Active
<1>5. ASSUME NEW s \in Sessions, RemoveSlot(s)
      PROVE  Fresh
  BY <1>5 DEF RemoveSlot, CaptureTypeOK, Active
<1>6. ASSUME NEW s \in Sessions, RenewCapture(s)
      PROVE  Fresh
  BY <1>6 DEF RenewCapture, Reaped, Alive, Active
<1>7. ASSUME NEW s \in Sessions, BackendEnds(s)
      PROVE  Fresh
  BY <1>7 DEF BackendEnds, Active
<1>8. CASE AgeCaptures
  BY <1>8 DEF AgeCaptures, Active
<1> QED BY <1>1, <1>2, <1>3, <1>4, <1>5, <1>6, <1>7, <1>8
        DEF NextCapture, Reap, BeginOpen, RefuseOpen

(* The limits of the capture store hold whatever opens, ends and fails, in *)
(* any order: begin_open() counts sessions and reservations together and   *)
(* finish_open() only turns the one into the other (capture.rs:146-204).   *)
THEOREM StoreWithinLimits == SpecCapture => []OpensWithinLimits
<1>1. CaptureInv => OpensWithinLimits
  BY DEF CaptureInv, OpensWithinLimits
<1> QED BY <1>1, CaptureStart, CaptureStep, PTL DEF SpecCapture
=============================================================================

------------------------ MODULE SlotLifecycleProofs ------------------------
(***************************************************************************)
(* What the abstract life cycle guarantees.  EngineStackProofs shows that  *)
(* the engine stack implements it, so it has these properties too.         *)
(***************************************************************************)
EXTENDS SlotLifecycle, TLAPS

Inv == TypeOK /\ OwnedIffBusy /\ OwnersDistinct

\* Reserving an Idle slot with a fresh token keeps the invariant.
LEMMA ReserveInv ==
    ASSUME Inv, NEW s \in Slots, Reserve(s)  PROVE Inv'
<1>1. TypeOK'
  BY DEF Inv, TypeOK, Reserve
<1>2. owner'[s] = next /\ status'[s] = "Loading" /\ next' = next + 1 /\ next # 0
  BY DEF Inv, TypeOK, Reserve
<1>3. \A r \in Slots \ {s} : owner'[r] = owner[r] /\ status'[r] = status[r]
  BY DEF Inv, TypeOK, Reserve
<1>4. OwnedIffBusy'
  BY <1>2, <1>3 DEF Inv, TypeOK, OwnedIffBusy
<1>5. OwnersDistinct'
  BY <1>2, <1>3 DEF Inv, TypeOK, OwnedIffBusy, OwnersDistinct
<1>. QED
  BY <1>1, <1>4, <1>5 DEF Inv

\* A promotion changes no owner and leaves the slot busy.
LEMMA PromoteInv ==
    ASSUME Inv, NEW s \in Slots, Promote(s)  PROVE Inv'
<1>1. TypeOK'
  BY DEF Inv, TypeOK, Promote
<1>2. \A r \in Slots : status'[r] = "Idle" <=> status[r] = "Idle"
  BY DEF Inv, TypeOK, Promote
<1>3. OwnedIffBusy' /\ OwnersDistinct'
  BY <1>2 DEF Inv, OwnedIffBusy, OwnersDistinct, Promote
<1>. QED
  BY <1>1, <1>3 DEF Inv

\* Vacating slots takes their owner and their status away together.
LEMMA VacateInv ==
    ASSUME Inv, NEW S \in SUBSET Slots, Vacate(S)  PROVE Inv'
<1>1. TypeOK'
  BY DEF Inv, TypeOK, Vacate
<1>2. \A r \in Slots : IF r \in S THEN owner'[r] = 0 /\ status'[r] = "Idle"
                       ELSE owner'[r] = owner[r] /\ status'[r] = status[r]
  BY DEF Vacate
<1>3. OwnedIffBusy'
  BY <1>2 DEF Inv, TypeOK, OwnedIffBusy, Vacate
<1>4. OwnersDistinct'
  BY <1>2 DEF Inv, OwnersDistinct
<1>. QED
  BY <1>1, <1>3, <1>4 DEF Inv

\* A busy slot always has an owner, an Idle one never, and two slots never have
\* the same: a task that remembers its token can tell whether a slot is still its
\* own (NEXT_LAUNCH_RESERVATION, engine_stack.rs:14-17).
THEOREM OwnersIdentifySlots == Spec => [](OwnedIffBusy /\ OwnersDistinct)
<1>1. Init => Inv
  BY DEF Init, Inv, TypeOK, OwnedIffBusy, OwnersDistinct
<1>2. Inv /\ [Next]_vars => Inv'
  <2>1. CASE UNCHANGED vars
    BY <2>1 DEF Inv, TypeOK, OwnedIffBusy, OwnersDistinct, vars
  <2>. QED
    BY <2>1, ReserveInv, PromoteInv, VacateInv DEF Next
<1>3. Inv => OwnedIffBusy /\ OwnersDistinct
  BY DEF Inv
<1>. QED
  BY <1>1, <1>2, <1>3, PTL DEF Spec

\* Between two steps the token counter never falls, and a slot that changes owner
\* without becoming Idle was Idle and got the newest token: no token comes back.
NewestOwner ==
    /\ next' >= next
    /\ \A s \in Slots : owner'[s] \in {owner[s], 0}
                        \/ (status[s] = "Idle" /\ owner'[s] = next)

\* Every step of the life cycle is like that.
THEOREM TokensNeverReturn == Spec => [][NewestOwner]_vars
<1>1. Init => TypeOK
  BY DEF Init, TypeOK
<1>2. TypeOK /\ [Next]_vars => TypeOK'
  <2>. SUFFICES ASSUME TypeOK, [Next]_vars PROVE TypeOK'
    OBVIOUS
  <2>1. CASE UNCHANGED vars
    BY <2>1 DEF TypeOK, vars
  <2>2. ASSUME NEW s \in Slots, Reserve(s) PROVE TypeOK'
    BY <2>2 DEF TypeOK, Reserve
  <2>3. ASSUME NEW s \in Slots, Promote(s) PROVE TypeOK'
    BY <2>3 DEF TypeOK, Promote
  <2>4. ASSUME NEW S \in SUBSET Slots, Vacate(S) PROVE TypeOK'
    BY <2>4 DEF TypeOK, Vacate
  <2>. QED
    BY <2>1, <2>2, <2>3, <2>4 DEF Next
<1>3. TypeOK /\ [Next]_vars => [NewestOwner]_vars
  <2>. SUFFICES ASSUME TypeOK, Next PROVE NewestOwner
    OBVIOUS
  <2>1. ASSUME NEW s \in Slots, Reserve(s) PROVE NewestOwner
    BY <2>1 DEF TypeOK, Reserve, NewestOwner
  <2>2. ASSUME NEW s \in Slots, Promote(s) PROVE NewestOwner
    BY <2>2 DEF TypeOK, Promote, NewestOwner
  <2>3. ASSUME NEW S \in SUBSET Slots, Vacate(S) PROVE NewestOwner
    BY <2>3 DEF TypeOK, Vacate, NewestOwner
  <2>. QED
    BY <2>1, <2>2, <2>3 DEF Next
<1>. QED
  BY <1>1, <1>2, <1>3, PTL DEF Spec
=============================================================================

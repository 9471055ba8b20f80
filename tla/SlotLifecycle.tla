--------------------------- MODULE SlotLifecycle ---------------------------
(***************************************************************************)
(* What the engine stack promises about its slots, without any of the      *)
(* tasks that keep the promise: a slot goes Idle -> Loading -> Running and *)
(* back to Idle, every launch attempt gets a reservation token greater     *)
(* than all tokens before it, and a slot changes owner only through Idle.  *)
(* EngineStack (launch, stop, probe, reaper, log reader) implements this.  *)
(***************************************************************************)
EXTENDS Naturals

CONSTANT Slots        \* indices of the stack's slots

VARIABLES
    status,           \* [Slots -> {"Idle", "Loading", "Running"}]
    owner,            \* [Slots -> token], 0 = no launch owns the slot
    next              \* the next reservation token

vars == <<status, owner, next>>

Init ==
    /\ status = [s \in Slots |-> "Idle"]
    /\ owner = [s \in Slots |-> 0]
    /\ next = 1

Reserve(s) ==
    /\ status[s] = "Idle"
    /\ status' = [status EXCEPT ![s] = "Loading"]
    /\ owner' = [owner EXCEPT ![s] = next]
    /\ next' = next + 1

Promote(s) ==
    /\ status[s] = "Loading"
    /\ status' = [status EXCEPT ![s] = "Running"]
    /\ UNCHANGED <<owner, next>>

\* Several slots may be vacated in one step: stop-all clears its targets
\* under a single hold of the stack lock.
Vacate(S) ==
    /\ status' = [s \in Slots |-> IF s \in S THEN "Idle" ELSE status[s]]
    /\ owner' = [s \in Slots |-> IF s \in S THEN 0 ELSE owner[s]]
    /\ UNCHANGED next

Next ==
    \/ \E s \in Slots : Reserve(s) \/ Promote(s)
    \/ \E S \in SUBSET Slots : Vacate(S)

Spec == Init /\ [][Next]_vars
-----------------------------------------------------------------------------
TypeOK ==
    /\ status \in [Slots -> {"Idle", "Loading", "Running"}]
    /\ owner \in [Slots -> Nat]
    /\ next \in Nat \ {0}

\* A slot is owned exactly while it is not Idle, and only by a token already
\* handed out.
OwnedIffBusy ==
    \A s \in Slots : /\ (owner[s] = 0) <=> (status[s] = "Idle")
                     /\ owner[s] < next

\* No token owns two slots.
OwnersDistinct ==
    \A r, s \in Slots : owner[r] = owner[s] /\ owner[r] # 0 => r = s
=============================================================================

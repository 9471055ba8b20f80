--------------------------- MODULE CommandsProofs ---------------------------
(***************************************************************************)
(* What the components beside the engines' life cycle promise, for every   *)
(* value of their constants.                                               *)
(***************************************************************************)
EXTENDS MCCommands, WellFoundedInduction, FiniteSetTheorems, TLAPS

-----------------------------------------------------------------------------
(* The release desk *)

Pids0 == Chains \cup {0}
StartStates == [pc : {"idle", "checked", "seeded", "spawned", "unclaimed", "done"}, knows : BOOLEAN]
JobTypes ==
    /\ jobStatus \in [state : {"idle", "running", "ok", "failed"}, pid : Pids0]
    /\ launcher \in [Chains -> StartStates]
    /\ chain \in [Chains -> {"none", "booting", "working", "ok", "failed", "gone"}]
    /\ healer \in [on : BOOLEAN, pid : Pids0] /\ newest \in Pids0
    /\ hasty \in BOOLEAN /\ overlapping \in BOOLEAN

\* A chain comes after its start.
StartsFirst == \A l \in Chains : chain[l] # "none" => launcher[l].pc \in {"spawned", "unclaimed", "done"}

\* Only the newest start is under way, and what it finds in the status is its own seed.
StartsInOrder ==
    /\ \A l \in Chains : UnderWay(l) => l = newest /\ chain[l] # "ok"
    /\ \A l \in Chains : launcher[l].pc = "checked" => jobStatus.state # "running"
    /\ \A l \in Chains : launcher[l].pc = "seeded" => jobStatus = [state |-> "running", pid |-> 0]
    /\ \A l \in Chains : launcher[l].pc \in {"spawned", "unclaimed"} => jobStatus.pid \in {0, l}

\* Only the newest chain is alive, and the status says so.
Working ==
    \A l \in Chains :
        /\ chain[l] \in {"booting", "working"} => l = newest
        /\ chain[l] = "booting" => jobStatus.state = "running" /\ jobStatus.pid \in {0, l}
        /\ chain[l] = "working" => jobStatus = [state |-> "running", pid |-> l]

\* What a poll has read is still so when it finds the process gone, and no
\* chain ends well while a poll has read a seed.
Healing ==
    healer.on => /\ healer.pid = 0 /\ newest # 0 => chain[newest] # "ok"
                 /\ healer.pid # 0 => \/ jobStatus = [state |-> "running", pid |-> healer.pid]
                                      \/ chain[healer.pid] \in {"ok", "failed"}

InOrder == StartsInOrder /\ Working /\ Healing /\ SuccessStays /\ SuccessOutlivesIts
JobsInd == JobTypes /\ StartsFirst /\ (Orderly => InOrder)
RolesInd ==
    /\ policy \subseteq Plugins /\ catalog \subseteq Plugins /\ factory \in [Plugins -> {"none", "off", "on"}]
    /\ setFailed \in BOOLEAN /\ ShippedHasFactory /\ CatalogFollows
DeskInd == JobsInd /\ RolesInd

\* A start moves from one point to another.
LEMMA GoesOn ==
    ASSUME JobTypes, NEW l \in Chains,
           NEW pc \in {"checked", "seeded", "spawned", "unclaimed", "done"}, NEW knows \in BOOLEAN,
           Goes(l, pc) \/ launcher' = [launcher EXCEPT ![l] = [pc |-> pc, knows |-> knows]]
    PROVE  /\ launcher' \in [Chains -> StartStates]
           /\ launcher'[l].pc = pc /\ \A k \in Chains \ {l} : launcher'[k] = launcher[k]
  BY DEF JobTypes, Goes, StartStates

LEMMA ChainTurned ==
    ASSUME JobTypes, NEW l \in Chains, NEW st \in {"booting", "working", "ok", "failed", "gone"}, ChainTurns(l, st)
    PROVE  /\ chain' \in [Chains -> {"none", "booting", "working", "ok", "failed", "gone"}]
           /\ chain'[l] = st /\ \A k \in Chains \ {l} : chain'[k] = chain[k]
  BY DEF JobTypes, ChainTurns

LEMMA Reported ==
    ASSUME NEW state \in {"running", "ok", "failed"}, NEW pid \in Pids0, Report(state, pid)
    PROVE  /\ jobStatus' \in [state : {"idle", "running", "ok", "failed"}, pid : Pids0]
           /\ jobStatus' = [state |-> state, pid |-> pid] /\ jobStatus'.state = state /\ jobStatus'.pid = pid
  BY DEF Report

LEMMA JobsStart == DeskInit => JobsInd
<1> SUFFICES ASSUME DeskInit PROVE JobsInd
  OBVIOUS
<1>1. JobTypes
  BY DEF DeskInit, JobTypes, Pids0, NotHealing, StartStates
<1> QED
  BY <1>1 DEF DeskInit, JobsInd, StartsFirst, InOrder, StartsInOrder, Working, Healing, SuccessStays, SuccessOutlivesIts,
     UnderWay, NotHealing

LEMMA JobsKept == JobsInd /\ JobNext => JobsInd'
<1> SUFFICES ASSUME JobsInd, JobNext PROVE JobsInd'
  OBVIOUS
<1> USE DEF JobsInd, StartsFirst, UnderWay, Pids0
<1>t. JobTypes /\ StartsFirst /\ 0 \notin Chains
  BY DistributionBounds
<1>1. ASSUME NEW l \in Chains, Ask(l) PROVE JobsInd'
  <2>1. /\ launcher[l].pc = "idle" /\ newest < l /\ jobStatus.state # "running" /\ newest' = l
        /\ overlapping' = (overlapping \/ \E k \in Chains : UnderWay(k))
        /\ UNCHANGED <<jobStatus, chain, healer, inlineJob, hasty>>
    BY <1>1 DEF Ask
  <2>2. /\ launcher' \in [Chains -> StartStates]
        /\ launcher'[l].pc = "checked" /\ \A k \in Chains \ {l} : launcher'[k] = launcher[k]
    BY <1>1, GoesOn DEF Ask
  <2>3. JobTypes' /\ StartsFirst'
    BY <2>1, <2>2 DEF JobTypes
  <2>4. ASSUME Orderly' PROVE InOrder'
    <3>1. Orderly /\ InOrder /\ \A k \in Chains : launcher[k].pc \in {"idle", "done"}
      BY <2>1, <2>4 DEF Orderly, JobTypes, StartStates
    <3>2. chain'[l] = "none"  BY <2>1, <2>2 DEF JobTypes
    <3>3. StartsInOrder'  BY <2>1, <2>2, <3>1, <3>2 DEF StartsInOrder
    <3>4. Working'  BY <2>1, <3>1 DEF InOrder, Working
    <3>5. Healing' /\ SuccessStays' /\ SuccessOutlivesIts'
      BY <2>1, <3>1, <3>2, <2>4 DEF InOrder, Healing, SuccessStays, SuccessOutlivesIts
    <3> QED  BY <3>3, <3>4, <3>5 DEF InOrder
  <2> QED  BY <2>3, <2>4
<1>2. ASSUME NEW l \in Chains, Seed(l) PROVE JobsInd'
  <2>1. launcher[l].pc = "checked" /\ UNCHANGED <<chain, healer, inlineJob, hasty, overlapping, newest>>
    BY <1>2 DEF Seed
  <2>2. CASE Goes(l, "seeded") /\ Report("running", 0)
    <3>1. /\ launcher' \in [Chains -> StartStates]
          /\ launcher'[l].pc = "seeded" /\ \A k \in Chains \ {l} : launcher'[k] = launcher[k]
      BY <2>2, GoesOn
    <3>2. /\ jobStatus' \in [state : {"idle", "running", "ok", "failed"}, pid : Pids0]
          /\ jobStatus' = [state |-> "running", pid |-> 0] /\ jobStatus'.state = "running" /\ jobStatus'.pid = 0
      BY <2>2, Reported
    <3>3. JobTypes' /\ StartsFirst'  BY <2>1, <3>1, <3>2 DEF JobTypes
    <3>4. ASSUME Orderly' PROVE InOrder'
      <4>1. Orderly /\ InOrder  BY <2>1, <3>4 DEF Orderly
      <4>2. l = newest /\ chain[l] = "none" /\ jobStatus.state # "running"
        BY <4>1, <2>1 DEF InOrder, StartsInOrder, JobTypes
      <4>3. StartsInOrder' /\ Working'  BY <4>1, <4>2, <2>1, <3>1, <3>2 DEF InOrder, StartsInOrder, Working
      <4>4. Healing' /\ SuccessStays' /\ SuccessOutlivesIts'
        BY <4>1, <4>2, <2>1, <3>1, <3>2 DEF InOrder, Healing, SuccessStays, SuccessOutlivesIts
      <4> QED  BY <4>3, <4>4 DEF InOrder
    <3> QED  BY <3>3, <3>4
  <2>3. CASE Goes(l, "done") /\ UNCHANGED jobStatus
    <3>1. /\ launcher' \in [Chains -> StartStates]
          /\ launcher'[l].pc = "done" /\ \A k \in Chains \ {l} : launcher'[k] = launcher[k]
      BY <2>3, GoesOn
    <3>3. JobTypes' /\ StartsFirst'  BY <2>1, <2>3, <3>1 DEF JobTypes
    <3>4. Orderly' => InOrder'
      BY <2>1, <2>3, <3>1 DEF Orderly, InOrder, StartsInOrder, Working, Healing, SuccessStays, SuccessOutlivesIts
    <3> QED  BY <3>3, <3>4
  <2> QED  BY <1>2, <2>2, <2>3 DEF Seed
<1>3. ASSUME NEW l \in Chains, StartChain(l) PROVE JobsInd'
  <2>1. launcher[l].pc = "seeded" /\ UNCHANGED <<jobStatus, healer, inlineJob, hasty, overlapping, newest>>
    BY <1>3 DEF StartChain
  <2>2. PICK pc \in {"spawned", "done"}, knows \in BOOLEAN :
          /\ Goes(l, pc) \/ launcher' = [launcher EXCEPT ![l] = [pc |-> pc, knows |-> knows]]
          /\ IF pc = "spawned" THEN chain' = [chain EXCEPT ![l] = "booting"] ELSE chain' = chain
    BY <1>3 DEF StartChain
  <2>3. /\ launcher' \in [Chains -> StartStates]
        /\ launcher'[l].pc = pc /\ \A k \in Chains \ {l} : launcher'[k] = launcher[k]
    BY <2>2, GoesOn
  <2>4. JobTypes' /\ StartsFirst'  BY <2>1, <2>2, <2>3 DEF JobTypes
  <2>5. Orderly' => InOrder'  BY <2>1, <2>2, <2>3 DEF JobTypes, Orderly, InOrder, StartsInOrder, Working, Healing, SuccessStays, SuccessOutlivesIts
  <2> QED  BY <2>4, <2>5
<1>4. ASSUME NEW l \in Chains, LooksAgain(l) PROVE JobsInd'
  <2>1. launcher[l].pc = "spawned" /\ UNCHANGED <<jobStatus, chain, healer, inlineJob, hasty, overlapping, newest>>
    BY <1>4 DEF LooksAgain
  <2>2. PICK pc \in {"unclaimed", "done"} : Goes(l, pc)  BY <1>4 DEF LooksAgain
  <2>3. /\ launcher' \in [Chains -> StartStates]
        /\ launcher'[l].pc = pc /\ \A k \in Chains \ {l} : launcher'[k] = launcher[k]
    BY <2>2, GoesOn
  <2>4. JobTypes' /\ StartsFirst'  BY <2>1, <2>3 DEF JobTypes
  <2>5. Orderly' => InOrder'  BY <2>1, <2>3 DEF JobTypes, Orderly, InOrder, StartsInOrder, Working, Healing, SuccessStays, SuccessOutlivesIts
  <2> QED  BY <2>4, <2>5
<1>5. ASSUME NEW l \in Chains, ClaimForChain(l) PROVE JobsInd'
  <2>1. launcher[l].pc = "unclaimed" /\ UNCHANGED <<chain, healer, inlineJob, hasty, overlapping, newest>>
    BY <1>5 DEF ClaimForChain
  <2>2. /\ launcher' \in [Chains -> StartStates]
        /\ launcher'[l].pc = "done" /\ \A k \in Chains \ {l} : launcher'[k] = launcher[k]
    BY <1>5, GoesOn DEF ClaimForChain
  <2>3. /\ jobStatus' \in [state : {"idle", "running", "ok", "failed"}, pid : Pids0]
        /\ jobStatus' = [state |-> "running", pid |-> l] /\ jobStatus'.state = "running" /\ jobStatus'.pid = l
    BY <1>5, Reported DEF ClaimForChain
  <2>4. JobTypes' /\ StartsFirst'  BY <2>1, <2>2, <2>3 DEF JobTypes
  <2>5. ASSUME Orderly' PROVE InOrder'
    <3>1. Orderly /\ InOrder  BY <2>1, <2>5 DEF Orderly
    <3>2. l = newest /\ chain[l] # "ok" /\ jobStatus.pid \in {0, l}  BY <3>1, <2>1 DEF InOrder, StartsInOrder
    <3>3. StartsInOrder' /\ Working'  BY <3>1, <3>2, <2>1, <2>2, <2>3 DEF InOrder, StartsInOrder, Working
    <3>4. Healing' /\ SuccessStays' /\ SuccessOutlivesIts'
      BY <3>1, <3>2, <2>1, <2>2, <2>3 DEF InOrder, Healing, SuccessStays, SuccessOutlivesIts, JobTypes
    <3> QED  BY <3>3, <3>4 DEF InOrder
  <2> QED  BY <2>4, <2>5
<1>6. ASSUME NEW l \in Chains, ChainBoots(l) \/ ChainReports(l) PROVE JobsInd'
  <2>1. chain[l] \in {"booting", "working"} /\ UNCHANGED <<launcher, healer, inlineJob, hasty, overlapping, newest>>
    BY <1>6 DEF ChainBoots, ChainReports
  <2>2. /\ chain' \in [Chains -> {"none", "booting", "working", "ok", "failed", "gone"}]
        /\ chain'[l] = "working" /\ \A k \in Chains \ {l} : chain'[k] = chain[k]
    BY <1>6, ChainTurned DEF ChainBoots, ChainReports, JobTypes
  <2>3. /\ jobStatus' \in [state : {"idle", "running", "ok", "failed"}, pid : Pids0]
        /\ jobStatus' = [state |-> "running", pid |-> l] /\ jobStatus'.state = "running" /\ jobStatus'.pid = l
    BY <1>6, Reported DEF ChainBoots, ChainReports
  <2>4. JobTypes' /\ StartsFirst'  BY <2>1, <2>2, <2>3 DEF JobTypes
  <2>5. ASSUME Orderly' PROVE InOrder'
    <3>1. Orderly /\ InOrder  BY <2>1, <2>5 DEF Orderly
    <3>2. l = newest /\ jobStatus.pid \in {0, l} /\ jobStatus.state = "running"
      BY <3>1, <2>1 DEF InOrder, Working
    <3>3. StartsInOrder' /\ Working'  BY <3>1, <3>2, <2>1, <2>2, <2>3 DEF InOrder, StartsInOrder, Working
    <3>4. Healing' /\ SuccessStays' /\ SuccessOutlivesIts'
      BY <3>1, <3>2, <2>1, <2>2, <2>3 DEF InOrder, Healing, SuccessStays, SuccessOutlivesIts, JobTypes
    <3> QED  BY <3>3, <3>4 DEF InOrder
  <2> QED  BY <2>4, <2>5
<1>7. ASSUME NEW l \in Chains, ChainEnds(l) PROVE JobsInd'
  <2>1. chain[l] = "working" /\ UNCHANGED <<launcher, healer, inlineJob, hasty, overlapping, newest>>
    BY <1>7 DEF ChainEnds
  <2>2. PICK st \in {"ok", "failed"} : /\ ChainTurns(l, st) /\ Report(st, l)
                                       /\ st = "ok" => ~UnderWay(l) /\ healer # [on |-> TRUE, pid |-> 0]
    BY <1>7 DEF ChainEnds
  <2>3. /\ chain' \in [Chains -> {"none", "booting", "working", "ok", "failed", "gone"}]
        /\ chain'[l] = st /\ \A k \in Chains \ {l} : chain'[k] = chain[k]
    BY <2>2, ChainTurned
  <2>4. /\ jobStatus' \in [state : {"idle", "running", "ok", "failed"}, pid : Pids0]
        /\ jobStatus' = [state |-> st, pid |-> l] /\ jobStatus'.state = st /\ jobStatus'.pid = l
    BY <2>2, Reported
  <2>5. JobTypes' /\ StartsFirst'  BY <2>1, <2>3, <2>4 DEF JobTypes
  <2>6. ASSUME Orderly' PROVE InOrder'
    <3>1. Orderly /\ InOrder  BY <2>1, <2>6 DEF Orderly
    <3>2. l = newest /\ jobStatus = [state |-> "running", pid |-> l] /\ jobStatus.pid = l /\ jobStatus.state = "running"
      BY <3>1, <2>1 DEF InOrder, Working
    <3>3. StartsInOrder' /\ Working'  BY <3>1, <3>2, <2>1, <2>2, <2>3, <2>4 DEF InOrder, StartsInOrder, Working
    <3>4. healer.on /\ healer.pid = 0 => healer = [on |-> TRUE, pid |-> 0]  BY DEF JobTypes
    <3>5. Healing' /\ SuccessStays' /\ SuccessOutlivesIts'
      BY <3>1, <3>2, <3>4, <2>1, <2>2, <2>3, <2>4 DEF InOrder, Healing, SuccessStays, SuccessOutlivesIts, JobTypes
    <3> QED  BY <3>3, <3>5 DEF InOrder
  <2> QED  BY <2>5, <2>6
<1>8. ASSUME NEW l \in Chains, ChainExits(l) \/ ChainKilled(l) PROVE JobsInd'
  <2>1. /\ \/ chain[l] \in {"ok", "failed"} /\ ~(healer.on /\ healer.pid = l)
         \/ chain[l] \in {"booting", "working"}
        /\ UNCHANGED <<jobStatus, launcher, healer, inlineJob, hasty, overlapping, newest>>
    BY <1>8 DEF ChainExits, ChainKilled
  <2>2. /\ chain' \in [Chains -> {"none", "booting", "working", "ok", "failed", "gone"}]
        /\ chain'[l] = "gone" /\ \A k \in Chains \ {l} : chain'[k] = chain[k]
    BY <1>8, ChainTurned DEF ChainExits, ChainKilled
  <2>3. JobTypes' /\ StartsFirst'  BY <2>1, <2>2 DEF JobTypes
  <2>4. ASSUME Orderly' PROVE InOrder'
    <3>1. Orderly /\ InOrder  BY <2>1, <2>4 DEF Orderly
    <3>3. StartsInOrder' /\ Working'  BY <3>1, <2>1, <2>2 DEF InOrder, StartsInOrder, Working
    <3>4. Healing' /\ SuccessStays' /\ SuccessOutlivesIts'
      BY <3>1, <2>1, <2>2 DEF InOrder, Healing, SuccessStays, SuccessOutlivesIts, JobTypes, Working
    <3> QED  BY <3>3, <3>4 DEF InOrder
  <2> QED  BY <2>3, <2>4
<1>9. ASSUME HealReads PROVE JobsInd'
  <2>1. /\ ~healer.on /\ jobStatus.state = "running" /\ healer' = [on |-> TRUE, pid |-> jobStatus.pid]
        /\ UNCHANGED <<jobStatus, launcher, chain, inlineJob, hasty, overlapping, newest>>
    BY <1>9 DEF HealReads
  <2>2. jobStatus = [state |-> "running", pid |-> jobStatus.pid] /\ jobStatus.pid \in Pids0  BY <2>1 DEF JobTypes
  <2>3. JobTypes' /\ StartsFirst'  BY <2>1, <2>2 DEF JobTypes
  <2>4. Orderly' => InOrder'  BY <2>1, <2>2 DEF Orderly, InOrder, StartsInOrder, Working, Healing, SuccessStays, SuccessOutlivesIts
  <2> QED  BY <2>3, <2>4
<1>10. ASSUME HealWrites PROVE JobsInd'
  <2>1. /\ healer.on /\ healer' = NotHealing
        /\ UNCHANGED <<launcher, chain, inlineJob, overlapping, newest>>
    BY <1>10 DEF HealWrites
  <2>2. CASE /\ healer.pid = 0 \/ HasExited(healer.pid)
             /\ Report("failed", healer.pid)
             /\ hasty' = (hasty \/ (healer.pid = 0 /\ \E l \in Chains :
                             UnderWay(l) \/ chain[l] \in {"booting", "working"}))
    <3>1. healer.pid \in Pids0  BY DEF JobTypes
    <3>2. /\ jobStatus' \in [state : {"idle", "running", "ok", "failed"}, pid : Pids0]
          /\ jobStatus' = [state |-> "failed", pid |-> healer.pid]
          /\ jobStatus'.state = "failed" /\ jobStatus'.pid = healer.pid
      BY <2>2, <3>1, Reported
    <3>3. JobTypes' /\ StartsFirst'  BY <2>1, <2>2, <3>2 DEF JobTypes, NotHealing
    <3>4. ASSUME Orderly' PROVE InOrder'
      <4>1. Orderly /\ InOrder  BY <2>1, <2>2, <3>4 DEF Orderly, JobTypes
      <4>2. ~healer'.on  BY <2>1 DEF NotHealing
      <4>3. CASE healer.pid = 0
        <5>1. \A l \in Chains : ~UnderWay(l) /\ chain[l] \notin {"booting", "working"}
          BY <2>2, <3>4, <4>3 DEF Orderly
        <5>2. newest # 0 => chain[newest] # "ok"  BY <4>1, <4>3, <2>1 DEF InOrder, Healing
        <5> QED
          BY <4>1, <4>2, <4>3, <5>1, <5>2, <2>1, <3>2, <1>t
          DEF InOrder, StartsInOrder, Working, Healing, SuccessStays, SuccessOutlivesIts, JobTypes
      <4>4. CASE healer.pid # 0
        <5>1. healer.pid \in Chains /\ chain[healer.pid] = "gone"  BY <2>2, <4>4 DEF HasExited
        <5>2. /\ jobStatus = [state |-> "running", pid |-> healer.pid]
              /\ jobStatus.state = "running" /\ jobStatus.pid = healer.pid
          BY <4>1, <4>4, <5>1, <2>1 DEF InOrder, Healing
        <5>3. StartsInOrder'  BY <4>1, <4>4, <5>2, <2>1, <3>2 DEF InOrder, StartsInOrder
        <5>4. Working'  BY <4>1, <4>4, <5>1, <5>2, <2>1, <3>2 DEF InOrder, Working
        <5> QED
          BY <4>1, <4>2, <5>1, <5>2, <5>3, <5>4, <2>1, <3>2
          DEF InOrder, Healing, SuccessStays, SuccessOutlivesIts, JobTypes
      <4> QED  BY <4>3, <4>4
    <3> QED  BY <3>3, <3>4
  <2>3. CASE UNCHANGED <<jobStatus, hasty>>
    <3>1. JobTypes' /\ StartsFirst'  BY <2>1, <2>3 DEF JobTypes, NotHealing
    <3>2. Orderly' => InOrder'  BY <2>1, <2>3 DEF NotHealing, Orderly, InOrder, StartsInOrder, Working, Healing, SuccessStays, SuccessOutlivesIts
    <3> QED  BY <3>1, <3>2
  <2> QED  BY <1>10, <2>2, <2>3 DEF HealWrites
<1>11. ASSUME Inline PROVE JobsInd'
  <2>1. UNCHANGED <<jobStatus, launcher, chain, healer, hasty, overlapping, newest>>  BY <1>11 DEF Inline
  <2> QED  BY <2>1 DEF JobTypes, Orderly, InOrder, StartsInOrder, Working, Healing, SuccessStays, SuccessOutlivesIts
<1>12. ASSUME AppRestarts PROVE JobsInd'
  <2>1. /\ healer' = NotHealing /\ UNCHANGED <<jobStatus, hasty, overlapping, newest>>
        /\ launcher' = [l \in Chains |-> IF UnderWay(l) THEN [pc |-> "done", knows |-> FALSE] ELSE launcher[l]]
    BY <1>12 DEF AppRestarts
  <2>2. PICK up \in SUBSET {l \in Chains : launcher[l].pc = "seeded"} :
          chain' = [l \in Chains |-> IF l \in up THEN "booting" ELSE chain[l]]
    BY <1>12 DEF AppRestarts
  <2>3. JobTypes' /\ StartsFirst'  BY <2>1, <2>2 DEF JobTypes, NotHealing, StartStates
  <2>4. ASSUME Orderly' PROVE InOrder'
    <3>1. Orderly /\ InOrder  BY <2>1, <2>4 DEF Orderly
    <3>2. \A l \in Chains : launcher'[l].pc \in {"idle", "done"}  BY <2>1 DEF JobTypes, StartStates
    <3>3. StartsInOrder'  BY <3>2 DEF StartsInOrder
    <3>4. Working'  BY <3>1, <2>1, <2>2 DEF InOrder, Working, StartsInOrder
    <3>5. Healing' /\ SuccessStays' /\ SuccessOutlivesIts'
      BY <3>1, <2>1, <2>2 DEF InOrder, StartsInOrder, Healing, SuccessStays, SuccessOutlivesIts, JobTypes, NotHealing
    <3> QED  BY <3>3, <3>4, <3>5 DEF InOrder
  <2> QED  BY <2>3, <2>4
<1> QED
  BY <1>1, <1>2, <1>3, <1>4, <1>5, <1>6, <1>7, <1>8, <1>9, <1>10, <1>11, <1>12 DEF JobNext

LEMMA RolesKept == RolesInd /\ PolicyNext => RolesInd'
<1> SUFFICES ASSUME RolesInd, PolicyNext PROVE RolesInd'
  OBVIOUS
<1>1. CASE Regenerate
  BY <1>1 DEF Regenerate, RolesInd, ShippedHasFactory, CatalogFollows
<1>2. ASSUME NEW id \in Plugins, NEW role \in {"plugin", "local"},
             NEW broken \in {"none", "shell", "flag", "policy", "catalog"}, SetRole(id, role, broken)
      PROVE  RolesInd'
  <2> DEFINE shelled == role = "plugin" /\ factory[id] = "none"
             ends == IF shelled /\ id \notin LiveIds THEN "shell" ELSE broken
             kept == WithShell(id, shelled)
             wanted == IF role = "plugin" THEN policy \cup {id} ELSE policy \ {id}
  <2>1. /\ Reaches(ends, 1) <=> ends # "shell"
        /\ Reaches(ends, 2) <=> ends \notin {"shell", "flag"}
        /\ Reaches(ends, 3) <=> ends \notin {"shell", "flag", "policy"}
        /\ Reaches(ends, 4) <=> ends = "none"
    <3>1. Steps[1] = "shell" /\ Steps[2] = "flag" /\ Steps[3] = "policy" /\ Steps[4] = "catalog"  BY DEF Steps
    <3>2. 1 .. 1 = {1} /\ 1 .. 2 = {1, 2} /\ 1 .. 3 = {1, 2, 3} /\ 1 .. 4 = {1, 2, 3, 4}  OBVIOUS
    <3>3. ends \in {"none", "shell", "flag", "policy", "catalog"}  OBVIOUS
    <3> QED  BY <3>1, <3>2, <3>3 DEF Reaches
  <2>2. /\ kept \in [Plugins -> {"none", "off", "on"}]
        /\ kept[id] = IF shelled THEN "on" ELSE factory[id]
        /\ \A j \in Plugins \ {id} : kept[j] = factory[j]
    BY DEF WithShell, RolesInd
  <2>3. /\ factory' = IF Reaches(ends, 2) /\ kept[id] # "none" THEN [kept EXCEPT ![id] = "on"]
                      ELSE IF Reaches(ends, 1) THEN kept ELSE factory
        /\ policy' = IF Reaches(ends, 3) THEN wanted ELSE policy
        /\ catalog' = IF Reaches(ends, 4) THEN wanted ELSE catalog
        /\ setFailed' = (ends # "none")
    BY <1>2 DEF SetRole
  <2>4. role = "plugin" => kept[id] # "none"  BY <2>2
  <2> HIDE DEF ends, kept, shelled
  <2>5. /\ factory' \in [Plugins -> {"none", "off", "on"}]
        /\ \A j \in Plugins \ {id} : factory'[j] = factory[j]
        /\ factory[id] = "on" => factory'[id] = "on"
        /\ role = "plugin" /\ Reaches(ends, 3) => factory'[id] = "on"
    BY <2>1, <2>2, <2>3, <2>4 DEF RolesInd, shelled
  <2>6. ShippedHasFactory'  BY <2>3, <2>5 DEF RolesInd, ShippedHasFactory
  <2>7. CatalogFollows' /\ setFailed' \in BOOLEAN  BY <2>1, <2>3 DEF CatalogFollows
  <2>8. policy' \subseteq Plugins /\ catalog' \subseteq Plugins  BY <2>3 DEF RolesInd
  <2> QED  BY <2>5, <2>6, <2>7, <2>8 DEF RolesInd
<1> QED
  BY <1>1, <1>2 DEF PolicyNext

\* The desk, whichever half runs: a chain at work is shown and alone, a release that
\* went through is not reported as failed, what is shipped has its factory file.
THEOREM DeskKept == DeskSpec => []DeskInv
<1>1. DeskInit => DeskInd
  BY JobsStart DEF DeskInit, DeskInd, RolesInd, ShippedHasFactory, CatalogFollows
<1>2. DeskInd /\ [DeskNext]_deskVars => DeskInd'
  <2> SUFFICES ASSUME DeskInd, [DeskNext]_deskVars PROVE DeskInd'
    OBVIOUS
  <2>1. CASE JobNext /\ UNCHANGED policyVars
    BY <2>1, JobsKept DEF DeskInd, RolesInd, policyVars, ShippedHasFactory, CatalogFollows
  <2>2. ASSUME UNCHANGED jobVars PROVE JobsInd'
    BY <2>2 DEF DeskInd, JobsInd, jobVars, JobTypes, StartsFirst, UnderWay, Orderly, InOrder, StartsInOrder, Working, Healing, SuccessStays, SuccessOutlivesIts
  <2>3. CASE PolicyNext /\ UNCHANGED jobVars
    BY <2>2, <2>3, RolesKept DEF DeskInd
  <2>4. CASE UNCHANGED deskVars
    BY <2>2, <2>4 DEF deskVars, policyVars, DeskInd, RolesInd, ShippedHasFactory, CatalogFollows
  <2> QED
    BY <2>1, <2>3, <2>4 DEF DeskNext
<1>3. DeskInd => DeskInv
  <2> SUFFICES ASSUME DeskInd PROVE DeskInv
    OBVIOUS
  <2>1. DeskTypeOK  BY DEF DeskInd, JobsInd, RolesInd, JobTypes, Pids0, DeskTypeOK
  <2>2. OneChainWorks
    <3> DEFINE S == {l \in Chains : chain[l] \in {"booting", "working"}}
    <3>1. SUFFICES ASSUME Orderly PROVE Cardinality(S) <= 1
      BY DEF OneChainWorks
    <3>2. S \subseteq {newest}  BY <3>1 DEF DeskInd, JobsInd, InOrder, Working
    <3>3. IsFiniteSet({newest}) /\ Cardinality({newest}) = 1  BY FS_Singleton
    <3> QED  BY <3>2, <3>3, FS_Subset
  <2>3. WorkIsShown /\ SuccessStays /\ SuccessOutlivesIts
    BY DEF DeskInd, JobsInd, InOrder, Working, WorkIsShown, SuccessStays, SuccessOutlivesIts
  <2> QED  BY <2>1, <2>2, <2>3 DEF DeskInv, DeskInd, RolesInd
<1> QED
  BY <1>1, <1>2, <1>3, PTL DEF DeskSpec

-----------------------------------------------------------------------------
(* The benchmarks of a port *)

BenchRecs == [pc : {"idle", "prompt", "check", "counting", "feeds", "drain", "done"}, kind : {"TG", "PP"},
              warm : BOOLEAN, counts : Nat, error : {"", "stopped", "error"},
              result : {"", "ok", "stopped", "error"}]
FeedStates == {"none", "ready", "spawned", "await", "ok", "stopped", "error", "gone"}
ReqStates  == {"none", "running", "done", "failed", "aborted"}
PressRecs  == [pc : {"idle", "flag", "abort", "done"}, entry : Nat]

BenchEnded(b)  == bench[b].pc = "done"
Active(b) == bench[b].pc \notin {"idle", "done"}
Begun     == {b \in BenchIds : bench[b].pc # "idle"}
Pressed   == {k \in StopIds : press[k].pc # "idle"}
Stopped   == {b \in BenchIds : bench[b].result = "stopped"}

BenchTypes ==
    /\ made \in Nat /\ made <= Cardinality(Begun) + Cardinality(Pressed)
    /\ entry \in 0 .. made /\ flagged \subseteq 1 .. made /\ drained \subseteq flagged
    /\ aborts \in [Entries -> SUBSET (BenchIds \X Feeds)]
    /\ bench \in [BenchIds -> BenchRecs]
    /\ feed \in [BenchIds -> [Feeds -> FeedStates]] /\ req \in [BenchIds -> [Feeds -> ReqStates]]
    /\ press \in [StopIds -> PressRecs] /\ crossed \in BOOLEAN
    /\ \A b \in BenchIds : bench[b].result # "" <=> BenchEnded(b)
    /\ \A k \in StopIds : /\ press[k].pc \in {"flag", "abort"} => press[k].entry \in 1 .. made
                          /\ press[k].pc = "abort" => press[k].entry \in flagged

\* Benches of a port follow one another, and the one that runs has an entry.
OneBench ==
    /\ \A b, c \in BenchIds : c < b /\ bench[b].pc # "idle" => BenchEnded(c)
    /\ \A b \in BenchIds : Active(b) => entry # 0

\* A request that runs belongs to a feed that waits for it, and once it is
\* registered it is in the entry of its bench.
Requests(b) ==
    /\ bench[b].pc = "idle" => bench[b] = NoBench /\ feed[b] = NoFeeds /\ req[b] = NoFeeds
    /\ \A i \in Feeds :
          /\ req[b][i] = "running" => feed[b][i] \in {"spawned", "await"}
          /\ req[b][i] = "running" /\ feed[b][i] = "await" => Active(b) /\ <<b, i>> \in aborts[entry]
          /\ feed[b][i] \in {"ready", "spawned", "await"} => bench[b].pc \in {"feeds", "counting", "drain"}
          /\ bench[b].pc = "counting" /\ i # 0 => feed[b][i] = "none"
\* An entry holds requests of its bench only, or of those that are over.
Registry ==
    \A e \in Entries, b \in BenchIds, i \in Feeds :
        <<b, i>> \in aborts[e] => e <= made /\ bench[b].pc # "idle" /\ (Active(b) => e = entry)

\* What is stopped was stopped by the flag of its own entry.
StopsByFlag(b) ==
    Active(b) =>
        /\ \A i \in Feeds : req[b][i] = "aborted" \/ feed[b][i] = "stopped" => entry \in flagged
        /\ bench[b].pc = "drain" => bench[b].error # "" /\ (bench[b].error = "stopped" => entry \in flagged)
\* Each bench that was stopped has used up a flagged entry.
EntriesUsedUp == Cardinality(Stopped) <= Cardinality(flagged \ {entry})

\* After the drain of its entry no request of the bench runs, and none is spawned.
DrainedIsQuiet ==
    ~crossed /\ entry \in drained =>
        \A b \in BenchIds, i \in Feeds : feed[b][i] # "spawned" /\ req[b][i] # "running"

BenchesInd ==
    /\ BenchTypes /\ OneBench /\ (\A b \in BenchIds : Requests(b) /\ StopsByFlag(b)) /\ Registry
    /\ EntriesUsedUp /\ DrainedIsQuiet

LEMMA EntriesSuffice ==
    ASSUME BenchTypes
    PROVE  /\ \A e \in 1 .. made : e \in Entries
           /\ 0 \notin flagged /\ 0 \notin drained
           /\ IsFiniteSet(flagged) /\ IsFiniteSet(Stopped) /\ Cardinality(flagged) \in Nat
           /\ Cardinality(Stopped) \in Nat /\ IsFiniteSet(Begun) /\ IsFiniteSet(Pressed)
           /\ Cardinality(Begun) \in Nat /\ Cardinality(Pressed) \in Nat
           /\ Cardinality(BenchIds) \in Nat /\ Cardinality(StopIds) \in Nat
           /\ Cardinality(Begun) <= Cardinality(BenchIds) /\ Cardinality(Pressed) <= Cardinality(StopIds)
<1>1. /\ IsFiniteSet(Begun) /\ Cardinality(Begun) <= Cardinality(BenchIds)
      /\ IsFiniteSet(Pressed) /\ Cardinality(Pressed) <= Cardinality(StopIds)
      /\ IsFiniteSet(Stopped)
  BY BenchesAssumption, FS_Subset DEF Begun, Pressed, Stopped
<1>2. IsFiniteSet(flagged)
  <2>1. made \in Nat /\ flagged \subseteq 1 .. made  BY DEF BenchTypes
  <2>2. IsFiniteSet(1 .. made)  BY <2>1, FS_Interval
  <2> QED  BY <2>1, <2>2, FS_Subset
<1>3. /\ Cardinality(Begun) \in Nat /\ Cardinality(Pressed) \in Nat /\ Cardinality(flagged) \in Nat
      /\ Cardinality(Stopped) \in Nat /\ Cardinality(BenchIds) \in Nat /\ Cardinality(StopIds) \in Nat
  BY <1>1, <1>2, BenchesAssumption, FS_CardinalityType
<1>4. \A e \in 1 .. made : e \in Entries
  <2>1. PICK m \in Nat, n \in Nat : m = Cardinality(Begun) /\ n = Cardinality(Pressed)  BY <1>3
  <2>2. PICK x \in Nat, y \in Nat : x = Cardinality(BenchIds) /\ y = Cardinality(StopIds)  BY <1>3
  <2>3. made \in Nat /\ made <= m + n  BY <2>1 DEF BenchTypes
  <2>4. m <= x /\ n <= y  BY <1>1, <2>1, <2>2
  <2>5. Entries = 1 .. (x + y)  BY <2>2 DEF Entries
  <2> QED  BY <2>3, <2>4, <2>5
<1>5. 0 \notin flagged /\ 0 \notin drained
  <2>1. made \in Nat /\ flagged \subseteq 1 .. made /\ drained \subseteq flagged  BY DEF BenchTypes
  <2>2. 0 \notin 1 .. made  BY <2>1
  <2> QED  BY <2>1, <2>2
<1> QED  BY <1>1, <1>2, <1>3, <1>4, <1>5

\* The entry of a bench that runs is one that has been made.
LEMMA ActiveEntry ==
    ASSUME BenchTypes, OneBench, NEW b \in BenchIds, Active(b)
    PROVE  /\ entry \in Entries /\ entry \in 1 .. made
           /\ \A c \in BenchIds : Active(c) => c = b
<1>1. entry \in 1 .. made
  <2>1. entry \in 0 .. made /\ made \in Nat  BY DEF BenchTypes
  <2>2. entry # 0  BY DEF OneBench
  <2> QED  BY <2>1, <2>2
<1>2. \A c \in BenchIds : Active(c) => c = b
  BY BenchesAssumption DEF OneBench, Active, BenchEnded
<1> QED  BY <1>1, <1>2, EntriesSuffice

LEMMA AbortedRequests ==
    ASSUME BenchTypes, NEW set \in SUBSET (BenchIds \X Feeds), req' = Aborted(set)
    PROVE  /\ req' \in [BenchIds -> [Feeds -> ReqStates]]
           /\ \A b \in BenchIds, i \in Feeds :
                 req'[b][i] = IF <<b, i>> \in set /\ req[b][i] = "running" THEN "aborted" ELSE req[b][i]
<1>1. \A b \in BenchIds, i \in Feeds : <<b, i>> \in Running(set) <=> <<b, i>> \in set /\ req[b][i] = "running"
  BY DEF Running
<1>2. req' = [b \in BenchIds |-> [i \in Feeds |-> IF <<b, i>> \in Running(set) THEN "aborted" ELSE req[b][i]]]
  BY DEF Aborted
<1>3. \A b \in BenchIds, i \in Feeds :
         /\ req[b][i] \in ReqStates
         /\ req'[b][i] = IF <<b, i>> \in Running(set) THEN "aborted" ELSE req[b][i]
  <2>1. \A b \in BenchIds, i \in Feeds : req[b][i] \in ReqStates  BY DEF BenchTypes
  <2>2. \A b \in BenchIds, i \in Feeds : req'[b][i] = IF <<b, i>> \in Running(set) THEN "aborted" ELSE req[b][i]
    BY <1>2
  <2> QED  BY <2>1, <2>2
<1>4. \A b \in BenchIds : req'[b] \in [Feeds -> ReqStates]
  <2> SUFFICES ASSUME NEW b \in BenchIds PROVE req'[b] \in [Feeds -> ReqStates]
    OBVIOUS
  <2>1. req'[b] = [i \in Feeds |-> IF <<b, i>> \in Running(set) THEN "aborted" ELSE req[b][i]]
    BY <1>2
  <2> QED
    BY <1>3, <2>1 DEF ReqStates
<1>5. req' \in [BenchIds -> [Feeds -> ReqStates]]
  BY <1>2, <1>4
<1> QED  BY <1>1, <1>3, <1>5

LEMMA EditedFeed ==
    ASSUME NEW S, NEW fn \in [BenchIds -> [Feeds -> S]], NEW b \in BenchIds, NEW i \in Feeds, NEW v \in S
    PROVE  /\ [fn EXCEPT ![b][i] = v] \in [BenchIds -> [Feeds -> S]]
           /\ \A c \in BenchIds, j \in Feeds :
                 [fn EXCEPT ![b][i] = v][c][j] = IF c = b /\ j = i THEN v ELSE fn[c][j]
           /\ \A c \in BenchIds : c # b => [fn EXCEPT ![b][i] = v][c] = fn[c]
OBVIOUS

\* The bench that runs changes its record; the order of benches stays.
LEMMA BenchAdvances ==
    ASSUME BenchTypes, OneBench, NEW b \in BenchIds, NEW r \in BenchRecs, Active(b),
           bench' = [bench EXCEPT ![b] = r], r.pc # "idle", r.result # "" <=> r.pc = "done"
    PROVE  /\ bench' \in [BenchIds -> BenchRecs] /\ bench'[b] = r
           /\ \A c \in BenchIds : c # b => bench'[c] = bench[c] /\ ~Active(c)'
           /\ Begun' = Begun
           /\ \A c \in BenchIds : bench'[c].result # "" <=> BenchEnded(c)'
           /\ \A c, d \in BenchIds : d < c /\ bench'[c].pc # "idle" => BenchEnded(d)'
           /\ Stopped' = IF r.result = "stopped" THEN Stopped \cup {b} ELSE Stopped
<1>1. /\ bench' \in [BenchIds -> BenchRecs] /\ bench'[b] = r
      /\ \A c \in BenchIds : c # b => bench'[c] = bench[c]
  BY DEF BenchTypes
<1>2. \A c \in BenchIds : c # b => ~Active(c)'
  BY <1>1, ActiveEntry DEF Active
<1>3. Begun' = Begun
  BY <1>1 DEF Begun, Active
<1>4. \A c \in BenchIds : bench'[c].result # "" <=> BenchEnded(c)'
  BY <1>1 DEF BenchTypes, BenchEnded
<1>5. \A c, d \in BenchIds : d < c /\ bench'[c].pc # "idle" => BenchEnded(d)'
  BY <1>1, BenchesAssumption DEF OneBench, Active, BenchEnded
<1>6. Stopped' = IF r.result = "stopped" THEN Stopped \cup {b} ELSE Stopped
  <2>1. bench[b].result = ""  BY DEF BenchTypes, Active, BenchEnded
  <2> QED  BY <1>1, <2>1 DEF Stopped
<1> QED  BY <1>1, <1>2, <1>3, <1>4, <1>5, <1>6

\* Nobody but the bench that runs has a request that runs.
LEMMA OthersQuiet ==
    ASSUME BenchesInd, NEW c \in BenchIds, ~Active(c)
    PROVE  \A i \in Feeds : req[c][i] # "running" /\ feed[c][i] \notin {"ready", "spawned", "await"}
  BY DEF BenchesInd, Requests, Active, NoFeeds

\* A bench that returns while no task of it is unregistered.
LEMMA Finishes ==
    ASSUME BenchesInd, NEW b \in BenchIds, Active(b), NEW result \in {"ok", "stopped", "error"},
           result = "stopped" => entry \in flagged, \A i \in Feeds : feed[b][i] # "spawned",
           Finish(b, result)
    PROVE  BenchesInd'
<1> DEFINE r == [NoBench EXCEPT !.pc = "done", !.result = result]
<1>t. BenchTypes /\ OneBench /\ Registry /\ EntriesUsedUp /\ \A c \in BenchIds : Requests(c) /\ StopsByFlag(c)
  BY DEF BenchesInd
<1>1. r \in BenchRecs /\ r.pc = "done" /\ r.result = result /\ r.result # ""
  BY DEF NoBench, BenchRecs
<1>2. /\ bench' = [bench EXCEPT ![b] = r] /\ entry' = 0
      /\ feed' = [feed EXCEPT ![b] = NoFeeds]
      /\ UNCHANGED <<made, flagged, press, drained, crossed>>
  BY DEF Finish
<1> HIDE DEF r
<1>3. /\ bench' \in [BenchIds -> BenchRecs] /\ bench'[b] = r
      /\ \A c \in BenchIds : c # b => bench'[c] = bench[c] /\ ~Active(c)'
      /\ Begun' = Begun
      /\ \A c \in BenchIds : bench'[c].result # "" <=> BenchEnded(c)'
      /\ \A c, d \in BenchIds : d < c /\ bench'[c].pc # "idle" => BenchEnded(d)'
      /\ Stopped' = IF r.result = "stopped" THEN Stopped \cup {b} ELSE Stopped
  BY <1>t, <1>1, <1>2, BenchAdvances
<1>4. entry \in Entries /\ entry \in 1 .. made /\ \A c \in BenchIds : Active(c) => c = b
  BY <1>t, ActiveEntry
<1>5. /\ req' = Aborted(aborts[entry]) /\ aborts' = [aborts EXCEPT ![entry] = {}]
      /\ aborts[entry] \in SUBSET (BenchIds \X Feeds)
  <2>1. aborts \in [Entries -> SUBSET (BenchIds \X Feeds)] /\ made \in Nat  BY <1>t DEF BenchTypes
  <2>2. entry # 0  BY <1>4, <2>1
  <2> QED  BY <1>4, <2>1, <2>2 DEF Finish
<1>6. /\ req' \in [BenchIds -> [Feeds -> ReqStates]]
      /\ \A c \in BenchIds, i \in Feeds :
            req'[c][i] = IF <<c, i>> \in aborts[entry] /\ req[c][i] = "running" THEN "aborted" ELSE req[c][i]
  BY <1>t, <1>5, AbortedRequests
<1>7. /\ feed' \in [BenchIds -> [Feeds -> FeedStates]] /\ feed'[b] = NoFeeds
      /\ \A c \in BenchIds : c # b => feed'[c] = feed[c]
  BY <1>t, <1>2 DEF BenchTypes, NoFeeds, FeedStates
<1>8. \A c \in BenchIds : ~Active(c)'
  BY <1>1, <1>3 DEF Active
<1>9. \A c \in BenchIds, i \in Feeds : req'[c][i] # "running" /\ (c # b => req'[c][i] = req[c][i])
  <2> SUFFICES ASSUME NEW c \in BenchIds, NEW i \in Feeds
               PROVE  req'[c][i] # "running" /\ (c # b => req'[c][i] = req[c][i])
    OBVIOUS
  <2>1. CASE c = b
    <3>1. req[b][i] = "running" => <<b, i>> \in aborts[entry]  BY <1>t DEF Requests
    <3> QED  BY <1>6, <2>1, <3>1
  <2>2. CASE c # b
    <3>1. req[c][i] # "running"  BY <1>4, <2>2, OthersQuiet
    <3> QED  BY <1>6, <2>2, <3>1
  <2> QED  BY <2>1, <2>2
<1>10. BenchTypes'
  <2>1. aborts' \in [Entries -> SUBSET (BenchIds \X Feeds)]  BY <1>t, <1>5 DEF BenchTypes
  <2>2. entry' \in 0 .. made'
    <3>1. made \in Nat  BY <1>t DEF BenchTypes
    <3> QED  BY <3>1, <1>2
  <2>3. Pressed' = Pressed  BY <1>2 DEF Pressed
  <2> QED  BY <2>1, <2>2, <2>3, <1>t, <1>2, <1>3, <1>6, <1>7 DEF BenchTypes
<1>11. OneBench'
  BY <1>3, <1>8 DEF OneBench
<1>12. ASSUME NEW c \in BenchIds PROVE Requests(c)' /\ StopsByFlag(c)'
  <2>1. StopsByFlag(c)'  BY <1>8 DEF StopsByFlag
  <2>2. CASE c = b
    <3>1. \A i \in Feeds : feed'[b][i] = "none"  BY <1>7 DEF NoFeeds
    <3>2. bench'[b].pc = "done"  BY <1>1, <1>3
    <3> QED  BY <2>1, <2>2, <3>1, <3>2, <1>9 DEF Requests
  <2>3. CASE c # b
    <3>1. bench'[c] = bench[c] /\ feed'[c] = feed[c]  BY <2>3, <1>3, <1>7
    <3>2. \A i \in Feeds : req'[c][i] # "running" /\ feed[c][i] \notin {"ready", "spawned", "await"}
      BY <2>3, <1>4, <1>9, OthersQuiet
    <3>3. bench[c].pc = "idle" => req'[c] = NoFeeds
      <4>1. bench[c].pc = "idle" => req[c] = NoFeeds  BY <1>t DEF Requests
      <4>2. req'[c] \in [Feeds -> ReqStates] /\ req[c] \in [Feeds -> ReqStates]  BY <1>6, <1>t DEF BenchTypes
      <4>3. req'[c] = req[c]  BY <4>2, <2>3, <1>9
      <4> QED  BY <4>1, <4>3
    <3>4. bench[c].pc = "counting" => \A i \in Feeds : i # 0 => feed[c][i] = "none"  BY <1>t DEF Requests
    <3>5. bench[c].pc = "idle" => bench[c] = NoBench /\ feed[c] = NoFeeds  BY <1>t DEF Requests
    <3> QED  BY <2>1, <3>1, <3>2, <3>3, <3>4, <3>5 DEF Requests
  <2> QED  BY <2>2, <2>3
<1>13. Registry'
  <2>1. \A e \in Entries : aborts'[e] \subseteq aborts[e]  BY <1>t, <1>5 DEF BenchTypes
  <2>2. \A c \in BenchIds : bench[c].pc # "idle" => bench'[c].pc # "idle"  BY <1>1, <1>3
  <2> QED  BY <2>1, <2>2, <1>t, <1>2, <1>8 DEF Registry
<1>14. EntriesUsedUp'
  <2>1. flagged' \ {entry'} = flagged  BY <1>t, <1>2, EntriesSuffice
  <2>2. IsFiniteSet(flagged) /\ IsFiniteSet(Stopped) /\ Cardinality(flagged) \in Nat /\ Cardinality(Stopped) \in Nat
    BY <1>t, EntriesSuffice
  <2>3. CASE result = "stopped"
    <3>1. Cardinality(flagged \ {entry}) = Cardinality(flagged) - 1  BY <2>2, <2>3, FS_RemoveElement
    <3>2. Cardinality(Stopped \cup {b}) \in {Cardinality(Stopped), Cardinality(Stopped) + 1}  BY <2>2, FS_AddElement
    <3>3. Stopped' = Stopped \cup {b}  BY <1>1, <1>3, <2>3
    <3>4. Cardinality(Stopped) <= Cardinality(flagged) - 1  BY <3>1, <1>t DEF EntriesUsedUp
    <3>5. Cardinality(Stopped \cup {b}) <= Cardinality(flagged)  BY <2>2, <3>2, <3>4
    <3> QED  BY <2>1, <3>3, <3>5 DEF EntriesUsedUp
  <2>4. CASE result # "stopped"
    <3>1. IsFiniteSet(flagged \ {entry}) /\ Cardinality(flagged \ {entry}) <= Cardinality(flagged)  BY <2>2, FS_Subset
    <3>2. Stopped' = Stopped  BY <1>1, <1>3, <2>4
    <3>3. Cardinality(flagged \ {entry}) \in Nat  BY <3>1, FS_CardinalityType
    <3>4. Cardinality(Stopped) <= Cardinality(flagged \ {entry})  BY <1>t DEF EntriesUsedUp
    <3>5. Cardinality(Stopped) <= Cardinality(flagged)  BY <2>2, <3>1, <3>3, <3>4
    <3> QED  BY <2>1, <3>2, <3>5 DEF EntriesUsedUp
  <2> QED  BY <2>3, <2>4
<1>15. DrainedIsQuiet'
  <2>1. 0 \notin drained'  BY <1>t, <1>2, EntriesSuffice
  <2> QED  BY <2>1, <1>2 DEF DrainedIsQuiet
<1> QED  BY <1>10, <1>11, <1>12, <1>13, <1>14, <1>15 DEF BenchesInd

\* What a step of a bench that runs on must see to, when its record, the calls of
\* its feeds and their requests become r, f and q.
RunsOn(b, r, f, q) ==
    /\ r \in BenchRecs /\ r.pc \notin {"idle", "done"} /\ r.result = ""
    /\ f \in [Feeds -> FeedStates] /\ q \in [Feeds -> ReqStates]
    /\ \A i \in Feeds :
          /\ q[i] = "running" => f[i] \in {"spawned", "await"}
          /\ q[i] = "running" /\ f[i] = "await" => <<b, i>> \in aborts'[entry]
          /\ f[i] \in {"ready", "spawned", "await"} => r.pc \in {"feeds", "counting", "drain"}
          /\ r.pc = "counting" /\ i # 0 => f[i] = "none"
          /\ q[i] = "aborted" \/ f[i] = "stopped" => entry \in flagged
          /\ ~crossed /\ entry \in drained => f[i] # "spawned" /\ q[i] # "running"
    /\ r.pc = "drain" => r.error # "" /\ (r.error = "stopped" => entry \in flagged)

LEMMA RunningOn ==
    ASSUME BenchesInd, NEW b \in BenchIds, Active(b), NEW r, NEW f, NEW q, RunsOn(b, r, f, q),
           bench' = [bench EXCEPT ![b] = r], feed' = [feed EXCEPT ![b] = f], req' = [req EXCEPT ![b] = q],
           NEW new \in SUBSET Feeds, aborts' = [aborts EXCEPT ![entry] = @ \cup {<<b, i>> : i \in new}],
           UNCHANGED <<entry, made, flagged, press, drained, crossed>>
    PROVE  BenchesInd'
<1>t. BenchTypes /\ OneBench /\ Registry /\ EntriesUsedUp /\ \A c \in BenchIds : Requests(c) /\ StopsByFlag(c)
  BY DEF BenchesInd
<1>1. /\ bench' \in [BenchIds -> BenchRecs] /\ bench'[b] = r
      /\ \A c \in BenchIds : c # b => bench'[c] = bench[c] /\ ~Active(c)'
      /\ Begun' = Begun
      /\ \A c \in BenchIds : bench'[c].result # "" <=> BenchEnded(c)'
      /\ \A c, d \in BenchIds : d < c /\ bench'[c].pc # "idle" => BenchEnded(d)'
      /\ Stopped' = Stopped
  <2>1. r \in BenchRecs /\ r.pc # "idle" /\ (r.result # "" <=> r.pc = "done") /\ r.result = ""  BY DEF RunsOn
  <2> QED  BY <1>t, <2>1, BenchAdvances
<1>2. entry \in Entries /\ entry \in 1 .. made /\ \A c \in BenchIds : Active(c) => c = b
  BY <1>t, ActiveEntry
<1>3. /\ feed' \in [BenchIds -> [Feeds -> FeedStates]] /\ feed'[b] = f
      /\ req' \in [BenchIds -> [Feeds -> ReqStates]] /\ req'[b] = q
      /\ \A c \in BenchIds : c # b => feed'[c] = feed[c] /\ req'[c] = req[c]
  <2>1. f \in [Feeds -> FeedStates] /\ q \in [Feeds -> ReqStates]  BY DEF RunsOn
  <2>2. feed \in [BenchIds -> [Feeds -> FeedStates]] /\ req \in [BenchIds -> [Feeds -> ReqStates]]  BY <1>t DEF BenchTypes
  <2> HIDE DEF FeedStates, ReqStates
  <2> QED  BY <2>1, <2>2
<1>4. /\ aborts' \in [Entries -> SUBSET (BenchIds \X Feeds)]
      /\ \A e \in Entries : aborts'[e] = IF e = entry THEN aborts[e] \cup {<<b, i>> : i \in new} ELSE aborts[e]
  <2>1. aborts \in [Entries -> SUBSET (BenchIds \X Feeds)]  BY <1>t DEF BenchTypes
  <2>2. {<<b, i>> : i \in new} \in SUBSET (BenchIds \X Feeds)  OBVIOUS
  <2> QED  BY <2>1, <2>2, <1>2
<1>5. BenchTypes'
  <2>1. Pressed' = Pressed  BY DEF Pressed
  <2> QED  BY <2>1, <1>t, <1>1, <1>3, <1>4 DEF BenchTypes
<1>6. OneBench'
  <2>1. entry' # 0
    <3>1. made \in Nat  BY <1>t DEF BenchTypes
    <3> QED  BY <1>2, <3>1
  <2> QED  BY <1>1, <2>1 DEF OneBench
<1>7. ASSUME NEW c \in BenchIds PROVE Requests(c)' /\ StopsByFlag(c)'
  <2>1. CASE c = b
    <3>1. bench'[c] = r /\ feed'[c] = f /\ req'[c] = q  BY <2>1, <1>1, <1>3
    <3>2. r.pc \notin {"idle", "done"}  BY DEF RunsOn
    <3>3. Active(c)'  BY <3>1, <3>2 DEF Active
    <3>4. Requests(c)'  BY <2>1, <3>1, <3>2, <3>3 DEF Requests, RunsOn
    <3>5. StopsByFlag(c)'  BY <3>1 DEF StopsByFlag, RunsOn
    <3> QED  BY <3>4, <3>5
  <2>2. CASE c # b
    <3>1. bench'[c] = bench[c] /\ feed'[c] = feed[c] /\ req'[c] = req[c] /\ ~Active(c)' /\ ~Active(c)
      BY <2>2, <1>1, <1>2, <1>3
    <3>2. \A i \in Feeds : req[c][i] # "running" /\ feed[c][i] \notin {"ready", "spawned", "await"}
      BY <3>1, OthersQuiet
    <3>3. Requests(c)  BY <1>t
    <3>4. Requests(c)'  BY <3>1, <3>2, <3>3 DEF Requests
    <3>5. StopsByFlag(c)'  BY <3>1 DEF StopsByFlag
    <3> QED  BY <3>4, <3>5
  <2> QED  BY <2>1, <2>2
<1>8. Registry'
  <2> SUFFICES ASSUME NEW e \in Entries, NEW c \in BenchIds, NEW i \in Feeds, <<c, i>> \in aborts'[e]
               PROVE  e <= made /\ bench'[c].pc # "idle" /\ (Active(c)' => e = entry)
    BY DEF Registry
  <2>1. CASE <<c, i>> \in aborts[e]
    <3>1. e <= made /\ bench[c].pc # "idle" /\ (Active(c) => e = entry)  BY <2>1, <1>t DEF Registry
    <3>2. Active(c)' => c = b  BY <1>1
    <3>3. bench'[c].pc # "idle"  BY <3>1, <1>1 DEF RunsOn
    <3> QED  BY <3>1, <3>2, <3>3
  <2>2. CASE <<c, i>> \notin aborts[e]
    <3>1. e = entry /\ c = b  BY <2>2, <1>4
    <3>2. bench'[c].pc # "idle"  BY <3>1, <1>1 DEF RunsOn
    <3>3. made \in Nat  BY <1>t DEF BenchTypes
    <3> QED  BY <3>1, <3>2, <3>3, <1>2
  <2> QED  BY <2>1, <2>2
<1>9. EntriesUsedUp'
  BY <1>t, <1>1 DEF EntriesUsedUp
<1>10. DrainedIsQuiet'
  <2> SUFFICES ASSUME ~crossed, entry \in drained, NEW c \in BenchIds, NEW i \in Feeds
               PROVE  feed'[c][i] # "spawned" /\ req'[c][i] # "running"
    BY DEF DrainedIsQuiet
  <2>1. CASE c = b
    BY <2>1, <1>3 DEF RunsOn
  <2>2. CASE c # b
    BY <2>2, <1>2, <1>3, OthersQuiet
  <2> QED  BY <2>1, <2>2
<1> QED  BY <1>5, <1>6, <1>7, <1>8, <1>9, <1>10 DEF BenchesInd

\* What holds of a bench that runs before its step.
LEMMA RunsOnNow ==
    ASSUME BenchesInd, NEW b \in BenchIds, Active(b)
    PROVE  /\ bench[b] \in BenchRecs /\ bench[b].result = ""
           /\ feed[b] \in [Feeds -> FeedStates] /\ req[b] \in [Feeds -> ReqStates]
           /\ bench = [bench EXCEPT ![b] = bench[b]] /\ feed = [feed EXCEPT ![b] = feed[b]]
           /\ req = [req EXCEPT ![b] = req[b]]
           /\ aborts = [aborts EXCEPT ![entry] = @ \cup {<<b, i>> : i \in {}}]
           /\ aborts \in [Entries -> SUBSET (BenchIds \X Feeds)]
           /\ entry \in Entries /\ entry # 0
<1>t. BenchTypes /\ OneBench
  BY DEF BenchesInd
<1>1. bench \in [BenchIds -> BenchRecs]  BY <1>t DEF BenchTypes
<1>2. feed \in [BenchIds -> [Feeds -> FeedStates]] /\ req \in [BenchIds -> [Feeds -> ReqStates]]  BY <1>t DEF BenchTypes
<1>3. aborts \in [Entries -> SUBSET (BenchIds \X Feeds)]  BY <1>t DEF BenchTypes
<1>4. entry \in Entries  BY <1>t, ActiveEntry
<1>5. entry # 0  BY <1>t DEF OneBench
<1>6. bench[b].result = ""  BY <1>t DEF BenchTypes, Active, BenchEnded
<1>7. bench = [bench EXCEPT ![b] = bench[b]]  BY <1>1
<1>8. feed = [feed EXCEPT ![b] = feed[b]] /\ req = [req EXCEPT ![b] = req[b]]  BY <1>2
<1>9. aborts = [aborts EXCEPT ![entry] = @ \cup {<<b, i>> : i \in {}}]
  <2>1. {<<b, i>> : i \in {}} = {}  OBVIOUS
  <2>2. aborts = [aborts EXCEPT ![entry] = @ \cup {}]  BY <1>3
  <2> QED  BY <2>1, <2>2
<1>10. feed[b] \in [Feeds -> FeedStates] /\ req[b] \in [Feeds -> ReqStates]  BY <1>2
<1> QED  BY <1>1, <1>3, <1>4, <1>5, <1>6, <1>7, <1>8, <1>9, <1>10

\* The flag of the entry, for a bench that runs.
LEMMA FlagSeen ==
    ASSUME BenchesInd, NEW b \in BenchIds, Active(b)
    PROVE  StopRequested <=> entry \in flagged
BY RunsOnNow DEF StopRequested

\* A bench moves on and launches nothing.
LEMMA GoesTo ==
    ASSUME BenchesInd, NEW b \in BenchIds, Active(b), NEW pc \in {"check", "prompt"}, Goto(b, pc),
           \A i \in Feeds : feed[b][i] \notin {"ready", "spawned", "await"}
    PROVE  BenchesInd'
<1> DEFINE r == [bench[b] EXCEPT !.pc = pc]
<1>n. /\ bench[b] \in BenchRecs /\ bench[b].result = ""
      /\ feed[b] \in [Feeds -> FeedStates] /\ req[b] \in [Feeds -> ReqStates]
      /\ feed = [feed EXCEPT ![b] = feed[b]] /\ req = [req EXCEPT ![b] = req[b]]
      /\ aborts = [aborts EXCEPT ![entry] = @ \cup {<<b, i>> : i \in {}}]
  BY RunsOnNow
<1>1. r \in BenchRecs /\ r.pc = pc /\ r.result = ""
  BY <1>n DEF BenchRecs
<1>2. bench' = [bench EXCEPT ![b] = r]
  BY DEF Goto
<1> HIDE DEF r
<1>3. Requests(b) /\ StopsByFlag(b) /\ DrainedIsQuiet
  BY DEF BenchesInd
<1>4. \A i \in Feeds : req[b][i] # "running"
  BY <1>3 DEF Requests
<1>5. RunsOn(b, r, feed[b], req[b])
  <2>1. \A i \in Feeds : req[b][i] = "aborted" \/ feed[b][i] = "stopped" => entry \in flagged
    BY <1>3 DEF StopsByFlag
  <2>2. r.pc \notin {"idle", "done", "counting", "drain"}  BY <1>1
  <2>3. \A i \in Feeds : feed[b][i] # "spawned"  OBVIOUS
  <2> QED  BY <1>n, <1>1, <1>4, <2>1, <2>2, <2>3 DEF RunsOn
<1> QED
  <2>1. UNCHANGED <<entry, made, flagged, aborts, feed, req, press, drained, crossed>>  BY DEF Goto
  <2>2. {} \in SUBSET Feeds  OBVIOUS
  <2> QED  BY <2>1, <2>2, <1>n, <1>2, <1>5, RunningOn

\* A bench launches requests.
LEMMA LaunchKeeps ==
    ASSUME BenchesInd, NEW b \in BenchIds, Active(b), NEW set \in SUBSET Feeds,
           NEW pc \in {"counting", "feeds"}, pc = "counting" => set = {0}, Launch(b, pc, set)
    PROVE  BenchesInd'
<1> DEFINE r == [bench[b] EXCEPT !.pc = pc, !.counts = IF pc = "counting" THEN @ + 1 ELSE 0]
           f == [i \in Feeds |-> IF i \in set THEN "ready" ELSE "none"]
<1>n. /\ bench[b] \in BenchRecs /\ bench[b].result = ""
      /\ aborts = [aborts EXCEPT ![entry] = @ \cup {<<b, i>> : i \in {}}]
  BY RunsOnNow
<1>1. r \in BenchRecs /\ r.pc = pc /\ r.result = ""
  <2>1. PICK n \in Nat : n = IF pc = "counting" THEN bench[b].counts + 1 ELSE 0
    <3>1. bench[b].counts \in Nat  BY <1>n DEF BenchRecs
    <3>2. bench[b].counts + 1 \in Nat  BY <3>1
    <3> QED  BY <3>2
  <2>2. r = [bench[b] EXCEPT !.pc = pc, !.counts = n]  BY <2>1
  <2> QED  BY <2>2, <1>n DEF BenchRecs
<1>2. bench' = [bench EXCEPT ![b] = r] /\ feed' = [feed EXCEPT ![b] = f] /\ req' = [req EXCEPT ![b] = NoFeeds]
  BY DEF Launch
<1>3. /\ f \in [Feeds -> FeedStates] /\ NoFeeds \in [Feeds -> ReqStates]
      /\ \A i \in Feeds : /\ NoFeeds[i] = "none" /\ f[i] \in {"ready", "none"}
                          /\ pc = "counting" /\ i # 0 => f[i] = "none"
  BY DEF NoFeeds, FeedStates, ReqStates
<1> HIDE DEF r, f
<1>5. RunsOn(b, r, f, NoFeeds)
  BY <1>1, <1>3 DEF RunsOn
<1> QED
  <2>1. UNCHANGED <<entry, made, flagged, aborts, press, drained, crossed>>  BY DEF Launch
  <2>2. {} \in SUBSET Feeds  OBVIOUS
  <2> QED  BY <2>1, <2>2, <1>n, <1>2, <1>5, RunningOn

\* The steps of a bench between its requests.
LEMMA BenchSteps ==
    ASSUME BenchesInd, NEW b \in BenchIds,
           CheckRun(b) \/ Calibrate(b) \/ Counted(b) \/ FeedsDone(b) \/ Drain(b)
    PROVE  BenchesInd'
<1>1. Active(b)
  BY DEF CheckRun, Calibrate, Counted, FeedsDone, Drain, Active
<1>2. Requests(b) /\ StopsByFlag(b) /\ (StopRequested <=> entry \in flagged)
  BY <1>1, FlagSeen DEF BenchesInd
<1>3. {0} \in SUBSET Feeds /\ Feeds \in SUBSET Feeds
  BY BenchesAssumption
<1>4. CASE CheckRun(b)
  <2>1. \A i \in Feeds : feed[b][i] \notin {"ready", "spawned", "await"}
    BY <1>2, <1>4 DEF CheckRun, Requests
  <2>2. \/ entry \in flagged /\ Finish(b, "stopped")
        \/ Goto(b, "prompt")
        \/ \E set \in SUBSET Feeds : Launch(b, "feeds", set)
    BY <1>2, <1>3, <1>4 DEF CheckRun
  <2> QED  BY <2>1, <2>2, <1>1, Finishes, GoesTo, LaunchKeeps
<1>5. CASE Calibrate(b)
  <2>1. \A i \in Feeds : feed[b][i] \notin {"ready", "spawned", "await"}
    BY <1>2, <1>5 DEF Calibrate, Requests
  <2>2. (entry \in flagged /\ Finish(b, "stopped")) \/ Launch(b, "counting", {0})
    BY <1>2, <1>5 DEF Calibrate
  <2> QED  BY <2>1, <2>2, <1>1, <1>3, Finishes, LaunchKeeps
<1>6. CASE Counted(b)
  <2>1. \A i \in Feeds : feed[b][i] \notin {"ready", "spawned", "await"}
    BY <1>2, <1>6 DEF Counted, Requests
  <2>2. \/ entry \in flagged /\ Finish(b, "stopped")
        \/ Goto(b, "prompt") \/ Goto(b, "check")
        \/ Launch(b, "feeds", {0})
    BY <1>2, <1>6 DEF Counted
  <2> QED  BY <2>1, <2>2, <1>1, <1>3, Finishes, GoesTo, LaunchKeeps
<1>7. CASE FeedsDone(b)
  <2>1. \A i \in Feeds : feed[b][i] \in {"none", "ok"}
    BY <1>7 DEF FeedsDone
  <2>2. CASE StopRequested \/ ~bench[b].warm
    <3>1. (entry \in flagged /\ Finish(b, "stopped")) \/ Finish(b, "ok")
      BY <1>2, <1>7, <2>2 DEF FeedsDone
    <3> QED  BY <2>1, <3>1, <1>1, Finishes
  <2>3. CASE ~(StopRequested \/ ~bench[b].warm)
    <3> DEFINE r == [bench[b] EXCEPT !.pc = "check", !.warm = FALSE]
    <3>n. /\ bench[b] \in BenchRecs /\ bench[b].result = ""
          /\ feed[b] \in [Feeds -> FeedStates] /\ req[b] \in [Feeds -> ReqStates]
          /\ feed = [feed EXCEPT ![b] = feed[b]] /\ req = [req EXCEPT ![b] = req[b]]
          /\ aborts = [aborts EXCEPT ![entry] = @ \cup {<<b, i>> : i \in {}}]
      BY <1>1, RunsOnNow
    <3>1. r \in BenchRecs /\ r.pc = "check" /\ r.result = ""
      BY <3>n DEF BenchRecs
    <3>2. /\ bench' = [bench EXCEPT ![b] = r]
          /\ UNCHANGED <<entry, made, flagged, aborts, feed, req, press, drained, crossed>>
      BY <1>7, <2>3 DEF FeedsDone
    <3> HIDE DEF r
    <3>3. \A i \in Feeds : req[b][i] # "running"
      BY <1>2, <2>1 DEF Requests
    <3>4. \A i \in Feeds : req[b][i] = "aborted" \/ feed[b][i] = "stopped" => entry \in flagged
      BY <1>1, <1>2 DEF StopsByFlag
    <3>5. RunsOn(b, r, feed[b], req[b])
      BY <2>1, <3>n, <3>1, <3>3, <3>4 DEF RunsOn
    <3>6. {} \in SUBSET Feeds  OBVIOUS
    <3> QED  BY <3>n, <3>2, <3>5, <3>6, <1>1, RunningOn
  <2> QED  BY <2>2, <2>3
<1>8. CASE Drain(b)
  <2>1. \A i \in Feeds : feed[b][i] # "spawned"
    BY <1>8 DEF Drain, FeedsAt
  <2>2. Finish(b, bench[b].error) /\ bench[b].error # "" /\ (bench[b].error = "stopped" => entry \in flagged)
    BY <1>1, <1>2, <1>8 DEF Drain, StopsByFlag
  <2>3. bench[b].error \in {"stopped", "error"}
    BY <2>2, <1>1, RunsOnNow DEF BenchRecs
  <2> QED  BY <2>1, <2>2, <2>3, <1>1, Finishes
<1> QED  BY <1>4, <1>5, <1>6, <1>7, <1>8

\* A feed's call of race_stop moves on, and so may its request.
LEMMA FeedMoves ==
    ASSUME BenchesInd, NEW b \in BenchIds, Active(b), NEW i \in Feeds,
           NEW to \in FeedStates, NEW how \in ReqStates,
           feed' = [feed EXCEPT ![b][i] = to], req' = [req EXCEPT ![b][i] = how],
           feed[b][i] \in {"ready", "spawned", "await"}, to \in {"spawned", "await", "stopped", "error", "ok"},
           how = "running" => to \in {"spawned", "await"},
           how = "running" /\ to = "await" => <<b, i>> \in aborts'[entry],
           how = "aborted" \/ to = "stopped" => entry \in flagged,
           to = "spawned" \/ how = "running" => \/ entry \notin flagged
                                                \/ feed[b][i] = "spawned" \/ req[b][i] = "running",
           NEW new \in SUBSET Feeds, aborts' = [aborts EXCEPT ![entry] = @ \cup {<<b, j>> : j \in new}],
           UNCHANGED <<entry, made, flagged, bench, press, drained, crossed>>
    PROVE  BenchesInd'
<1> DEFINE f == [feed[b] EXCEPT ![i] = to]
           q == [req[b] EXCEPT ![i] = how]
<1>n. /\ bench[b] \in BenchRecs /\ bench[b].result = ""
      /\ feed[b] \in [Feeds -> FeedStates] /\ req[b] \in [Feeds -> ReqStates]
      /\ bench = [bench EXCEPT ![b] = bench[b]]
      /\ aborts \in [Entries -> SUBSET (BenchIds \X Feeds)] /\ entry \in Entries
  BY RunsOnNow
<1>1. /\ f \in [Feeds -> FeedStates] /\ f[i] = to /\ \A j \in Feeds : j # i => f[j] = feed[b][j]
      /\ q \in [Feeds -> ReqStates] /\ q[i] = how /\ \A j \in Feeds : j # i => q[j] = req[b][j]
  BY <1>n
<1>2. feed' = [feed EXCEPT ![b] = f] /\ req' = [req EXCEPT ![b] = q]
  OBVIOUS
<1> HIDE DEF f, q
<1>3. Requests(b) /\ StopsByFlag(b) /\ DrainedIsQuiet /\ BenchTypes
  BY DEF BenchesInd
<1>4. bench[b].pc \in {"feeds", "counting", "drain"}
  BY <1>3 DEF Requests
<1>5. \A j \in Feeds : <<b, j>> \in aborts[entry] => <<b, j>> \in aborts'[entry]
  BY <1>n
<1>6. ~crossed /\ entry \in drained => entry \in flagged /\ \A j \in Feeds : feed[b][j] # "spawned" /\ req[b][j] # "running"
  BY <1>3 DEF DrainedIsQuiet, BenchTypes
<1>7. ASSUME NEW j \in Feeds
      PROVE  /\ q[j] = "running" => f[j] \in {"spawned", "await"}
             /\ q[j] = "running" /\ f[j] = "await" => <<b, j>> \in aborts'[entry]
             /\ f[j] \in {"ready", "spawned", "await"} => bench[b].pc \in {"feeds", "counting", "drain"}
             /\ bench[b].pc = "counting" /\ j # 0 => f[j] = "none"
             /\ q[j] = "aborted" \/ f[j] = "stopped" => entry \in flagged
             /\ ~crossed /\ entry \in drained => f[j] # "spawned" /\ q[j] # "running"
  <2>1. CASE j = i
    <3>1. bench[b].pc = "counting" => i = 0
      BY <1>3 DEF Requests
    <3> QED  BY <2>1, <3>1, <1>1, <1>4, <1>6
  <2>2. CASE j # i
    <3>1. f[j] = feed[b][j] /\ q[j] = req[b][j]  BY <2>2, <1>1
    <3>2. /\ req[b][j] = "running" => feed[b][j] \in {"spawned", "await"}
          /\ req[b][j] = "running" /\ feed[b][j] = "await" => <<b, j>> \in aborts[entry]
          /\ bench[b].pc = "counting" /\ j # 0 => feed[b][j] = "none"
      BY <1>3 DEF Requests
    <3>3. req[b][j] = "aborted" \/ feed[b][j] = "stopped" => entry \in flagged
      BY <1>3 DEF StopsByFlag
    <3> QED  BY <3>1, <3>2, <3>3, <1>4, <1>5, <1>6
  <2> QED  BY <2>1, <2>2
<1>8. bench[b].pc \notin {"idle", "done"}
  BY DEF Active
<1>9. bench[b].pc = "drain" => bench[b].error # "" /\ (bench[b].error = "stopped" => entry \in flagged)
  BY <1>3 DEF StopsByFlag
<1>10. RunsOn(b, bench[b], f, q)
  BY <1>n, <1>1, <1>7, <1>8, <1>9 DEF RunsOn
<1>11. bench' = [bench EXCEPT ![b] = bench[b]]
  BY <1>n
<1> QED  BY <1>2, <1>10, <1>11, RunningOn

LEMMA RaceSteps ==
    ASSUME BenchesInd, NEW b \in BenchIds, NEW i \in Feeds,
           RaceSpawn(b, i) \/ RaceRegister(b, i) \/ RaceReturn(b, i) \/ EngineAnswers(b, i)
    PROVE  BenchesInd'
<1>1. Requests(b) /\ StopsByFlag(b) /\ BenchTypes
  BY DEF BenchesInd
<1>2. feed[b][i] \in {"ready", "spawned", "await"} /\ Active(b)
  BY <1>1 DEF RaceSpawn, RaceRegister, RaceReturn, EngineAnswers, Requests, Active
<1>n. /\ feed[b] \in [Feeds -> FeedStates] /\ req[b] \in [Feeds -> ReqStates]
      /\ aborts = [aborts EXCEPT ![entry] = @ \cup {<<b, j>> : j \in {}}]
      /\ aborts \in [Entries -> SUBSET (BenchIds \X Feeds)] /\ entry \in Entries /\ entry # 0
      /\ (StopRequested <=> entry \in flagged)
  BY <1>2, RunsOnNow, FlagSeen
<1>3. /\ feed \in [BenchIds -> [Feeds -> FeedStates]] /\ req \in [BenchIds -> [Feeds -> ReqStates]]
      /\ feed = [feed EXCEPT ![b][i] = feed[b][i]] /\ req = [req EXCEPT ![b][i] = req[b][i]]
  <2>1. feed \in [BenchIds -> [Feeds -> FeedStates]] /\ req \in [BenchIds -> [Feeds -> ReqStates]]
    BY <1>1 DEF BenchTypes
  <2> HIDE DEF FeedStates, ReqStates
  <2>2. feed = [feed EXCEPT ![b] = feed[b]] /\ req = [req EXCEPT ![b] = req[b]]
    BY <2>1
  <2>3. feed[b] = [feed[b] EXCEPT ![i] = feed[b][i]] /\ req[b] = [req[b] EXCEPT ![i] = req[b][i]]
    BY <1>n
  <2> QED  BY <2>1, <2>2, <2>3
<1>4. {} \in SUBSET Feeds /\ {i} \in SUBSET Feeds
  OBVIOUS
<1>5. /\ req[b][i] = "running" => feed[b][i] \in {"spawned", "await"}
      /\ req[b][i] = "running" /\ feed[b][i] = "await" => <<b, i>> \in aborts[entry]
      /\ req[b][i] = "aborted" \/ feed[b][i] = "stopped" => entry \in flagged
  BY <1>1, <1>2 DEF Requests, StopsByFlag
<1>6. feed[b][i] \in FeedStates /\ req[b][i] \in ReqStates
  BY <1>n
<1>7. CASE RaceSpawn(b, i)
  <2>1. UNCHANGED <<entry, made, flagged, aborts, bench, press, drained, crossed>> /\ feed[b][i] = "ready"
    BY <1>7 DEF RaceSpawn
  <2>2. CASE StopRequested
    <3>1. feed' = [feed EXCEPT ![b][i] = "stopped"] /\ req' = [req EXCEPT ![b][i] = req[b][i]] /\ req[b][i] # "running"
      BY <1>3, <1>5, <1>7, <2>1, <2>2 DEF RaceSpawn
    <3>2. "stopped" \in FeedStates  BY DEF FeedStates
    <3> QED  BY <1>n, <1>2, <1>4, <1>6, <2>1, <2>2, <3>1, <3>2, FeedMoves
  <2>3. CASE ~StopRequested
    <3>1. feed' = [feed EXCEPT ![b][i] = "spawned"] /\ req' = [req EXCEPT ![b][i] = "running"]
      BY <1>7, <2>3 DEF RaceSpawn
    <3>2. "spawned" \in FeedStates /\ "running" \in ReqStates  BY DEF FeedStates, ReqStates
    <3> QED  BY <1>n, <1>2, <1>4, <2>1, <2>3, <3>1, <3>2, FeedMoves
  <2> QED  BY <2>2, <2>3
<1>8. CASE RaceRegister(b, i)
  <2>1. /\ UNCHANGED <<entry, made, flagged, bench, press, drained, crossed>> /\ feed[b][i] = "spawned"
        /\ feed' = [feed EXCEPT ![b][i] = "await"] /\ req' = [req EXCEPT ![b][i] = req[b][i]]
        /\ aborts' = [aborts EXCEPT ![entry] = @ \cup {<<b, i>>}]
    BY <1>n, <1>3, <1>8 DEF RaceRegister
  <2>2. aborts' = [aborts EXCEPT ![entry] = @ \cup {<<b, j>> : j \in {i}}]
    BY <2>1
  <2>3. <<b, i>> \in aborts'[entry]
    BY <1>n, <2>1
  <2>4. "await" \in FeedStates  BY DEF FeedStates
  <2> QED  BY <1>2, <1>4, <1>5, <1>6, <2>1, <2>2, <2>3, <2>4, FeedMoves
<1>9. CASE RaceReturn(b, i)
  <2> DEFINE to == IF StopRequested \/ req[b][i] = "aborted" THEN "stopped"
                   ELSE IF req[b][i] = "failed" THEN "error" ELSE "ok"
  <2>1. /\ UNCHANGED <<entry, made, flagged, aborts, bench, press, drained, crossed>> /\ req[b][i] # "running"
        /\ feed' = [feed EXCEPT ![b][i] = to] /\ req' = [req EXCEPT ![b][i] = req[b][i]]
    BY <1>3, <1>9 DEF RaceReturn
  <2>2. to \in FeedStates /\ to \in {"stopped", "error", "ok"} /\ (to = "stopped" => entry \in flagged)
    BY <1>n, <1>5 DEF FeedStates
  <2> HIDE DEF to
  <2> QED  BY <1>n, <1>2, <1>4, <1>5, <1>6, <2>1, <2>2, FeedMoves
<1>10. CASE EngineAnswers(b, i)
  <2>1. PICK a \in {"done", "failed"} : req' = [req EXCEPT ![b][i] = a]
    BY <1>10 DEF EngineAnswers
  <2>2. /\ UNCHANGED <<entry, made, flagged, aborts, bench, press, drained, crossed>>
        /\ feed' = [feed EXCEPT ![b][i] = feed[b][i]] /\ req[b][i] = "running"
    BY <1>3, <1>10 DEF EngineAnswers
  <2>3. a \in ReqStates /\ feed[b][i] \in {"spawned", "await"}  BY <1>5, <2>2 DEF ReqStates
  <2> QED  BY <1>n, <1>2, <1>4, <1>6, <2>1, <2>2, <2>3, FeedMoves
<1> QED  BY <1>7, <1>8, <1>9, <1>10

\* A feed fails: its siblings that have sent nothing are given up.
LEMMA FeedsFailing ==
    ASSUME BenchesInd, NEW b \in BenchIds, FeedsFail(b)
    PROVE  BenchesInd'
<1> DEFINE f == [i \in Feeds |-> IF feed[b][i] = "ready" THEN "gone" ELSE feed[b][i]]
<1>1. Active(b)
  BY DEF FeedsFail, Active
<1>2. Requests(b) /\ StopsByFlag(b) /\ DrainedIsQuiet
  BY DEF BenchesInd
<1>n. /\ bench[b] \in BenchRecs /\ bench[b].result = ""
      /\ feed[b] \in [Feeds -> FeedStates] /\ req[b] \in [Feeds -> ReqStates]
      /\ req = [req EXCEPT ![b] = req[b]]
      /\ aborts = [aborts EXCEPT ![entry] = @ \cup {<<b, i>> : i \in {}}]
  BY <1>1, RunsOnNow
<1>3. PICK how \in {"stopped", "error"} :
         FeedsAt(b, how) # {} /\ bench' = [bench EXCEPT ![b].pc = "drain", ![b].error = how]
  BY DEF FeedsFail
<1> DEFINE r == [bench[b] EXCEPT !.pc = "drain", !.error = how]
<1>4. r \in BenchRecs /\ r.pc = "drain" /\ r.error = how /\ r.result = ""
  BY <1>n DEF BenchRecs
<1>5. bench' = [bench EXCEPT ![b] = r]
  BY <1>3
<1>6. feed' = [feed EXCEPT ![b] = f] /\ UNCHANGED <<entry, made, flagged, aborts, req, press, drained, crossed>>
  BY DEF FeedsFail
<1>7. how = "stopped" => entry \in flagged
  BY <1>1, <1>2, <1>3 DEF FeedsAt, StopsByFlag
<1>8. /\ f \in [Feeds -> FeedStates]
      /\ \A i \in Feeds : f[i] = (IF feed[b][i] = "ready" THEN "gone" ELSE feed[b][i]) /\ f[i] # "ready"
  BY <1>n DEF FeedStates
<1> HIDE DEF f, r
<1>9. RunsOn(b, r, f, req[b])
  <2>1. ASSUME NEW i \in Feeds
        PROVE  /\ req[b][i] = "running" => f[i] \in {"spawned", "await"}
               /\ req[b][i] = "running" /\ f[i] = "await" => <<b, i>> \in aborts'[entry]
               /\ req[b][i] = "aborted" \/ f[i] = "stopped" => entry \in flagged
               /\ ~crossed /\ entry \in drained => f[i] # "spawned" /\ req[b][i] # "running"
    BY <1>1, <1>2, <1>6, <1>8 DEF Requests, StopsByFlag, DrainedIsQuiet
  <2> QED  BY <2>1, <1>n, <1>4, <1>7, <1>8 DEF RunsOn
<1> QED
  <2>1. {} \in SUBSET Feeds  OBVIOUS
  <2> QED  BY <2>1, <1>n, <1>1, <1>5, <1>6, <1>9, RunningOn

\* A new entry is one that no STOP has flagged.
LEMMA NewEntry ==
    ASSUME BenchTypes, Fresh, UNCHANGED <<flagged, drained>>
    PROVE  /\ made' = made + 1 /\ made' \in Nat /\ entry' \in 1 .. made' /\ entry' # 0
           /\ entry' \notin flagged /\ entry' \notin drained /\ flagged \subseteq 1 .. made'
           /\ \A e \in 1 .. made : e \in 1 .. made'
           /\ Cardinality(flagged' \ {entry'}) = Cardinality(flagged)
           /\ Cardinality(flagged \ {entry}) \in Nat /\ Cardinality(flagged \ {entry}) <= Cardinality(flagged)
<1>1. made \in Nat /\ flagged \subseteq 1 .. made /\ drained \subseteq flagged
  BY DEF BenchTypes
<1>2. made' = made + 1 /\ entry' = made + 1
  BY DEF Fresh
<1>3. made' \in Nat /\ entry' \in 1 .. made' /\ entry' # 0 /\ \A e \in 1 .. made : e \in 1 .. made' /\ e # entry'
  BY <1>1, <1>2
<1>4. entry' \notin flagged
  BY <1>1, <1>3
<1>5. flagged' \ {entry'} = flagged
  BY <1>4
<1>6. IsFiniteSet(flagged)
  BY EntriesSuffice
<1>7. IsFiniteSet(flagged \ {entry}) /\ Cardinality(flagged \ {entry}) <= Cardinality(flagged)
  BY <1>6, FS_Subset
<1>8. Cardinality(flagged \ {entry}) \in Nat
  BY <1>7, FS_CardinalityType
<1> QED  BY <1>1, <1>2, <1>3, <1>4, <1>5, <1>7, <1>8

\* A bench begins, after the earlier ones have returned.
LEMMA Begins ==
    ASSUME BenchesInd, NEW b \in BenchIds, NEW kind \in {"TG", "PP"}, NEW warm \in BOOLEAN,
           BeginBench(b, kind, warm)
    PROVE  BenchesInd'
<1>t. /\ BenchTypes /\ OneBench /\ Registry /\ EntriesUsedUp /\ DrainedIsQuiet
      /\ \A c \in BenchIds : Requests(c) /\ StopsByFlag(c)
  BY DEF BenchesInd
<1>1. PICK pc \in {"prompt", "check"} :
        bench' = [bench EXCEPT ![b] = [@ EXCEPT !.pc = pc, !.kind = kind, !.warm = warm]]
  BY DEF BeginBench
<1>2. /\ bench[b].pc = "idle" /\ \A c \in BenchIds : c < b => BenchEnded(c)
      /\ UNCHANGED <<flagged, aborts, feed, req, press, drained, crossed>>
      /\ (StopRequested /\ UNCHANGED <<entry, made>>) \/ Fresh
  BY DEF BeginBench, BenchEnded
<1> DEFINE r == [bench[b] EXCEPT !.pc = pc, !.kind = kind, !.warm = warm]
<1>3. r \in BenchRecs /\ r.pc = pc /\ r.result = ""
  <2>1. bench[b] = NoBench  BY <1>t, <1>2 DEF Requests
  <2>2. r = [pc |-> pc, kind |-> kind, warm |-> warm, counts |-> 0, error |-> "", result |-> ""]
    <3>1. r = [NoBench EXCEPT !.pc = pc, !.kind = kind, !.warm = warm]  BY <2>1
    <3> HIDE DEF r
    <3> QED  BY <3>1 DEF NoBench
  <2> HIDE DEF r
  <2> QED  BY <2>2 DEF BenchRecs
<1>4. bench' = [bench EXCEPT ![b] = r]
  BY <1>1
<1> HIDE DEF r
<1>5. bench' \in [BenchIds -> BenchRecs] /\ bench'[b] = r /\ \A c \in BenchIds : c # b => bench'[c] = bench[c]
  BY <1>t, <1>3, <1>4 DEF BenchTypes
<1>6. \A c \in BenchIds : ~Active(c)
  <2> SUFFICES ASSUME NEW c \in BenchIds, Active(c) PROVE FALSE
    OBVIOUS
  <2>1. c \in Nat /\ b \in Nat  BY BenchesAssumption
  <2>2. c # b /\ ~(c < b)  BY <1>2 DEF Active, BenchEnded
  <2>3. b < c  BY <2>1, <2>2
  <2>4. BenchEnded(b)  BY <2>3, <1>t DEF OneBench, Active
  <2> QED  BY <2>4, <1>2 DEF BenchEnded
<1>7. \A c \in BenchIds : Active(c)' => c = b
  BY <1>5, <1>6 DEF Active
<1>8. Begun' = Begun \cup {b} /\ Stopped' = Stopped /\ Pressed' = Pressed
  <2>1. bench[b].result = "" /\ bench'[b].result = ""  BY <1>t, <1>2, <1>3, <1>5 DEF BenchTypes, BenchEnded
  <2>2. bench'[b].pc # "idle"  BY <1>3, <1>5
  <2>3. Stopped' = Stopped  BY <2>1, <1>5 DEF Stopped
  <2>4. Begun' = Begun \cup {b}  BY <2>2, <1>5 DEF Begun
  <2>5. Pressed' = Pressed  BY <1>2 DEF Pressed
  <2> QED  BY <2>3, <2>4, <2>5
<1>9. Cardinality(Begun') = Cardinality(Begun) + 1
  <2>1. b \notin Begun  BY <1>2 DEF Begun
  <2> QED  BY <2>1, <1>8, <1>t, EntriesSuffice, FS_AddElement
<1>10. /\ made' \in Nat /\ made' <= made + 1 /\ entry' \in 0 .. made' /\ entry' # 0
       /\ flagged \subseteq 1 .. made' /\ \A e \in 1 .. made : e \in 1 .. made'
       /\ EntriesUsedUp'
       /\ entry' \in drained => entry' = entry
  <2>1. CASE StopRequested /\ UNCHANGED <<entry, made>>
    <3>1. made \in Nat /\ entry \in 0 .. made /\ flagged \subseteq 1 .. made  BY <1>t DEF BenchTypes
    <3>2. entry # 0  BY <2>1 DEF StopRequested
    <3>3. EntriesUsedUp'  BY <1>t, <1>2, <1>8, <2>1 DEF EntriesUsedUp
    <3> QED  BY <2>1, <3>1, <3>2, <3>3
  <2>2. CASE Fresh
    <3>1. made' = made + 1 /\ made' \in Nat /\ entry' \in 1 .. made' /\ entry' # 0 /\ entry' \notin drained
          /\ flagged \subseteq 1 .. made' /\ \A e \in 1 .. made : e \in 1 .. made'
      BY <1>t, <1>2, <2>2, NewEntry
    <3>2. /\ Cardinality(flagged' \ {entry'}) = Cardinality(flagged) /\ Cardinality(flagged) \in Nat
          /\ Cardinality(flagged \ {entry}) \in Nat /\ Cardinality(flagged \ {entry}) <= Cardinality(flagged)
          /\ Cardinality(Stopped) \in Nat
      BY <1>t, <1>2, <2>2, NewEntry, EntriesSuffice
    <3>3. EntriesUsedUp'  BY <3>2, <1>t, <1>8 DEF EntriesUsedUp
    <3>4. made \in Nat  BY <1>t DEF BenchTypes
    <3>5. entry' \in 0 .. made'  BY <3>1
    <3> QED  BY <3>1, <3>3, <3>4, <3>5
  <2> QED  BY <1>2, <2>1, <2>2
<1>11. BenchTypes'
  <2>1. made' <= Cardinality(Begun') + Cardinality(Pressed')
    <3>1. made \in Nat /\ made <= Cardinality(Begun) + Cardinality(Pressed)  BY <1>t DEF BenchTypes
    <3>2. Cardinality(Begun) \in Nat /\ Cardinality(Pressed) \in Nat  BY <1>t, EntriesSuffice
    <3> QED  BY <3>1, <3>2, <1>8, <1>9, <1>10
  <2>2. \A c \in BenchIds : bench'[c].result # "" <=> BenchEnded(c)'
    <3>1. \A c \in BenchIds : bench[c].result # "" <=> BenchEnded(c)  BY <1>t DEF BenchTypes
    <3> QED  BY <3>1, <1>3, <1>5 DEF BenchEnded
  <2>3. \A k \in StopIds : /\ press'[k].pc \in {"flag", "abort"} => press'[k].entry \in 1 .. made'
                           /\ press'[k].pc = "abort" => press'[k].entry \in flagged'
    <3>1. \A k \in StopIds : /\ press[k].pc \in {"flag", "abort"} => press[k].entry \in 1 .. made
                             /\ press[k].pc = "abort" => press[k].entry \in flagged
      BY <1>t DEF BenchTypes
    <3> QED  BY <3>1, <1>2, <1>10
  <2>4. /\ aborts' \in [Entries -> SUBSET (BenchIds \X Feeds)] /\ feed' \in [BenchIds -> [Feeds -> FeedStates]]
        /\ req' \in [BenchIds -> [Feeds -> ReqStates]] /\ press' \in [StopIds -> PressRecs] /\ crossed' \in BOOLEAN
        /\ drained' \subseteq flagged'
    BY <1>t, <1>2 DEF BenchTypes
  <2> QED  BY <2>1, <2>2, <2>3, <2>4, <1>2, <1>5, <1>10 DEF BenchTypes
<1>12. OneBench'
  <2>1. ASSUME NEW c \in BenchIds, NEW d \in BenchIds, d < c, bench'[c].pc # "idle"
        PROVE  BenchEnded(d)'
    <3>1. CASE c = b
      <4>1. BenchEnded(d) /\ d # b  BY <2>1, <3>1, <1>2, BenchesAssumption
      <4> QED  BY <4>1, <1>5 DEF BenchEnded
    <3>2. CASE c # b
      <4>1. BenchEnded(d)  BY <2>1, <3>2, <1>5, <1>t DEF OneBench
      <4>2. d # b  BY <4>1, <1>2 DEF BenchEnded
      <4> QED  BY <4>1, <4>2, <1>5 DEF BenchEnded
    <3> QED  BY <3>1, <3>2
  <2> QED  BY <2>1, <1>10 DEF OneBench
<1>13. ASSUME NEW c \in BenchIds PROVE Requests(c)' /\ StopsByFlag(c)'
  <2>0. Requests(c)  BY <1>t
  <2>1. CASE c = b
    <3>1. \A i \in Feeds : feed'[b][i] = "none" /\ req'[b][i] = "none"
      BY <1>2, <2>0, <2>1 DEF Requests, NoFeeds
    <3>2. bench'[b].pc \in {"prompt", "check"}  BY <1>3, <1>5
    <3> QED  BY <2>1, <3>1, <3>2 DEF Requests, StopsByFlag
  <2>2. CASE c # b
    <3>1. bench'[c] = bench[c] /\ feed'[c] = feed[c] /\ req'[c] = req[c] /\ ~Active(c)'
      BY <2>2, <1>2, <1>5, <1>7
    <3>2. \A i \in Feeds : req[c][i] # "running" /\ feed[c][i] \notin {"ready", "spawned", "await"}
      BY <1>6, OthersQuiet
    <3>3. Requests(c)'  BY <2>0, <3>1, <3>2 DEF Requests
    <3>4. StopsByFlag(c)'  BY <3>1 DEF StopsByFlag
    <3> QED  BY <3>3, <3>4
  <2> QED  BY <2>1, <2>2
<1>14. Registry'
  <2> SUFFICES ASSUME NEW e \in Entries, NEW c \in BenchIds, NEW i \in Feeds, <<c, i>> \in aborts[e]
               PROVE  e <= made' /\ bench'[c].pc # "idle" /\ (Active(c)' => e = entry')
    BY <1>2 DEF Registry
  <2>1. e <= made /\ bench[c].pc # "idle"  BY <1>t DEF Registry
  <2>2. c # b  BY <2>1, <1>2
  <2>3. e \in Nat /\ made \in Nat
    <3>1. Cardinality(BenchIds) + Cardinality(StopIds) \in Nat  BY <1>t, EntriesSuffice
    <3>2. e \in Nat  BY <3>1 DEF Entries
    <3> QED  BY <3>2, <1>t DEF BenchTypes
  <2>4. made <= made'
    <3>1. CASE made = 0  BY <3>1, <1>10
    <3>2. CASE made # 0
      <4>1. made \in 1 .. made  BY <3>2, <2>3
      <4> QED  BY <4>1, <1>10
    <3> QED  BY <3>1, <3>2
  <2> QED  BY <2>1, <2>2, <2>3, <2>4, <1>5, <1>7, <1>10
<1>15. DrainedIsQuiet'
  BY <1>2, <1>6, OthersQuiet DEF DrainedIsQuiet
<1> QED  BY <1>10, <1>11, <1>12, <1>13, <1>14, <1>15 DEF BenchesInd

\* A press of STOP finds the port's entry or makes one.
LEMMA Presses ==
    ASSUME BenchesInd, NEW k \in StopIds, Press(k)
    PROVE  BenchesInd'
<1>t. /\ BenchTypes /\ OneBench /\ Registry /\ EntriesUsedUp /\ DrainedIsQuiet
      /\ \A c \in BenchIds : Requests(c) /\ StopsByFlag(c)
  BY DEF BenchesInd
<1>1. /\ press[k].pc = "idle" /\ UNCHANGED <<flagged, aborts, bench, feed, req, drained, crossed>>
      /\ press' = [press EXCEPT ![k] = [pc |-> "flag", entry |-> entry']]
      /\ (entry # 0 /\ UNCHANGED <<entry, made>>) \/ (entry = 0 /\ Fresh)
  BY DEF Press
<1>2. entry = 0 => \A c \in BenchIds : ~Active(c)
  BY <1>t DEF OneBench
<1>3. /\ made' \in Nat /\ made <= made' /\ made' <= made + 1 /\ entry' \in 1 .. made' /\ entry' # 0
      /\ flagged \subseteq 1 .. made' /\ \A e \in 1 .. made : e \in 1 .. made'
      /\ EntriesUsedUp'
      /\ entry' \in drained => entry' = entry
      /\ \A c \in BenchIds : Active(c) => entry' = entry
  <2>0. made \in Nat /\ entry \in 0 .. made /\ flagged \subseteq 1 .. made  BY <1>t DEF BenchTypes
  <2>s. Stopped' = Stopped  BY <1>1 DEF Stopped
  <2>1. CASE entry # 0 /\ UNCHANGED <<entry, made>>
    <3>1. EntriesUsedUp'  BY <1>t, <1>1, <2>1, <2>s DEF EntriesUsedUp
    <3>2. entry \in 1 .. made  BY <2>0, <2>1
    <3> QED  BY <2>0, <2>1, <3>1, <3>2
  <2>2. CASE entry = 0 /\ Fresh
    <3>1. made' = made + 1 /\ made' \in Nat /\ entry' \in 1 .. made' /\ entry' # 0 /\ entry' \notin drained
          /\ flagged \subseteq 1 .. made' /\ \A e \in 1 .. made : e \in 1 .. made'
      BY <1>t, <1>1, <2>2, NewEntry
    <3>2. /\ Cardinality(flagged' \ {entry'}) = Cardinality(flagged) /\ Cardinality(flagged) \in Nat
          /\ Cardinality(flagged \ {entry}) \in Nat /\ Cardinality(flagged \ {entry}) <= Cardinality(flagged)
          /\ Cardinality(Stopped) \in Nat
      BY <1>t, <1>1, <2>2, NewEntry, EntriesSuffice
    <3>3. EntriesUsedUp'  BY <3>2, <1>t, <2>s DEF EntriesUsedUp
    <3>4. made <= made' /\ made' <= made + 1  BY <2>0, <3>1
    <3> QED  BY <2>2, <3>1, <3>3, <3>4, <1>2
  <2> QED  BY <1>1, <2>1, <2>2
<1>4. BenchTypes'
  <2>0. press \in [StopIds -> PressRecs] /\ made \in Nat /\ made <= Cardinality(Begun) + Cardinality(Pressed)
    BY <1>t DEF BenchTypes
  <2>1. entry' \in Nat  BY <1>3
  <2>2. [pc |-> "flag", entry |-> entry'] \in PressRecs  BY <2>1 DEF PressRecs
  <2>3. /\ press' \in [StopIds -> PressRecs] /\ press'[k] = [pc |-> "flag", entry |-> entry']
        /\ \A j \in StopIds : j # k => press'[j] = press[j]
    <3> HIDE DEF PressRecs
    <3> QED  BY <2>0, <2>2, <1>1
  <2>4. Begun' = Begun /\ Pressed' = Pressed \cup {k} /\ k \notin Pressed
    <3>1. press'[k].pc = "flag"  BY <2>3
    <3>2. Pressed' = Pressed \cup {k}  BY <3>1, <2>3 DEF Pressed
    <3> QED  BY <3>2, <1>1 DEF Begun, Pressed
  <2>5. Cardinality(Pressed') = Cardinality(Pressed) + 1
    BY <2>4, <1>t, EntriesSuffice, FS_AddElement
  <2>6. made' <= Cardinality(Begun') + Cardinality(Pressed')
    <3>1. Cardinality(Begun) \in Nat /\ Cardinality(Pressed) \in Nat  BY <1>t, EntriesSuffice
    <3> QED  BY <3>1, <2>0, <2>4, <2>5, <1>3
  <2>7. \A j \in StopIds : /\ press'[j].pc \in {"flag", "abort"} => press'[j].entry \in 1 .. made'
                           /\ press'[j].pc = "abort" => press'[j].entry \in flagged'
    <3>1. \A j \in StopIds : /\ press[j].pc \in {"flag", "abort"} => press[j].entry \in 1 .. made
                             /\ press[j].pc = "abort" => press[j].entry \in flagged
      BY <1>t DEF BenchTypes
    <3>2. press'[k].pc = "flag" /\ press'[k].entry \in 1 .. made'  BY <2>3, <1>3
    <3> QED  BY <3>1, <3>2, <2>3, <1>1, <1>3
  <2>8. entry' \in 0 .. made'  BY <1>3
  <2>9. /\ aborts' \in [Entries -> SUBSET (BenchIds \X Feeds)] /\ feed' \in [BenchIds -> [Feeds -> FeedStates]]
        /\ req' \in [BenchIds -> [Feeds -> ReqStates]] /\ crossed' \in BOOLEAN
        /\ drained' \subseteq flagged' /\ bench' \in [BenchIds -> BenchRecs]
        /\ \A c \in BenchIds : bench'[c].result # "" <=> BenchEnded(c)'
    BY <1>t, <1>1 DEF BenchTypes, BenchEnded
  <2> QED  BY <2>3, <2>6, <2>7, <2>8, <2>9, <1>1, <1>3 DEF BenchTypes
<1>5. OneBench'
  BY <1>t, <1>1, <1>3 DEF OneBench, BenchEnded
<1>6. ASSUME NEW c \in BenchIds PROVE Requests(c)' /\ StopsByFlag(c)'
  <2>1. Requests(c) /\ StopsByFlag(c)  BY <1>t
  <2>2. bench'[c] = bench[c] /\ feed'[c] = feed[c] /\ req'[c] = req[c] /\ (Active(c) => entry' = entry)
    BY <1>1, <1>3
  <2>3. Requests(c)'  BY <2>1, <2>2, <1>1 DEF Requests, Active
  <2>4. StopsByFlag(c)'  BY <2>1, <2>2, <1>1 DEF StopsByFlag, Active
  <2> QED  BY <2>3, <2>4
<1>7. Registry'
  <2> SUFFICES ASSUME NEW e \in Entries, NEW c \in BenchIds, NEW i \in Feeds, <<c, i>> \in aborts[e]
               PROVE  e <= made' /\ bench[c].pc # "idle" /\ (Active(c) => e = entry')
    BY <1>1 DEF Registry, Active
  <2>1. e <= made /\ bench[c].pc # "idle" /\ (Active(c) => e = entry)  BY <1>t DEF Registry
  <2>2. e \in Nat /\ made \in Nat
    <3>1. Cardinality(BenchIds) + Cardinality(StopIds) \in Nat  BY <1>t, EntriesSuffice
    <3>2. e \in Nat  BY <3>1 DEF Entries
    <3> QED  BY <3>2, <1>t DEF BenchTypes
  <2> QED  BY <2>1, <2>2, <1>3
<1>8. DrainedIsQuiet'
  BY <1>t, <1>1, <1>3 DEF DrainedIsQuiet
<1> QED  BY <1>3, <1>4, <1>5, <1>6, <1>7, <1>8 DEF BenchesInd

LEMMA PressMoves ==
    ASSUME BenchTypes, NEW k \in StopIds, NEW pc \in {"abort", "done"}, press' = [press EXCEPT ![k].pc = pc],
           press[k].pc # "idle"
    PROVE  /\ press' \in [StopIds -> PressRecs] /\ press'[k].pc = pc /\ press'[k].entry = press[k].entry
           /\ \A j \in StopIds : j # k => press'[j] = press[j]
           /\ Pressed' = Pressed
<1>1. press \in [StopIds -> PressRecs]
  BY DEF BenchTypes
<1>2. /\ press' \in [StopIds -> PressRecs] /\ press'[k].pc = pc /\ press'[k].entry = press[k].entry
      /\ \A j \in StopIds : j # k => press'[j] = press[j]
  BY <1>1 DEF PressRecs
<1>3. Pressed' = Pressed
  BY <1>2 DEF Pressed
<1> QED  BY <1>2, <1>3

LEMMA PressLatches ==
    ASSUME BenchesInd, NEW k \in StopIds, PressFlags(k)
    PROVE  BenchesInd'
<1>t. /\ BenchTypes /\ OneBench /\ Registry /\ EntriesUsedUp /\ DrainedIsQuiet
      /\ \A c \in BenchIds : Requests(c) /\ StopsByFlag(c)
  BY DEF BenchesInd
<1>1. /\ press[k].pc = "flag" /\ press' = [press EXCEPT ![k].pc = "abort"]
      /\ flagged' = flagged \cup {press[k].entry}
      /\ UNCHANGED <<entry, made, aborts, bench, feed, req, drained, crossed>>
  BY DEF PressFlags
<1>2. /\ press' \in [StopIds -> PressRecs] /\ press'[k].pc = "abort" /\ press'[k].entry = press[k].entry
      /\ \A j \in StopIds : j # k => press'[j] = press[j]
      /\ Pressed' = Pressed
  BY <1>t, <1>1, PressMoves
<1>3. press[k].entry \in 1 .. made
  BY <1>t, <1>1 DEF BenchTypes
<1>4. BenchTypes'
  <2>1. flagged' \subseteq 1 .. made' /\ drained' \subseteq flagged'
    BY <1>t, <1>1, <1>3 DEF BenchTypes
  <2>2. \A j \in StopIds : /\ press'[j].pc \in {"flag", "abort"} => press'[j].entry \in 1 .. made'
                           /\ press'[j].pc = "abort" => press'[j].entry \in flagged'
    <3>1. \A j \in StopIds : /\ press[j].pc \in {"flag", "abort"} => press[j].entry \in 1 .. made
                             /\ press[j].pc = "abort" => press[j].entry \in flagged
      BY <1>t DEF BenchTypes
    <3> QED  BY <3>1, <1>1, <1>2, <1>3
  <2>3. Begun' = Begun  BY <1>1 DEF Begun
  <2>4. \A c \in BenchIds : bench'[c].result # "" <=> BenchEnded(c)'  BY <1>t, <1>1 DEF BenchTypes, BenchEnded
  <2>5. /\ made' \in Nat /\ made' <= Cardinality(Begun') + Cardinality(Pressed') /\ entry' \in 0 .. made'
        /\ aborts' \in [Entries -> SUBSET (BenchIds \X Feeds)] /\ feed' \in [BenchIds -> [Feeds -> FeedStates]]
        /\ req' \in [BenchIds -> [Feeds -> ReqStates]] /\ crossed' \in BOOLEAN /\ bench' \in [BenchIds -> BenchRecs]
    BY <1>t, <1>1, <1>2, <2>3 DEF BenchTypes
  <2> QED  BY <2>1, <2>2, <2>4, <2>5, <1>2 DEF BenchTypes
<1>5. OneBench'
  BY <1>t, <1>1 DEF OneBench, BenchEnded, Active
<1>6. ASSUME NEW c \in BenchIds PROVE Requests(c)' /\ StopsByFlag(c)'
  <2>1. Requests(c) /\ StopsByFlag(c)  BY <1>t
  <2>2. Requests(c)'  BY <2>1, <1>1 DEF Requests, Active
  <2>3. StopsByFlag(c)'  BY <2>1, <1>1 DEF StopsByFlag, Active
  <2> QED  BY <2>2, <2>3
<1>7. Registry'
  BY <1>t, <1>1 DEF Registry, Active
<1>8. EntriesUsedUp'
  <2>1. IsFiniteSet(flagged) /\ Cardinality(Stopped) \in Nat  BY <1>t, EntriesSuffice
  <2>2. IsFiniteSet(flagged') /\ IsFiniteSet(flagged' \ {entry})
    <3>1. IsFiniteSet(flagged')  BY <2>1, <1>1, FS_AddElement
    <3> QED  BY <3>1, FS_Subset
  <2>3. flagged \ {entry} \subseteq flagged' \ {entry}  BY <1>1
  <2>4. /\ IsFiniteSet(flagged \ {entry})
        /\ Cardinality(flagged \ {entry}) <= Cardinality(flagged' \ {entry})
    BY <2>2, <2>3, FS_Subset
  <2>5. Cardinality(flagged \ {entry}) \in Nat /\ Cardinality(flagged' \ {entry}) \in Nat
    BY <2>2, <2>4, FS_CardinalityType
  <2>6. Stopped' = Stopped  BY <1>1 DEF Stopped
  <2>7. Cardinality(Stopped) <= Cardinality(flagged \ {entry})  BY <1>t DEF EntriesUsedUp
  <2>8. Cardinality(Stopped) <= Cardinality(flagged' \ {entry})  BY <2>1, <2>4, <2>5, <2>7
  <2> QED  BY <2>6, <2>8, <1>1 DEF EntriesUsedUp
<1>9. DrainedIsQuiet'
  BY <1>t, <1>1 DEF DrainedIsQuiet
<1> QED  BY <1>4, <1>5, <1>6, <1>7, <1>8, <1>9 DEF BenchesInd

\* A press of STOP aborts what is registered in its entry.
LEMMA PressDrains ==
    ASSUME BenchesInd, NEW k \in StopIds, PressAborts(k)
    PROVE  BenchesInd'
<1>t. /\ BenchTypes /\ OneBench /\ Registry /\ EntriesUsedUp /\ DrainedIsQuiet
      /\ \A c \in BenchIds : Requests(c) /\ StopsByFlag(c)
  BY DEF BenchesInd
<1> DEFINE e == press[k].entry
<1>1. /\ press[k].pc = "abort" /\ press' = [press EXCEPT ![k].pc = "done"]
      /\ req' = Aborted(aborts[e]) /\ aborts' = [aborts EXCEPT ![e] = {}]
      /\ drained' = drained \cup {e}
      /\ UNCHANGED <<entry, made, flagged, bench, feed>>
  BY DEF PressAborts
<1>2. /\ press' \in [StopIds -> PressRecs] /\ press'[k].pc = "done" /\ press'[k].entry = press[k].entry
      /\ \A j \in StopIds : j # k => press'[j] = press[j]
      /\ Pressed' = Pressed
  BY <1>t, <1>1, PressMoves
<1>3. e \in flagged /\ e \in Entries
  <2>1. e \in flagged /\ flagged \subseteq 1 .. made  BY <1>t, <1>1 DEF BenchTypes
  <2> QED  BY <2>1, <1>t, EntriesSuffice
<1>4. crossed' = (crossed \/ \E b \in BenchIds : FeedsAt(b, "spawned") # {})
  BY DEF PressAborts
<1> HIDE DEF e
<1>5. /\ aborts' \in [Entries -> SUBSET (BenchIds \X Feeds)] /\ aborts[e] \in SUBSET (BenchIds \X Feeds)
      /\ \A d \in Entries : aborts'[d] = IF d = e THEN {} ELSE aborts[d]
  <2>1. aborts \in [Entries -> SUBSET (BenchIds \X Feeds)]  BY <1>t DEF BenchTypes
  <2> QED  BY <2>1, <1>1, <1>3
<1>6. /\ req' \in [BenchIds -> [Feeds -> ReqStates]]
      /\ \A c \in BenchIds, i \in Feeds :
            req'[c][i] = IF <<c, i>> \in aborts[e] /\ req[c][i] = "running" THEN "aborted" ELSE req[c][i]
  BY <1>t, <1>1, <1>5, AbortedRequests
<1>7. crossed' \in BOOLEAN /\ (~crossed' => ~crossed /\ \A b \in BenchIds : FeedsAt(b, "spawned") = {})
  <2>1. crossed \in BOOLEAN  BY <1>t DEF BenchTypes
  <2>2. CASE crossed \/ \E b \in BenchIds : FeedsAt(b, "spawned") # {}
    <3>1. crossed' = TRUE  BY <1>4, <2>1, <2>2
    <3> QED  BY <3>1
  <2>3. CASE ~(crossed \/ \E b \in BenchIds : FeedsAt(b, "spawned") # {})
    <3>1. crossed' = FALSE  BY <1>4, <2>1, <2>3
    <3> QED  BY <3>1, <2>3
  <2> QED  BY <2>2, <2>3
<1>8. BenchTypes'
  <2>1. flagged' \subseteq 1 .. made' /\ drained' \subseteq flagged'
    BY <1>t, <1>1, <1>3 DEF BenchTypes
  <2>2. \A j \in StopIds : /\ press'[j].pc \in {"flag", "abort"} => press'[j].entry \in 1 .. made'
                           /\ press'[j].pc = "abort" => press'[j].entry \in flagged'
    <3>1. \A j \in StopIds : /\ press[j].pc \in {"flag", "abort"} => press[j].entry \in 1 .. made
                             /\ press[j].pc = "abort" => press[j].entry \in flagged
      BY <1>t DEF BenchTypes
    <3> QED  BY <3>1, <1>1, <1>2
  <2>3. Begun' = Begun  BY <1>1 DEF Begun
  <2>4. \A c \in BenchIds : bench'[c].result # "" <=> BenchEnded(c)'  BY <1>t, <1>1 DEF BenchTypes, BenchEnded
  <2>5. /\ made' \in Nat /\ made' <= Cardinality(Begun') + Cardinality(Pressed') /\ entry' \in 0 .. made'
        /\ feed' \in [BenchIds -> [Feeds -> FeedStates]] /\ bench' \in [BenchIds -> BenchRecs]
    BY <1>t, <1>1, <1>2, <2>3 DEF BenchTypes
  <2> QED  BY <2>1, <2>2, <2>4, <2>5, <1>2, <1>5, <1>6, <1>7 DEF BenchTypes
<1>9. OneBench'
  BY <1>t, <1>1 DEF OneBench, BenchEnded, Active
<1>10. ASSUME NEW c \in BenchIds PROVE Requests(c)' /\ StopsByFlag(c)'
  <2>1. Requests(c) /\ StopsByFlag(c)  BY <1>t
  <2>2. bench'[c] = bench[c] /\ feed'[c] = feed[c] /\ entry' = entry /\ flagged' = flagged /\ (Active(c)' <=> Active(c))
    BY <1>1 DEF Active
  <2>3. bench[c].pc = "idle" => req'[c] = NoFeeds
    <3>1. bench[c].pc = "idle" => req[c] = NoFeeds  BY <2>1 DEF Requests
    <3>2. bench[c].pc = "idle" => \A i \in Feeds : req'[c][i] = req[c][i]  BY <3>1, <1>6 DEF NoFeeds
    <3>3. req'[c] \in [Feeds -> ReqStates] /\ req[c] \in [Feeds -> ReqStates]  BY <1>6, <1>t DEF BenchTypes
    <3> QED  BY <3>1, <3>2, <3>3
  <2>4. ASSUME NEW i \in Feeds
        PROVE  /\ req'[c][i] = "running" => feed'[c][i] \in {"spawned", "await"}
               /\ req'[c][i] = "running" /\ feed'[c][i] = "await" => Active(c)' /\ <<c, i>> \in aborts'[entry']
               /\ Active(c) => (req'[c][i] = "aborted" \/ feed'[c][i] = "stopped" => entry \in flagged)
    <3>1. req'[c][i] = "running" => req[c][i] = "running" /\ <<c, i>> \notin aborts[e]  BY <1>6
    <3>2. req[c][i] = "running" => feed[c][i] \in {"spawned", "await"}  BY <2>1 DEF Requests
    <3>3. req[c][i] = "running" /\ feed[c][i] = "await" => Active(c) /\ <<c, i>> \in aborts[entry]
      BY <2>1 DEF Requests
    <3>4. Active(c) => (req[c][i] = "aborted" \/ feed[c][i] = "stopped" => entry \in flagged)
      BY <2>1 DEF StopsByFlag
    <3>5. Active(c) => entry \in Entries  BY <1>t, ActiveEntry
    <3>6. <<c, i>> \in aborts[e] /\ Active(c) => e = entry  BY <1>t, <1>3 DEF Registry
    <3>7. req'[c][i] = "running" /\ feed[c][i] = "await" => <<c, i>> \in aborts'[entry]
      BY <3>1, <3>3, <3>5, <1>5
    <3>8. Active(c) /\ req'[c][i] = "aborted" => entry \in flagged
      BY <3>4, <3>6, <1>3, <1>6
    <3> QED  BY <2>2, <3>1, <3>2, <3>3, <3>4, <3>7, <3>8
  <2>5. Requests(c)'  BY <2>1, <2>2, <2>3, <2>4 DEF Requests
  <2>6. StopsByFlag(c)'  BY <2>1, <2>2, <2>4 DEF StopsByFlag
  <2> QED  BY <2>5, <2>6
<1>11. Registry'
  BY <1>t, <1>1, <1>5 DEF Registry, Active
<1>12. EntriesUsedUp'
  BY <1>t, <1>1 DEF EntriesUsedUp, Stopped
<1>13. DrainedIsQuiet'
  <2> SUFFICES ASSUME ~crossed', entry \in drained', NEW c \in BenchIds, NEW i \in Feeds
               PROVE  feed[c][i] # "spawned" /\ req'[c][i] # "running"
    BY <1>1 DEF DrainedIsQuiet
  <2>1. ~crossed /\ feed[c][i] # "spawned"  BY <1>7 DEF FeedsAt
  <2>2. req'[c][i] = "running" => req[c][i] = "running" /\ <<c, i>> \notin aborts[e]  BY <1>6
  <2>3. CASE entry \in drained
    BY <2>1, <2>2, <2>3, <1>t DEF DrainedIsQuiet
  <2>4. CASE entry = e
    <3>1. req[c][i] = "running" => feed[c][i] \in {"spawned", "await"}  BY <1>t DEF Requests
    <3>2. req[c][i] = "running" /\ feed[c][i] = "await" => <<c, i>> \in aborts[entry]  BY <1>t DEF Requests
    <3> QED  BY <2>1, <2>2, <2>4, <3>1, <3>2
  <2> QED  BY <2>3, <2>4, <1>1
<1> QED  BY <1>8, <1>9, <1>10, <1>11, <1>12, <1>13 DEF BenchesInd

\* BenchesInv is an invariant: when a STOP has flagged and drained the port's entry and
\* its drain met no task between its spawn and its registration, no request runs
\* (StopSilencesPort); a bench that has returned left none behind (EndedBenchIsQuiet);
\* and never are more benches stopped than entries flagged (OneStopOneBench).
THEOREM BenchesKept == BenchesSpec => []BenchesInv
<1>1. BenchesInit => BenchesInd
  <2> SUFFICES ASSUME BenchesInit PROVE BenchesInd
    OBVIOUS
  <2>i. /\ entry = 0 /\ made = 0 /\ flagged = {} /\ aborts = [e \in Entries |-> {}]
        /\ bench = [b \in BenchIds |-> NoBench]
        /\ feed = [b \in BenchIds |-> NoFeeds] /\ req = [b \in BenchIds |-> NoFeeds]
        /\ press = [k \in StopIds |-> [pc |-> "idle", entry |-> 0]]
        /\ drained = {} /\ crossed = FALSE
    BY DEF BenchesInit
  <2>1. NoBench \in BenchRecs /\ NoBench.pc = "idle" /\ NoBench.result = ""
    BY DEF NoBench, BenchRecs
  <2>2. NoFeeds \in [Feeds -> FeedStates] /\ NoFeeds \in [Feeds -> ReqStates] /\ \A i \in Feeds : NoFeeds[i] = "none"
    BY DEF NoFeeds, FeedStates, ReqStates
  <2>3. Begun = {} /\ Pressed = {} /\ Stopped = {}
    BY <2>i, <2>1 DEF Begun, Pressed, Stopped
  <2>4. Cardinality({}) = 0
    BY FS_EmptySet
  <2>5. BenchTypes
    <3>1. bench \in [BenchIds -> BenchRecs] /\ \A b \in BenchIds : bench[b].result # "" <=> BenchEnded(b)
      BY <2>i, <2>1 DEF BenchEnded
    <3>2. feed \in [BenchIds -> [Feeds -> FeedStates]] /\ req \in [BenchIds -> [Feeds -> ReqStates]]
      BY <2>i, <2>2
    <3>3. /\ press \in [StopIds -> PressRecs]
          /\ \A k \in StopIds : press[k].pc = "idle"
      BY <2>i DEF PressRecs
    <3>4. aborts \in [Entries -> SUBSET (BenchIds \X Feeds)]
      BY <2>i
    <3>5. made \in Nat /\ made <= Cardinality(Begun) + Cardinality(Pressed) /\ entry \in 0 .. made
      BY <2>i, <2>3, <2>4
    <3> QED  BY <2>i, <3>1, <3>2, <3>3, <3>4, <3>5 DEF BenchTypes
  <2>6. OneBench  BY <2>i, <2>1 DEF OneBench, Active
  <2>7. ASSUME NEW b \in BenchIds PROVE Requests(b) /\ StopsByFlag(b)
    BY <2>i, <2>1, <2>2 DEF Requests, StopsByFlag, Active
  <2>8. Registry  BY <2>i DEF Registry
  <2>9. EntriesUsedUp
    <3>1. flagged \ {entry} = {}  BY <2>i
    <3> QED  BY <3>1, <2>3, <2>4 DEF EntriesUsedUp
  <2>10. DrainedIsQuiet  BY <2>i DEF DrainedIsQuiet
  <2> QED  BY <2>5, <2>6, <2>7, <2>8, <2>9, <2>10 DEF BenchesInd
<1>2. BenchesInd /\ [BenchesNext]_benchVars => BenchesInd'
  <2> SUFFICES ASSUME BenchesInd, [BenchesNext]_benchVars PROVE BenchesInd'
    OBVIOUS
  <2>1. CASE UNCHANGED benchVars
    <3>1. UNCHANGED <<entry, made, flagged, aborts, bench, feed, req, press, drained, crossed>>
      BY <2>1 DEF benchVars
    <3>2. UNCHANGED <<Begun, Pressed, Stopped>>
      BY <3>1 DEF Begun, Pressed, Stopped
    <3>3. BenchTypes'
      BY <3>1, <3>2 DEF BenchesInd, BenchTypes, BenchEnded
    <3>4. OneBench' /\ Registry'
      BY <3>1 DEF BenchesInd, OneBench, Registry, Active, BenchEnded
    <3>5. \A c \in BenchIds : Requests(c)' /\ StopsByFlag(c)'
      BY <3>1 DEF BenchesInd, Requests, StopsByFlag, Active
    <3>6. EntriesUsedUp' /\ DrainedIsQuiet'
      BY <3>1, <3>2 DEF BenchesInd, EntriesUsedUp, DrainedIsQuiet
    <3> QED  BY <3>3, <3>4, <3>5, <3>6 DEF BenchesInd
  <2>2. CASE BenchesNext
    BY <2>2, Begins, BenchSteps, FeedsFailing, RaceSteps, Presses, PressLatches, PressDrains DEF BenchesNext
  <2> QED  BY <2>1, <2>2
<1>3. BenchesInd => BenchesInv
  <2> SUFFICES ASSUME BenchesInd PROVE BenchesInv
    OBVIOUS
  <2>t. /\ BenchTypes /\ EntriesUsedUp /\ DrainedIsQuiet /\ \A c \in BenchIds : Requests(c)
    BY DEF BenchesInd
  <2>0. made \in Nat /\ entry \in 0 .. made  BY <2>t DEF BenchTypes
  <2>1. BenchesTypeOK
    <3>1. entry \in Entries \cup {0} /\ entry <= made
      <4>1. CASE entry = 0  BY <4>1, <2>0
      <4>2. CASE entry # 0
        <5>1. entry \in 1 .. made  BY <4>2, <2>0
        <5> QED  BY <5>1, <2>0, <2>t, EntriesSuffice
      <4> QED  BY <4>1, <4>2
    <3>2. /\ flagged \subseteq 1 .. made /\ \A e \in Entries : aborts[e] \subseteq BenchIds \X Feeds
      BY <2>t DEF BenchTypes
    <3>3. \A b \in BenchIds : bench[b].result \in {"", "ok", "stopped", "error"} /\ (bench[b].result # "" <=> bench[b].pc = "done")
      BY <2>t DEF BenchTypes, BenchRecs, BenchEnded
    <3> QED  BY <3>1, <3>2, <3>3 DEF BenchesTypeOK
  <2>2. StopSilencesPort  BY <2>t DEF StopSilencesPort, DrainedIsQuiet
  <2>3. EndedBenchIsQuiet  BY <2>t DEF EndedBenchIsQuiet, Requests, Active
  <2>4. OneStopOneBench
    <3>1. IsFiniteSet(flagged) /\ Cardinality(flagged) \in Nat /\ Cardinality(Stopped) \in Nat
      BY <2>t, EntriesSuffice
    <3>2. IsFiniteSet(flagged \ {entry}) /\ Cardinality(flagged \ {entry}) <= Cardinality(flagged)
      BY <3>1, FS_Subset
    <3>3. Cardinality(flagged \ {entry}) \in Nat  BY <3>2, FS_CardinalityType
    <3>4. Cardinality(Stopped) <= Cardinality(flagged)  BY <3>1, <3>2, <3>3, <2>t DEF EntriesUsedUp
    <3> QED  BY <3>4 DEF OneStopOneBench, Stopped
  <2> QED  BY <2>1, <2>2, <2>3, <2>4 DEF BenchesInv
<1> QED
  BY <1>1, <1>2, <1>3, PTL DEF BenchesSpec

-----------------------------------------------------------------------------
(* Providers *)

RecFields == {"here", "params", "pref", "tag", "inv", "active", "info"}
IsRecord(r) == DOMAIN r = RecFields /\ r.here \in BOOLEAN /\ r.params \in Settings /\ r.pref \in Sources \cup {"none"} /\ r.tag \in BOOLEAN
KeptRecs == [here : BOOLEAN, params : Settings, pref : Sources \cup {"none"}, tag : BOOLEAN]
Copies == [rec : KeptRecs, old : BOOLEAN]

ProvTypes ==
    /\ core \in BOOLEAN /\ used \subseteq EngineBuilds
    /\ exe \in [Sources -> used \cup {0}] /\ prevExe \in used \cup {0}
    /\ IsRecord(mem) /\ file \in KeptRecs /\ ui \in KeptRecs /\ writer \in Seq(Copies)
    /\ DOMAIN refresh = {"pc", "copy", "active"} /\ DOMAIN publish = {"pc", "build", "tag"}
    /\ DOMAIN pack = {"pc"} /\ DOMAIN reset = {"pc", "copy"}
    /\ IsRecord(refresh.copy) /\ (refresh.pc = "probe" => refresh.copy.here)
    /\ IsRecord(reset.copy) /\ (~reset.copy.here => Kept(reset.copy) = Kept(NoRecord))
    /\ publish.build \in used \cup {0}
    /\ choice \in Sources \cup {"none"} /\ lost \in BOOLEAN /\ late \in BOOLEAN

\* What the file holds once every copy that is not outdated has been written:
\* the outdated ones come first in the queue.
OldFirst == \A i, j \in 1 .. Len(writer) : i < j /\ writer[j].old => writer[i].old
LastCopy == IF Len(writer) # 0 /\ ~writer[Len(writer)].old THEN writer[Len(writer)].rec ELSE file

\* A start that finds the newest copy loads the record.
Same == (LastCopy.here \/ Discovered(exe)) /\ mem.params = LastCopy.params /\ mem.pref = LastCopy.pref /\ mem.tag = LastCopy.tag

\* No removal and no reset under way: the file will hold the record, unless a
\* build that was activated is still to be persisted or a pack to be registered.
Agreed ==
    ~lost /\ ~late /\ remover = "idle" /\ reset.pc = "idle" =>
        /\ ~mem.here => ~LastCopy.here /\ (~Discovered(exe) \/ pack.pc = "register")
        /\ mem.here => publish.pc = "persist" \/ Same
Absent == ~mem.here => Kept(mem) = Kept(NoRecord)

ProvidersInd == ProvTypes /\ OldFirst /\ Agreed /\ Absent /\ ChoiceStands

LEMMA ResolveKeeps ==
    ASSUME NEW r, NEW disk, IsRecord(r)
    PROVE  IsRecord(ResolveOn(r, disk)) /\ Kept(ResolveOn(r, disk)) = Kept(r)
  BY DEF ResolveOn, IsRecord, RecFields, Kept

LEMMA ActivateKeeps ==
    ASSUME NEW r, NEW s \in Sources, NEW disk, IsRecord(r)
    PROVE  /\ IsRecord(Activate(r, s, disk))
           /\ Kept(Activate(r, s, disk)) = [Kept(r) EXCEPT !.pref = s]
<1> DEFINE q == [r EXCEPT !.pref = s]
<1>1. IsRecord(q) /\ Kept(q) = [Kept(r) EXCEPT !.pref = s] BY DEF IsRecord, RecFields, Kept
<1>2. Activate(r, s, disk) = ResolveOn(q, disk) BY DEF Activate
<1> QED BY <1>1, <1>2, ResolveKeeps

LEMMA KeptIs ==
    ASSUME NEW r, IsRecord(r)
    PROVE  /\ Kept(r) \in KeptRecs /\ Kept(r).here = r.here /\ Kept(r).params = r.params
           /\ Kept(r).pref = r.pref /\ Kept(r).tag = r.tag
  BY DEF IsRecord, Kept, KeptRecs

LEMMA NoRecordIs == ProvidersAssumption => IsRecord(NoRecord) /\ ~NoRecord.here
  BY DEF NoRecord, IsRecord, RecFields, ProvidersAssumption

LEMMA LoadIs ==
    ASSUME NEW k \in KeptRecs, NEW disk, ProvidersAssumption
    PROVE  /\ IsRecord(Load(k, disk))
           /\ Discovered(disk) \/ k.here => Kept(Load(k, disk)) = [here |-> TRUE, params |-> k.params, pref |-> k.pref, tag |-> k.tag]
           /\ ~(Discovered(disk) \/ k.here) => Load(k, disk) = NoRecord
<1> DEFINE q == [NoRecord EXCEPT !.here = TRUE, !.params = k.params, !.pref = k.pref, !.tag = k.tag]
<1>0. IsRecord(NoRecord) BY NoRecordIs
<1>9. k.params \in Settings /\ k.pref \in Sources \cup {"none"} /\ k.tag \in BOOLEAN BY DEF KeptRecs
<1>8. DOMAIN q = RecFields /\ q.here = TRUE /\ q.params = k.params /\ q.pref = k.pref /\ q.tag = k.tag
  BY <1>0 DEF IsRecord, RecFields
<1>1. IsRecord(q) /\ Kept(q) = [here |-> TRUE, params |-> k.params, pref |-> k.pref, tag |-> k.tag]
  <2> HIDE DEF q
  <2>1. IsRecord(q) BY <1>8, <1>9 DEF IsRecord
  <2>2. Kept(q) = [here |-> TRUE, params |-> k.params, pref |-> k.pref, tag |-> k.tag] BY <1>8 DEF Kept
  <2> QED BY <2>1, <2>2
<1>2. Discovered(disk) \/ k.here => Load(k, disk) = ResolveOn(q, disk) BY DEF Load
<1>3. ~(Discovered(disk) \/ k.here) => Load(k, disk) = NoRecord BY DEF Load
<1> HIDE DEF q
<1>4. CASE Discovered(disk) \/ k.here BY <1>1, <1>2, <1>4, ResolveKeeps
<1>5. CASE ~(Discovered(disk) \/ k.here) BY <1>3, <1>5, NoRecordIs
<1> QED BY <1>4, <1>5

\* One copy more to be written, and all of them outdated at once.
LEMMA OneMore ==
    ASSUME writer \in Seq(Copies), OldFirst, NEW k \in KeptRecs, writer' = Append(writer, [rec |-> k, old |-> FALSE])
    PROVE  writer' \in Seq(Copies) /\ OldFirst' /\ LastCopy' = k
<1> DEFINE n == Len(writer)
<1>1. [rec |-> k, old |-> FALSE] \in Copies BY DEF Copies
<1>2. n \in Nat OBVIOUS
<1>3. writer' \in Seq(Copies) /\ Len(writer') = n + 1 /\ writer'[n + 1] = [rec |-> k, old |-> FALSE] BY <1>1
<1>4. \A i \in 1 .. n : writer'[i] = writer[i] OBVIOUS
<1>5. OldFirst'
  <2> SUFFICES ASSUME NEW i \in 1 .. n + 1, NEW j \in 1 .. n + 1, i < j, writer'[j].old PROVE writer'[i].old
    BY <1>3 DEF OldFirst
  <2>1. j # n + 1 BY <1>3
  <2>2. i \in 1 .. n /\ j \in 1 .. n BY <2>1, <1>2
  <2> QED BY <2>2, <1>4 DEF OldFirst
<1> HIDE DEF n
<1>6. LastCopy' = k BY <1>2, <1>3 DEF LastCopy
<1> QED BY <1>3, <1>5, <1>6

LEMMA AllOld ==
    ASSUME NEW s \in Seq(Copies)
    PROVE  /\ Outdated(s) \in Seq(Copies) /\ Len(Outdated(s)) = Len(s)
           /\ \A i \in 1 .. Len(s) : Outdated(s)[i].old
<1>1. \A i \in 1 .. Len(s) : s[i] \in Copies OBVIOUS
<1>2. Outdated(s) = [w \in 1 .. Len(s) |-> [s[w] EXCEPT !.old = TRUE]] BY DEF Outdated
<1>3. \A i \in 1 .. Len(s) : [s[i] EXCEPT !.old = TRUE] \in Copies /\ [s[i] EXCEPT !.old = TRUE].old BY <1>1 DEF Copies
<1>4. Outdated(s) \in [1 .. Len(s) -> Copies] BY <1>2, <1>3
<1>5. Len(s) \in Nat OBVIOUS
<1>6. Outdated(s) \in Seq(Copies) /\ Len(Outdated(s)) = Len(s)
  <2> DEFINE n == Len(s)  f == Outdated(s)
  <2>1. f \in [1 .. n -> Copies] /\ n \in Nat BY <1>4, <1>5
  <2> HIDE DEF n, f
  <2>2. f \in Seq(Copies) /\ Len(f) = n BY <2>1
  <2> QED BY <2>2 DEF n, f
<1> QED BY <1>2, <1>3, <1>6

LEMMA AtOnce ==
    ASSUME writer \in Seq(Copies), writer' = Outdated(writer)
    PROVE  writer' \in Seq(Copies) /\ OldFirst' /\ LastCopy' = file'
<1>1. writer' \in Seq(Copies) /\ \A i \in 1 .. Len(writer') : writer'[i].old BY AllOld
<1>2. OldFirst' BY <1>1 DEF OldFirst
<1>3. Len(writer') # 0 => Len(writer') \in 1 .. Len(writer') BY <1>1
<1>4. LastCopy' = file' BY <1>1, <1>3 DEF LastCopy
<1> QED BY <1>1, <1>2, <1>4

\* The copies after the one that is written stay as they are.
LEMMA OneLess ==
    ASSUME ProvTypes, OldFirst, NEW w, WriteFile(w)
    PROVE  writer' \in Seq(Copies) /\ OldFirst' /\ (~late' => LastCopy' = LastCopy) /\ file' \in KeptRecs
<1> DEFINE n == Len(writer)  front == SubSeq(writer, 1, w - 1)  back == SubSeq(writer, w + 1, n)  o == Outdated(front)
<1>0. writer \in Seq(Copies) /\ w \in DOMAIN writer /\ file' = writer[w].rec /\ writer' = o \o back
  BY DEF WriteFile, ProvTypes
<1>1. writer \in Seq(Copies) /\ n \in Nat /\ w \in 1 .. n /\ file' = writer[w].rec /\ writer' = o \o back
  BY <1>0
<1>2. front \in Seq(Copies) /\ Len(front) = w - 1 BY <1>1
<1>3. back \in Seq(Copies) /\ Len(back) = n - w /\ \A i \in 1 .. n - w : back[i] = writer[w + i]
  <2>1. w \in Nat /\ w + 1 \in 1 .. n + 1 /\ Len(writer) = n  BY <1>1
  <2>2. back \in Seq(Copies)  BY <1>1, <2>1
  <2>3. Len(back) = n - w  BY <1>1, <2>1
  <2>4. \A i \in 1 .. n - w : back[i] = writer[w + i]  BY <1>1, <2>1
  <2> QED  BY <2>2, <2>3, <2>4
<1>4. o \in Seq(Copies) /\ Len(o) = w - 1 /\ \A i \in 1 .. w - 1 : o[i].old BY <1>2, AllOld
<1> HIDE DEF n, front, back, o
<1>5. /\ writer' \in Seq(Copies) /\ Len(writer') = n - 1
      /\ \A i \in 1 .. n - 1 : writer'[i] = IF i <= w - 1 THEN o[i] ELSE back[i - (w - 1)]
  <2>1. w - 1 \in Nat /\ n - w \in Nat /\ (w - 1) + (n - w) = n - 1 BY <1>1
  <2>2. o \o back \in Seq(Copies) /\ Len(o \o back) = Len(o) + Len(back) BY <1>3, <1>4
  <2>3. \A i \in 1 .. Len(o) + Len(back) : (o \o back)[i] = IF i <= Len(o) THEN o[i] ELSE back[i - Len(o)]
    <3>1. o \in Seq(Copies) /\ back \in Seq(Copies) BY <1>3, <1>4
    <3> QED BY ONLY <3>1, SMTT(30)
  <2> QED BY <2>1, <2>2, <2>3, <1>1, <1>3, <1>4
<1>6. \A i \in 1 .. n - 1 : i > w - 1 => writer'[i] = writer[i + 1] /\ i + 1 \in 1 .. n /\ w < i + 1
  <2> SUFFICES ASSUME NEW i \in 1 .. n - 1, i > w - 1 PROVE writer'[i] = writer[i + 1] /\ i + 1 \in 1 .. n /\ w < i + 1 OBVIOUS
  <2>1. i - (w - 1) \in 1 .. n - w /\ w + (i - (w - 1)) = i + 1 /\ i + 1 \in 1 .. n /\ w < i + 1 BY <1>1
  <2>2. writer'[i] = back[i - (w - 1)] BY <1>5, <1>1
  <2> QED BY <2>1, <2>2, <1>3
<1>7. \A i \in 1 .. n - 1 : i <= w - 1 => writer'[i].old BY <1>4, <1>5, <1>1
<1>8. OldFirst'
  <2> SUFFICES ASSUME NEW i \in 1 .. n - 1, NEW j \in 1 .. n - 1, i < j, writer'[j].old PROVE writer'[i].old
    BY <1>5 DEF OldFirst
  <2>1. CASE i <= w - 1 BY <2>1, <1>7
  <2>2. CASE i > w - 1
    <3>1. j > w - 1 BY <2>2, <1>1
    <3>2. writer'[i] = writer[i + 1] /\ writer'[j] = writer[j + 1] /\ i + 1 \in 1 .. n /\ j + 1 \in 1 .. n /\ i + 1 < j + 1
      BY <1>6, <2>2, <3>1
    <3> QED BY <3>2 DEF OldFirst, n
  <2>3. i <= w - 1 \/ i > w - 1 BY <1>1
  <2> QED BY <2>1, <2>2, <2>3
<1>9. ASSUME ~late' PROVE LastCopy' = LastCopy
  <2>0. ~writer[w].old BY <1>9, Zenon DEF WriteFile
  <2>1. CASE w = n
    <3>1. LastCopy = writer[n].rec BY <1>1, <2>0, <2>1 DEF LastCopy, n
    <3>2. Len(writer') # 0 => writer'[Len(writer')].old BY <1>5, <1>7, <1>1, <2>1
    <3> QED BY <3>1, <3>2, <2>1, <1>1 DEF LastCopy
  <2>2. CASE w # n
    <3>1. n - 1 \in 1 .. n - 1 /\ n - 1 > w - 1 /\ (n - 1) + 1 = n BY <1>1, <2>2
    <3>2. writer'[n - 1] = writer[n] BY <3>1, <1>6
    <3>6. ~writer[n].old BY <2>0, <3>1, <1>1 DEF OldFirst, n
    <3>3. Len(writer') # 0 /\ Len(writer') = n - 1 /\ n # 0 BY <3>1, <1>5, <1>1
    <3>4. LastCopy' = writer[n].rec BY <3>2, <3>3, <3>6 DEF LastCopy
    <3>5. LastCopy = writer[n].rec BY <3>2, <3>3, <3>6 DEF LastCopy, n
    <3> QED BY <3>4, <3>5
  <2> QED BY <2>1, <2>2
<1>10. file' \in KeptRecs
  <2>1. writer[w] \in Copies BY <1>1 DEF n
  <2> QED BY <2>1, <1>1 DEF Copies
<1> QED BY <1>5, <1>8, <1>9, <1>10

LEMMA Agrees ==
    ASSUME NEW m, IsRecord(m), m.here, mem' = m, LastCopy' = Kept(m)
    PROVE  Agreed' /\ Absent'
<1>1. mem'.here = TRUE BY DEF IsRecord
<1>2. Same' BY KeptIs DEF Same
<1> QED BY <1>1, <1>2 DEF Agreed, Absent

-----------------------------------------------------------------------------
(* The steps. *)

LEMMA ToggleKeeps == ASSUME ProvidersInd, ~lost, ~late, NEW v \in Settings, Toggle(v) PROVE ProvidersInd'
<1> DEFINE m == [mem EXCEPT !.params = v]
<1>0. ProvTypes /\ OldFirst /\ Agreed /\ Absent /\ ChoiceStands BY DEF ProvidersInd
<1>1. mem' = m /\ IsRecord(m) /\ m.here /\ m.pref = mem.pref BY <1>0 DEF Toggle, ProvTypes, IsRecord, RecFields
<1>2. writer' = Append(writer, [rec |-> Kept(m), old |-> FALSE]) BY <1>1 DEF Toggle, Queue
<1> HIDE DEF m
<1>3. Kept(m) \in KeptRecs BY <1>1, KeptIs
<1>4. writer' \in Seq(Copies) /\ OldFirst' /\ LastCopy' = Kept(m) BY <1>0, <1>2, <1>3, OneMore DEF ProvTypes
<1>5. Agreed' /\ Absent' BY <1>1, <1>4, Agrees
<1>6. ProvTypes' BY <1>0, <1>1, <1>4 DEF ProvTypes, Toggle
<1>7. ChoiceStands' BY <1>0, <1>1 DEF ChoiceStands, Toggle
<1> QED BY <1>4, <1>5, <1>6, <1>7 DEF ProvidersInd

LEMMA SaveKeeps == ASSUME ProvidersInd, ~lost, ~late, NEW v \in Settings, SaveProvider(v) PROVE ProvidersInd'
<1> DEFINE m == [mem EXCEPT !.here = TRUE, !.params = v, !.pref = ui.pref, !.tag = ui.tag]
<1>0. ProvTypes /\ OldFirst /\ Agreed /\ Absent /\ ChoiceStands BY DEF ProvidersInd
<1>1. mem' = m /\ DOMAIN m = RecFields /\ m.here = TRUE /\ m.params = v /\ m.pref = ui.pref /\ m.tag = ui.tag
  BY <1>0 DEF SaveProvider, ProvTypes, IsRecord, RecFields
<1>2. writer' = Append(writer, [rec |-> Kept(m), old |-> FALSE]) /\ ui' = Kept(m)
  BY <1>1 DEF SaveProvider, Queue, Kept
<1> HIDE DEF m
<1>8. IsRecord(m) BY <1>0, <1>1 DEF IsRecord, ProvTypes, KeptRecs
<1>3. Kept(m) \in KeptRecs BY <1>8, KeptIs
<1>4. writer' \in Seq(Copies) /\ OldFirst' /\ LastCopy' = Kept(m) BY <1>0, <1>2, <1>3, OneMore DEF ProvTypes
<1>5. Agreed' /\ Absent' BY <1>1, <1>8, <1>4, Agrees
<1>9. lost' \in BOOLEAN BY <1>0, Zenon DEF SaveProvider, ProvTypes
<1>6. ProvTypes' BY <1>0, <1>1, <1>2, <1>3, <1>8, <1>4, <1>9 DEF ProvTypes, SaveProvider
<1>7. ChoiceStands'
  <2> SUFFICES ASSUME ~lost' PROVE mem'.pref = choice' BY DEF ChoiceStands
  <2>1. Kept(mem) = ui BY Zenon DEF SaveProvider
  <2>2. ui.here /\ choice' = choice BY DEF SaveProvider
  <2>3. mem.here /\ mem.pref = ui.pref BY <2>1, <2>2, <1>0, KeptIs DEF ProvTypes
  <2> QED BY <2>2, <2>3, <1>0, <1>1 DEF ChoiceStands
<1> QED BY <1>4, <1>5, <1>6, <1>7 DEF ProvidersInd

LEMMA SetSourceKeeps == ASSUME ProvidersInd, ~lost, ~late, NEW s \in Sources, SetSource(s) PROVE ProvidersInd'
<1> DEFINE m == Activate(mem, s, exe)
<1>0. ProvTypes /\ OldFirst /\ Agreed /\ Absent /\ ChoiceStands BY DEF ProvidersInd
<1>1. mem' = m /\ writer' = Append(writer, [rec |-> Kept(m), old |-> FALSE]) /\ ui' = Kept(m) /\ mem.here /\ choice' = s
  BY DEF SetSource, Queue, Kept
<1>2. IsRecord(m) /\ Kept(m) = [Kept(mem) EXCEPT !.pref = s] BY <1>0, ActivateKeeps DEF ProvTypes
<1>3. m.here /\ m.pref = s
  <2>1. m.here = Kept(m).here /\ m.pref = Kept(m).pref /\ Kept(mem).here = mem.here BY <1>2 DEF Kept
  <2>2. Kept(m).here = Kept(mem).here /\ Kept(m).pref = s BY <1>2 DEF Kept
  <2> QED BY <2>1, <2>2, <1>1
<1> HIDE DEF m
<1>4. Kept(m) \in KeptRecs BY <1>2, KeptIs
<1>5. writer' \in Seq(Copies) /\ OldFirst' /\ LastCopy' = Kept(m) BY <1>0, <1>1, <1>4, OneMore DEF ProvTypes
<1>6. Agreed' /\ Absent' BY <1>1, <1>2, <1>3, <1>5, Agrees
<1>7. ProvTypes' BY <1>0, <1>1, <1>2, <1>4, <1>5 DEF ProvTypes, SetSource
<1>8. ChoiceStands' BY <1>1, <1>3 DEF ChoiceStands
<1> QED BY <1>5, <1>6, <1>7, <1>8 DEF ProvidersInd

LEMMA RevertKeeps == ASSUME ProvidersInd, ~lost, ~late, RevertToBundled PROVE ProvidersInd'
<1> DEFINE m == Activate(mem, "bundled", exe)
<1>0. ProvTypes /\ OldFirst /\ Agreed /\ Absent /\ ChoiceStands BY DEF ProvidersInd
<1>1. mem' = m /\ writer' = Outdated(writer) /\ file' = Kept(m) /\ mem.here /\ choice' = "bundled"
  BY DEF RevertToBundled, WriteNow, Kept
<1>9. "bundled" \in Sources BY DEF Sources
<1>2. IsRecord(m) /\ Kept(m) = [Kept(mem) EXCEPT !.pref = "bundled"] BY <1>0, <1>9, ActivateKeeps DEF ProvTypes
<1>3. m.here /\ m.pref = "bundled"
  <2>1. m.here = Kept(m).here /\ m.pref = Kept(m).pref /\ Kept(mem).here = mem.here BY <1>2 DEF Kept
  <2>2. Kept(m).here = Kept(mem).here /\ Kept(m).pref = "bundled" BY <1>2 DEF Kept
  <2> QED BY <2>1, <2>2, <1>1
<1> HIDE DEF m
<1>4. Kept(m) \in KeptRecs BY <1>2, KeptIs
<1>5. writer' \in Seq(Copies) /\ OldFirst' /\ LastCopy' = Kept(m) BY <1>0, <1>1, AtOnce DEF ProvTypes
<1>6. Agreed' /\ Absent' BY <1>1, <1>2, <1>3, <1>5, Agrees
<1>7. ProvTypes' BY <1>0, <1>1, <1>2, <1>4, <1>5, <1>9 DEF ProvTypes, RevertToBundled
<1>8. ChoiceStands' BY <1>1, <1>3 DEF ChoiceStands
<1> QED BY <1>5, <1>6, <1>7, <1>8 DEF ProvidersInd

LEMMA WriteKeeps == ASSUME ProvidersInd, ~lost, ~late, NEW w, WriteFile(w) PROVE ProvidersInd'
<1>0. ProvTypes /\ OldFirst /\ Agreed /\ Absent /\ ChoiceStands BY DEF ProvidersInd
<1>1. w \in DOMAIN writer /\ file' = writer[w].rec BY DEF WriteFile
<1>2. late' \in BOOLEAN /\ (~late' \/ late') BY <1>0, Zenon DEF WriteFile, ProvTypes
<1>u. UNCHANGED <<core, exe, prevExe, used, mem, ui, refresh, publish, pack, remover, reset, choice, lost>> BY DEF WriteFile
<1>3. Absent' /\ ChoiceStands' BY <1>0, <1>u DEF Absent, ChoiceStands
<1>4. writer' \in Seq(Copies) /\ OldFirst' /\ (~late' => LastCopy' = LastCopy) /\ file' \in KeptRecs BY <1>0, OneLess
<1>5. ProvTypes' BY <1>0, <1>u, <1>2, <1>4 DEF ProvTypes
<1>6. CASE ~late'
  <2>1. LastCopy' = LastCopy BY <1>4, <1>6
  <2>2. Agreed' BY <1>0, <1>u, <1>6, <2>1 DEF Agreed, Same, Discovered
  <2> QED BY <2>2, <1>3, <1>4, <1>5 DEF ProvidersInd
<1>7. CASE late'
  <2>1. Agreed' BY <1>7 DEF Agreed
  <2> QED BY <2>1, <1>3, <1>4, <1>5 DEF ProvidersInd
<1> QED BY <1>2, <1>6, <1>7

\* Steps that touch neither a copy nor the record.
LEMMA ElsewhereKeeps ==
    ASSUME ProvidersInd, UNCHANGED <<core, mem, file, writer, choice, lost, late, reset>>, ProvTypes',
           exe'["bundled"] = exe["bundled"] \/ (exe'["bundled"] # 0 /\ pack'.pc = "register"),
           pack.pc = "register" => pack'.pc = "register",
           publish.pc = "persist" => publish'.pc = "persist", remover' = "idle" => remover = "idle"
    PROVE  ProvidersInd'
<1>0. OldFirst /\ Agreed /\ Absent /\ ChoiceStands BY DEF ProvidersInd
<1>1. OldFirst' /\ Absent' /\ ChoiceStands' BY <1>0 DEF OldFirst, Absent, ChoiceStands
<1>2. LastCopy' = LastCopy BY DEF LastCopy
<1>3. Discovered(exe)' \in BOOLEAN /\ Discovered(exe) \in BOOLEAN BY DEF Discovered
<1>4. Discovered(exe) => Discovered(exe)' BY DEF Discovered
<1>5. Discovered(exe)' => Discovered(exe) \/ pack'.pc = "register" BY DEF Discovered
<1>6. Same => Same' BY <1>2, <1>4 DEF Same
<1>7. Agreed' BY <1>0, <1>2, <1>5, <1>6 DEF Agreed
<1> QED BY <1>1, <1>7 DEF ProvidersInd

LEMMA FilesKeep ==
    ASSUME ProvidersAssumption, ProvidersInd, ~lost, ~late, PublishArtifacts \/ RestorePrevious \/ PackClear \/ PackCopy
    PROVE  ProvidersInd'
<1>0. ProvTypes BY DEF ProvidersInd
<1>9. Sources = {"bundled", "foundry", "catalog"} BY DEF Sources
<1>1. CASE PublishArtifacts
  <2>1. PICK b \in EngineBuilds \ used : /\ exe' = [exe EXCEPT !["foundry"] = b] /\ prevExe' = exe["foundry"] /\ used' = used \cup {b}
                                        /\ publish' = [pc |-> "probe", build |-> b, tag |-> FALSE]
    BY <1>1 DEF PublishArtifacts
  <2>2. publish.pc = "idle" /\ UNCHANGED <<core, mem, file, ui, writer, refresh, pack, remover, reset, choice, lost, late>>
    BY <1>1 DEF PublishArtifacts
  <2>3. exe'["bundled"] = exe["bundled"] /\ exe' \in [Sources -> used' \cup {0}] /\ prevExe' \in used' \cup {0} /\ used' \subseteq EngineBuilds
    BY <1>0, <2>1, <1>9 DEF ProvTypes
  <2>4. ProvTypes' BY <1>0, <2>1, <2>2, <2>3 DEF ProvTypes
  <2> QED BY <2>2, <2>3, <2>4, ElsewhereKeeps
<1>2. CASE RestorePrevious
  <2>2. publish.pc = "idle" /\ UNCHANGED <<core, used, mem, file, ui, writer, refresh, pack, remover, reset, choice, lost, late>>
    BY <1>2 DEF RestorePrevious
  <2>3. exe'["bundled"] = exe["bundled"] /\ exe' \in [Sources -> used' \cup {0}] /\ prevExe' = 0
    BY <1>0, <1>2, <2>2, <1>9 DEF ProvTypes, RestorePrevious
  <2>5. DOMAIN publish' = {"pc", "build", "tag"} /\ publish'.build \in used \cup {0} BY <1>0, <1>2 DEF ProvTypes, RestorePrevious
  <2>4. ProvTypes' BY <1>0, <2>2, <2>3, <2>5 DEF ProvTypes
  <2> QED BY <2>2, <2>3, <2>4, ElsewhereKeeps
<1>3. CASE PackClear
  <2>2. pack.pc = "idle" /\ UNCHANGED <<core, prevExe, used, mem, file, ui, writer, refresh, publish, remover, reset, choice, lost, late>>
        /\ pack' = [pc |-> "copy"]
    BY <1>3 DEF PackClear
  <2>3. exe'["bundled"] = exe["bundled"] /\ exe' \in [Sources -> used' \cup {0}]
    BY <1>0, <1>3, <2>2, <1>9 DEF ProvTypes, PackClear
  <2>4. ProvTypes' BY <1>0, <2>2, <2>3 DEF ProvTypes
  <2> QED BY <2>2, <2>3, <2>4, ElsewhereKeeps
<1>4. CASE PackCopy
  <2>2. pack.pc = "copy" /\ UNCHANGED <<core, prevExe, mem, file, ui, writer, refresh, publish, remover, reset, choice, lost, late>>
    BY <1>4 DEF PackCopy
  <2>3. CASE pack' = [pc |-> "idle"] /\ UNCHANGED <<exe, used>>
    <3>1. ProvTypes' BY <1>0, <2>2, <2>3 DEF ProvTypes
    <3> QED BY <2>2, <2>3, <3>1, ElsewhereKeeps
  <2>4. CASE pack' = [pc |-> "register"] /\ \E b \in EngineBuilds \ used : exe' = [exe EXCEPT ![PackTree] = b] /\ used' = used \cup {b}
    <3>1. PICK b \in EngineBuilds \ used : exe' = [exe EXCEPT ![PackTree] = b] /\ used' = used \cup {b} BY <2>4
    <3>2. PackTree \in Sources /\ b # 0 BY <1>9 DEF PackTree, ProvidersAssumption
    <3>3. exe' \in [Sources -> used' \cup {0}] /\ used' \subseteq EngineBuilds /\ prevExe' \in used' \cup {0}
      BY <1>0, <2>2, <3>1, <3>2 DEF ProvTypes
    <3>4. exe'["bundled"] = exe["bundled"] \/ exe'["bundled"] # 0 BY <1>0, <3>1, <3>2, <1>9 DEF ProvTypes
    <3>5. publish'.build \in used' \cup {0} BY <1>0, <2>2, <3>1 DEF ProvTypes
    <3>6. ProvTypes' BY <1>0, <2>2, <2>4, <3>3, <3>5 DEF ProvTypes
    <3> QED BY <2>2, <2>4, <3>4, <3>6, ElsewhereKeeps
  <2> QED BY <1>4, <2>3, <2>4 DEF PackCopy
<1> QED BY <1>1, <1>2, <1>3, <1>4

LEMMA ReadersKeep ==
    ASSUME ProvidersInd, ~lost, ~late, Reload \/ RefreshStart PROVE ProvidersInd'
<1>0. ProvTypes BY DEF ProvidersInd
<1>1. CASE Reload
  <2>1. ui' \in KeptRecs BY <1>0, <1>1, KeptIs DEF Reload, ProvTypes
  <2>2. ProvTypes' BY <1>0, <1>1, <2>1 DEF ProvTypes, Reload
  <2> QED BY <1>1, <2>2, ElsewhereKeeps DEF Reload
<1>2. CASE RefreshStart
  <2>1. IsRecord(ResolveOn(mem, exe)) /\ Kept(ResolveOn(mem, exe)) = Kept(mem) /\ mem.here
    BY <1>0, <1>2, ResolveKeeps DEF RefreshStart, ProvTypes
  <2>2. ResolveOn(mem, exe).here
    BY <1>0, <2>1, KeptIs DEF ProvTypes
  <2>3. PICK c : c = ResolveOn(mem, exe) OBVIOUS
  <2>4. refresh' = [pc |-> "probe", copy |-> c, active |-> mem.active]
        /\ UNCHANGED <<core, exe, prevExe, used, mem, file, ui, writer, publish, pack, remover, reset, choice, lost, late>>
    BY <1>2, <2>3 DEF RefreshStart
  <2>5. ProvTypes' BY <1>0, <2>1, <2>2, <2>3, <2>4 DEF ProvTypes
  <2> QED BY <2>4, <2>5, ElsewhereKeeps
<1> QED BY <1>1, <1>2

LEMMA RemovalKeeps ==
    ASSUME ProvidersAssumption, ProvidersInd, ~lost, ~late, RemoveRecord \/ RemoveFile \/ RemoveTree
    PROVE  ProvidersInd'
<1>0. ProvTypes /\ OldFirst /\ Absent /\ ChoiceStands BY DEF ProvidersInd
<1>9. remover' # "idle" BY DEF RemoveRecord, RemoveFile, RemoveTree, RemoveStep
<1>8. Agreed' BY <1>9 DEF Agreed
<1>1. CASE RemoveRecord
  <2>1. IsRecord(mem') /\ mem'.here = FALSE /\ mem' = NoRecord BY <1>1, NoRecordIs DEF RemoveRecord, IsRecord
  <2>2. UNCHANGED <<core, exe, prevExe, used, file, ui, writer, refresh, publish, pack, reset, choice, lost, late>>
    BY <1>1 DEF RemoveRecord
  <2>3. ProvTypes' BY <1>0, <2>1, <2>2 DEF ProvTypes
  <2>4. OldFirst' /\ Absent' /\ ChoiceStands' BY <1>0, <2>1, <2>2 DEF OldFirst, Absent, ChoiceStands
  <2> QED BY <1>8, <2>3, <2>4 DEF ProvidersInd
<1>2. CASE RemoveFile
  <2>1. file' = Kept(NoRecord) /\ writer' = Outdated(writer) BY <1>2 DEF RemoveFile, WriteNow
  <2>2. UNCHANGED <<core, exe, prevExe, used, mem, ui, refresh, publish, pack, reset, choice, lost, late>>
    BY <1>2 DEF RemoveFile
  <2>3. writer' \in Seq(Copies) /\ OldFirst' BY <1>0, <2>1, AtOnce DEF ProvTypes
  <2>4. file' \in KeptRecs BY <2>1, NoRecordIs, KeptIs
  <2>5. ProvTypes' BY <1>0, <2>2, <2>3, <2>4 DEF ProvTypes
  <2>6. Absent' /\ ChoiceStands' BY <1>0, <2>2 DEF Absent, ChoiceStands
  <2> QED BY <1>8, <2>3, <2>5, <2>6 DEF ProvidersInd
<1>3. CASE RemoveTree
  <2>1. exe' = [exe EXCEPT !["bundled"] = 0]
        /\ UNCHANGED <<core, prevExe, used, mem, file, ui, writer, refresh, publish, pack, reset, choice, lost, late>>
    BY <1>3 DEF RemoveTree
  <2>2. exe' \in [Sources -> used' \cup {0}] BY <1>0, <2>1 DEF ProvTypes
  <2>3. ProvTypes' BY <1>0, <2>1, <2>2 DEF ProvTypes
  <2>4. OldFirst' /\ Absent' /\ ChoiceStands' BY <1>0, <2>1 DEF OldFirst, Absent, ChoiceStands
  <2> QED BY <1>8, <2>3, <2>4 DEF ProvidersInd
<1> QED BY <1>1, <1>2, <1>3

\* What is loaded from the file agrees with it.
LEMMA LoadAgrees ==
    ASSUME ProvidersAssumption, ProvTypes, UNCHANGED <<core, exe>>, mem' = Load(file, exe),
           LastCopy' = file \/ (mem'.here /\ LastCopy' = Kept(mem'))
    PROVE  Agreed' /\ Absent' /\ IsRecord(mem') /\ Kept(mem') \in KeptRecs
<1>1. PICK m : m = Load(file, exe) OBVIOUS
<1>2. file \in KeptRecs /\ exe = exe' BY DEF ProvTypes
<1>3. /\ IsRecord(m)
      /\ Discovered(exe) \/ file.here => Kept(m) = [here |-> TRUE, params |-> file.params, pref |-> file.pref, tag |-> file.tag]
      /\ ~(Discovered(exe) \/ file.here) => m = NoRecord
  BY <1>1, <1>2, LoadIs
<1>4. Discovered(exe)' = Discovered(exe) BY DEF Discovered
<1>5. mem' = m /\ Kept(m) \in KeptRecs /\ Kept(m).here = m.here /\ Kept(m).params = m.params /\ Kept(m).pref = m.pref /\ Kept(m).tag = m.tag
  BY <1>1, <1>3, KeptIs
<1>6. CASE Discovered(exe) \/ file.here
  <2>1. m.here = TRUE /\ m.params = file.params /\ m.pref = file.pref /\ m.tag = file.tag BY <1>3, <1>5, <1>6
  <2>2. LastCopy'.params = m.params /\ LastCopy'.pref = m.pref /\ LastCopy'.tag = m.tag BY <2>1, <1>5
  <2>3. LastCopy' = file \/ LastCopy'.here BY <1>5, <2>1
  <2>4. Same' BY <1>4, <1>5, <1>6, <2>2, <2>3 DEF Same
  <2>5. mem'.here = TRUE BY <2>1, <1>5
  <2> QED BY <2>4, <2>5, <1>3, <1>5 DEF Agreed, Absent
<1>7. CASE ~(Discovered(exe) \/ file.here)
  <2>1. m = NoRecord /\ ~m.here BY <1>3, <1>7, NoRecordIs
  <2>2. LastCopy' = file BY <2>1, <1>5
  <2>3. ~LastCopy'.here /\ ~Discovered(exe)' BY <2>2, <1>4, <1>7
  <2>4. Agreed' BY <2>1, <2>3, <1>5 DEF Agreed
  <2>5. Absent' BY <2>1, <1>5 DEF Absent, Kept
  <2> QED BY <2>4, <2>5, <1>3, <1>5
<1> QED BY <1>6, <1>7

LEMMA RediscoverKeeps == ASSUME ProvidersAssumption, ProvidersInd, Rediscover PROVE ProvidersInd'
<1>0. ProvTypes BY DEF ProvidersInd
<1>1. mem' = Load(file, exe) /\ choice' = mem'.pref /\ writer' = Outdated(writer)
      /\ UNCHANGED <<core, exe, prevExe, used, ui, refresh, publish, pack, reset, lost, late>>
  BY DEF Rediscover, WriteNow
<1>2. file' = IF mem'.here THEN Kept(mem') ELSE file BY DEF Rediscover, WriteNow, Kept
<1>3. writer' \in Seq(Copies) /\ OldFirst' /\ LastCopy' = file' BY <1>0, <1>1, AtOnce DEF ProvTypes
<1>4. Agreed' /\ Absent' /\ IsRecord(mem') /\ Kept(mem') \in KeptRecs BY <1>0, <1>1, <1>2, <1>3, LoadAgrees
<1>5. file' \in KeptRecs BY <1>0, <1>2, <1>4 DEF ProvTypes
<1>6. choice' \in Sources \cup {"none"} BY <1>1, <1>4 DEF IsRecord
<1>7. ProvTypes' BY <1>0, <1>1, <1>3, <1>4, <1>5, <1>6 DEF ProvTypes
<1>8. ChoiceStands' BY <1>1 DEF ChoiceStands
<1> QED BY <1>3, <1>4, <1>7, <1>8 DEF ProvidersInd

LEMMA RestartKeeps == ASSUME ProvidersAssumption, ProvidersInd, Restart PROVE ProvidersInd'
<1>0. ProvTypes BY DEF ProvidersInd
<1>1. mem' = Load(file, exe) /\ choice' = mem'.pref /\ writer' = << >> /\ UNCHANGED <<core, exe, prevExe, used, file>>
  BY DEF Restart
<1>2. writer' \in Seq(Copies) /\ Len(writer') = 0 BY <1>1
<1>3. OldFirst' /\ LastCopy' = file BY <1>1, <1>2 DEF OldFirst, LastCopy
<1>4. Agreed' /\ Absent' /\ IsRecord(mem') /\ Kept(mem') \in KeptRecs BY <1>0, <1>1, <1>3, LoadAgrees
<1>5. ui' \in KeptRecs BY <1>4 DEF Restart, Kept
<1>6. choice' \in Sources \cup {"none"} BY <1>1, <1>4 DEF IsRecord
<1>7. IsRecord(NoRecord) /\ Kept(NoRecord) \in KeptRecs BY NoRecordIs, KeptIs
<1>9. /\ refresh' = [pc |-> "idle", copy |-> NoRecord, active |-> "none"] /\ publish' = [pc |-> "idle", build |-> 0, tag |-> FALSE]
      /\ pack' = [pc |-> "idle"] /\ reset' = [pc |-> "idle", copy |-> NoRecord] /\ lost' = FALSE /\ late' = FALSE
  BY DEF Restart
<1>10. IsRecord(refresh.copy)' /\ IsRecord(reset.copy)' BY <1>7, <1>9 DEF IsRecord
<1>11. reset'.copy = NoRecord /\ refresh'.pc = "idle" /\ publish'.build = 0 BY <1>9
<1>12. DOMAIN refresh' = {"pc", "copy", "active"} /\ DOMAIN publish' = {"pc", "build", "tag"}
       /\ DOMAIN pack' = {"pc"} /\ DOMAIN reset' = {"pc", "copy"} BY <1>9
<1>13. file' \in KeptRecs /\ core' \in BOOLEAN /\ used' \subseteq EngineBuilds /\ exe' \in [Sources -> used' \cup {0}] /\ prevExe' \in used' \cup {0}
  BY <1>0, <1>1 DEF ProvTypes
<1>14. reset'.copy.here = FALSE /\ Kept(reset.copy)' = Kept(NoRecord) BY <1>11, NoRecordIs DEF IsRecord, Kept
<1>8. ProvTypes' BY <1>2, <1>4, <1>5, <1>6, <1>9, <1>10, <1>11, <1>12, <1>13, <1>14 DEF ProvTypes
<1>15. ChoiceStands' BY <1>1 DEF ChoiceStands
<1> QED BY <1>3, <1>4, <1>8, <1>15 DEF ProvidersInd

LEMMA ResetKeeps ==
    ASSUME ProvidersAssumption, ProvidersInd, ~lost, ~late, ResetFiles \/ ResetLoads \/ ResetAssigns
    PROVE  ProvidersInd'
<1>0. ProvTypes /\ OldFirst /\ Absent /\ ChoiceStands BY DEF ProvidersInd
<1>1. CASE ResetFiles
  <2>1. file' = Kept(NoRecord) /\ writer' = Outdated(writer) /\ reset' = [reset EXCEPT !.pc = "load"]
        /\ UNCHANGED <<core, exe, prevExe, used, mem, ui, refresh, publish, pack, remover, choice, lost, late>>
    BY <1>1 DEF ResetFiles, WriteNow
  <2>2. writer' \in Seq(Copies) /\ OldFirst' BY <1>0, <2>1, AtOnce DEF ProvTypes
  <2>3. file' \in KeptRecs BY <2>1, NoRecordIs, KeptIs
  <2>4. DOMAIN reset' = {"pc", "copy"} /\ reset'.pc = "load" /\ reset'.copy = reset.copy BY <1>0, <2>1 DEF ProvTypes
  <2>5. ProvTypes' BY <1>0, <2>1, <2>2, <2>3, <2>4 DEF ProvTypes
  <2>6. Absent' /\ ChoiceStands' BY <1>0, <2>1 DEF Absent, ChoiceStands
  <2>7. Agreed' BY <2>4 DEF Agreed
  <2> QED BY <2>2, <2>5, <2>6, <2>7 DEF ProvidersInd
<1>2. CASE ResetLoads
  <2>1. PICK c : c = Load(file, exe) OBVIOUS
  <2>2. reset' = [pc |-> "assign", copy |-> c]
        /\ UNCHANGED <<core, exe, prevExe, used, mem, file, ui, writer, refresh, publish, pack, remover, choice, lost, late>>
    BY <1>2, <2>1 DEF ResetLoads
  <2>3. IsRecord(c) /\ (~c.here => Kept(c) = Kept(NoRecord))
    <3>1. file \in KeptRecs BY <1>0 DEF ProvTypes
    <3>2. CASE Discovered(exe) \/ file.here
      <4>1. IsRecord(c) /\ Kept(c) = [here |-> TRUE, params |-> file.params, pref |-> file.pref, tag |-> file.tag]
        BY <2>1, <3>1, <3>2, LoadIs
      <4>2. c.here BY <4>1, KeptIs
      <4> QED BY <4>1, <4>2
    <3>3. CASE ~(Discovered(exe) \/ file.here) BY <2>1, <3>1, <3>3, LoadIs, NoRecordIs
    <3> QED BY <3>2, <3>3
  <2>4. DOMAIN reset' = {"pc", "copy"} /\ reset'.pc = "assign" /\ reset'.copy = c BY <2>2
  <2>5. ProvTypes' BY <1>0, <2>2, <2>3, <2>4 DEF ProvTypes
  <2>6. OldFirst' /\ Absent' /\ ChoiceStands' BY <1>0, <2>2 DEF OldFirst, Absent, ChoiceStands
  <2>7. Agreed' BY <2>4 DEF Agreed
  <2> QED BY <2>5, <2>6, <2>7 DEF ProvidersInd
<1>3. CASE ResetAssigns
  <2>1. reset' = [pc |-> "idle", copy |-> NoRecord] /\ mem' = reset.copy /\ ui' = Kept(mem') /\ choice' = mem'.pref
        /\ writer' = Outdated(writer)
        /\ UNCHANGED <<core, exe, prevExe, used, file, refresh, publish, pack, remover, lost>>
    BY <1>3 DEF ResetAssigns, Kept
  <2>2. writer' \in Seq(Copies) /\ OldFirst' /\ LastCopy' = file BY <1>0, <2>1, AtOnce DEF ProvTypes
  <2>3. PICK m : m = reset.copy OBVIOUS
  <2>4. IsRecord(m) /\ mem' = m /\ (~m.here => Kept(m) = Kept(NoRecord)) /\ Kept(m) \in KeptRecs
    BY <1>0, <2>1, <2>3, KeptIs DEF ProvTypes
  <2>5. ui' \in KeptRecs /\ choice' \in Sources \cup {"none"} BY <2>1, <2>4 DEF IsRecord
  <2>6. late' \in BOOLEAN BY <1>0, <1>3, Zenon DEF ResetAssigns, ProvTypes
  <2>7. DOMAIN reset' = {"pc", "copy"} /\ reset'.copy = NoRecord BY <2>1
  <2>8. IsRecord(NoRecord) BY NoRecordIs
  <2>9. ProvTypes' BY <1>0, <2>1, <2>2, <2>4, <2>5, <2>6, <2>7, <2>8 DEF ProvTypes
  <2>10. Absent' /\ ChoiceStands' BY <2>1, <2>4 DEF Absent, ChoiceStands
  <2>11. Agreed'
    <3> SUFFICES ASSUME ~late' PROVE Agreed' BY DEF Agreed
    <3>1. Kept(Load(file, exe)) = Kept(mem') BY Zenon, <1>3 DEF ResetAssigns
    <3>2. PICK q : q = Load(file, exe) OBVIOUS
    <3>3. file \in KeptRecs BY <1>0 DEF ProvTypes
    <3>4. /\ IsRecord(q)
          /\ Discovered(exe) \/ file.here => Kept(q) = [here |-> TRUE, params |-> file.params, pref |-> file.pref, tag |-> file.tag]
          /\ ~(Discovered(exe) \/ file.here) => q = NoRecord
      BY <3>2, <3>3, LoadIs
    <3>5. Kept(q) = Kept(m) BY <3>1, <3>2, <2>4
    <3>6. Kept(m).here = m.here /\ Kept(m).params = m.params /\ Kept(m).pref = m.pref /\ Kept(m).tag = m.tag BY <2>4, KeptIs
    <3>7. Discovered(exe)' = Discovered(exe) BY <2>1 DEF Discovered
    <3>8. CASE Discovered(exe) \/ file.here
      <4>1. m.here = TRUE /\ m.params = file.params /\ m.pref = file.pref /\ m.tag = file.tag BY <3>4, <3>5, <3>6, <3>8
      <4>2. Same' BY <4>1, <2>2, <2>4, <3>7, <3>8 DEF Same
      <4> QED BY <4>1, <4>2, <2>4 DEF Agreed
    <3>9. CASE ~(Discovered(exe) \/ file.here)
      <4>1. q = NoRecord /\ q.here = FALSE BY <3>4, <3>9, NoRecordIs DEF IsRecord
      <4>2. m.here = FALSE BY <4>1, <3>4, <3>5, <3>6, KeptIs
      <4> QED BY <4>2, <2>2, <2>4, <3>7, <3>9 DEF Agreed
    <3> QED BY <3>8, <3>9
  <2> QED BY <2>2, <2>9, <2>10, <2>11 DEF ProvidersInd
<1> QED BY <1>1, <1>2, <1>3

LEMMA RefreshKeeps == ASSUME ProvidersAssumption, ProvidersInd, ~lost, ~late, NEW a \in BOOLEAN, RefreshWriteBack(a) PROVE ProvidersInd'
<1> DEFINE c == refresh.copy
           r == [c EXCEPT !.inv = [s \in Sources |-> Probed(c.inv[s], a)], !.info = Probed(c.info, a)]
<1>0. ProvTypes /\ OldFirst /\ Agreed /\ Absent /\ ChoiceStands BY DEF ProvidersInd
<1>1. refresh.pc = "probe" /\ refresh' = [pc |-> "idle", copy |-> NoRecord, active |-> "none"]
      /\ mem' = (IF mem.here THEN r ELSE mem) /\ ui' = Kept(mem')
      /\ (writer' = writer \/ writer' = Append(writer, [rec |-> Kept(r), old |-> FALSE]))
      /\ UNCHANGED <<core, exe, prevExe, used, file, publish, pack, remover, reset, choice, late>>
  BY DEF RefreshWriteBack, Queue, Kept
<1>l. lost' = (lost \/ (Kept(mem) # Kept(r) /\ (mem.here \/ writer' # writer))) BY DEF RefreshWriteBack
<1>2. IsRecord(c) /\ c.here BY <1>0, <1>1 DEF ProvTypes
<1>3. IsRecord(r) /\ r.here /\ r.params = c.params /\ r.pref = c.pref /\ r.tag = c.tag BY <1>2 DEF IsRecord, RecFields
<1> HIDE DEF c, r
<1>4. Kept(r) \in KeptRecs /\ Kept(r).here = r.here /\ Kept(r).params = r.params /\ Kept(r).pref = r.pref /\ Kept(r).tag = r.tag
  BY <1>3, KeptIs
<1>5. writer' \in Seq(Copies) /\ OldFirst' /\ (LastCopy' = Kept(r) \/ (writer' = writer /\ LastCopy' = LastCopy))
  <2>1. CASE writer' = writer BY <1>0, <1>1, <2>1 DEF ProvTypes, OldFirst, LastCopy
  <2>2. CASE writer' = Append(writer, [rec |-> Kept(r), old |-> FALSE])
    BY <1>0, <1>4, <2>2, OneMore DEF ProvTypes
  <2> QED BY <1>1, <2>1, <2>2
<1>6. lost' \in BOOLEAN BY <1>0, <1>l, Zenon DEF ProvTypes
<1>7. IsRecord(mem') /\ Absent' /\ (mem.here => mem' = r)
  <2>1. CASE mem.here BY <1>1, <1>3, <2>1 DEF Absent
  <2>2. CASE ~mem.here
    <3>1. mem' = mem BY <1>1, <2>2
    <3> QED BY <1>0, <2>2, <3>1 DEF Absent, ProvTypes
  <2> QED BY <2>1, <2>2
<1>8. ui' \in KeptRecs BY <1>1, <1>7 DEF IsRecord, Kept, KeptRecs
<1>9. ProvTypes' BY <1>0, <1>1, <1>5, <1>6, <1>7, <1>8, NoRecordIs DEF ProvTypes
<1>10. CASE lost'
  <2>1. Agreed' /\ ChoiceStands' BY <1>10 DEF Agreed, ChoiceStands
  <2> QED BY <2>1, <1>5, <1>7, <1>9 DEF ProvidersInd
<1>11. CASE ~lost'
  <2>1. CASE mem.here
    <3>1. Kept(mem) = Kept(r) BY <1>11, <1>l, <2>1
    <3>2. mem' = r /\ mem'.here = TRUE /\ mem.here = TRUE BY <1>7, <2>1, <1>3, <1>0 DEF IsRecord, ProvTypes
    <3>3. mem.params = r.params /\ mem.pref = r.pref /\ mem.tag = r.tag BY <3>1, <1>4, <1>0, KeptIs DEF ProvTypes
    <3>4. ChoiceStands' BY <3>2, <3>3, <1>0, <1>1 DEF ChoiceStands
    <3>5. Discovered(exe)' = Discovered(exe) BY <1>1 DEF Discovered
    <3>6. LastCopy' = Kept(r) => Same' BY <3>2, <1>3, <1>4 DEF Same
    <3>7. LastCopy' = LastCopy /\ Same => Same' BY <3>2, <3>3, <3>5 DEF Same
    <3>8. Agreed' BY <1>0, <1>1, <1>5, <3>2, <3>6, <3>7 DEF Agreed
    <3> QED BY <3>4, <3>8, <1>5, <1>7, <1>9 DEF ProvidersInd
  <2>2. CASE ~mem.here
    <3>1. mem' = mem BY <1>1, <2>2
    <3>2. writer' = writer
      <4> SUFFICES ASSUME writer' # writer PROVE FALSE OBVIOUS
      <4>1. Kept(mem) = Kept(r) BY <1>11, <1>l
      <4> QED BY <4>1, <1>3, <1>4, <1>0, <2>2, KeptIs DEF ProvTypes
    <3>3. LastCopy' = LastCopy BY <3>2, <1>1 DEF LastCopy
    <3>4. Discovered(exe)' = Discovered(exe) BY <1>1 DEF Discovered
    <3>5. Agreed' BY <1>0, <1>1, <3>1, <2>2, <3>3, <3>4 DEF Agreed
    <3>6. ChoiceStands' BY <3>1, <2>2 DEF ChoiceStands
    <3> QED BY <3>5, <3>6, <1>5, <1>7, <1>9 DEF ProvidersInd
  <2> QED BY <2>1, <2>2
<1> QED BY <1>6, <1>10, <1>11

LEMMA BuildKeeps ==
    ASSUME ProvidersInd, ~lost, ~late, PersistBuild \/ \E a \in BOOLEAN : ActivateBuild(a)
    PROVE  ProvidersInd'
<1>0. ProvTypes /\ OldFirst /\ Agreed /\ Absent /\ ChoiceStands BY DEF ProvidersInd
<1>1. CASE PersistBuild
  <2>1. publish' = [pc |-> "idle", build |-> 0, tag |-> FALSE]
        /\ UNCHANGED <<core, exe, prevExe, used, mem, file, ui, refresh, pack, remover, reset, choice, lost, late>>
    BY <1>1 DEF PersistBuild
  <2>2. CASE mem.here
    <3>1. writer' = Append(writer, [rec |-> Kept(mem), old |-> FALSE]) BY <1>1, <2>2 DEF PersistBuild, Queue
    <3>2. Kept(mem) \in KeptRecs BY <1>0, KeptIs DEF ProvTypes
    <3>3. writer' \in Seq(Copies) /\ OldFirst' /\ LastCopy' = Kept(mem) BY <1>0, <3>1, <3>2, OneMore DEF ProvTypes
    <3>4. PICK m : m = mem OBVIOUS
    <3>5. Agreed' /\ Absent'
      <4>1. IsRecord(m) /\ m.here /\ mem' = m /\ LastCopy' = Kept(m) BY <1>0, <2>1, <2>2, <3>3, <3>4 DEF ProvTypes
      <4> QED BY <4>1, Agrees
    <3>6. ProvTypes' BY <1>0, <2>1, <3>3 DEF ProvTypes
    <3>7. ChoiceStands' BY <1>0, <2>1 DEF ChoiceStands
    <3> QED BY <3>3, <3>5, <3>6, <3>7 DEF ProvidersInd
  <2>3. CASE ~mem.here
    <3>1. writer' = writer BY <1>1, <2>3 DEF PersistBuild
    <3>2. LastCopy' = LastCopy /\ OldFirst' BY <1>0, <2>1, <3>1 DEF LastCopy, OldFirst
    <3>3. Discovered(exe)' = Discovered(exe) BY <2>1 DEF Discovered
    <3>4. ProvTypes' BY <1>0, <2>1, <3>1 DEF ProvTypes
    <3>5. Absent' /\ ChoiceStands' BY <1>0, <2>1 DEF Absent, ChoiceStands
    <3>6. Agreed' BY <1>0, <2>1, <2>3, <3>2, <3>3 DEF Agreed
    <3> QED BY <3>2, <3>4, <3>5, <3>6 DEF ProvidersInd
  <2> QED BY <2>2, <2>3
<1>2. CASE \E a \in BOOLEAN : ActivateBuild(a)
  <2>1. PICK a \in BOOLEAN : ActivateBuild(a) BY <1>2
  <2> DEFINE q == [mem EXCEPT !.tag = @ /\ publish.tag]
             r == Activate(q, "foundry", exe)
             info == [ver |-> publish.build, date |-> publish.build, tree |-> "foundry"]
             r2 == [r EXCEPT !.inv["foundry"] = info, !.info = info]
  <2>2. publish' = [publish EXCEPT !.pc = "persist"]
        /\ UNCHANGED <<core, exe, prevExe, used, file, ui, writer, refresh, pack, remover, reset, lost, late>>
        /\ (mem.here => mem' \in {r, r2} /\ choice' = "foundry") /\ (~mem.here => mem' = mem /\ choice' = choice)
    BY <2>1 DEF ActivateBuild
  <2>3. IsRecord(q) /\ q.here = mem.here
    <3>1. (mem.tag /\ publish.tag) \in BOOLEAN OBVIOUS
    <3>2. DOMAIN q = RecFields /\ q.here = mem.here /\ q.params = mem.params /\ q.pref = mem.pref /\ q.tag = (mem.tag /\ publish.tag)
      BY <1>0 DEF ProvTypes, IsRecord, RecFields
    <3> QED BY <1>0, <3>1, <3>2 DEF ProvTypes, IsRecord
  <2>4. "foundry" \in Sources BY DEF Sources
  <2>5. IsRecord(r) /\ Kept(r) = [Kept(q) EXCEPT !.pref = "foundry"] BY <2>3, <2>4, ActivateKeeps
  <2>6. r.here = q.here /\ r.pref = "foundry"
    <3>1. r.here = Kept(r).here /\ r.pref = Kept(r).pref /\ Kept(q).here = q.here BY DEF Kept
    <3>2. Kept(r).here = Kept(q).here /\ Kept(r).pref = "foundry" BY <2>5 DEF Kept
    <3> QED BY <3>1, <3>2
  <2> HIDE DEF q, r
  <2>7. IsRecord(r2) /\ r2.here = r.here /\ r2.pref = r.pref BY <2>5 DEF IsRecord, RecFields
  <2> HIDE DEF r2
  <2>8. OldFirst' /\ LastCopy' = LastCopy BY <1>0, <2>2 DEF OldFirst, LastCopy
  <2>9. DOMAIN publish' = {"pc", "build", "tag"} /\ publish'.pc = "persist" /\ publish'.build = publish.build BY <1>0, <2>2 DEF ProvTypes
  <2>10. Discovered(exe)' = Discovered(exe) BY <2>2 DEF Discovered
  <2>11. CASE mem.here
    <3>1. IsRecord(mem') /\ mem'.here /\ mem'.pref = "foundry" /\ choice' = "foundry" BY <2>2, <2>3, <2>5, <2>6, <2>7, <2>11
    <3>2. ProvTypes' BY <1>0, <2>2, <2>4, <2>9, <3>1 DEF ProvTypes
    <3>3. mem'.here = TRUE BY <3>1 DEF IsRecord
    <3>4. Agreed' /\ Absent' /\ ChoiceStands' BY <3>1, <3>3, <2>9 DEF Agreed, Absent, ChoiceStands
    <3> QED BY <3>2, <3>4, <2>8 DEF ProvidersInd
  <2>12. CASE ~mem.here
    <3>1. mem' = mem /\ choice' = choice BY <2>2, <2>12
    <3>2. ProvTypes' BY <1>0, <2>2, <2>9, <3>1 DEF ProvTypes
    <3>3. Agreed' BY <1>0, <2>2, <2>8, <2>10, <2>12, <3>1 DEF Agreed
    <3>4. Absent' /\ ChoiceStands' BY <1>0, <2>12, <3>1 DEF Absent, ChoiceStands
    <3> QED BY <3>2, <3>3, <3>4, <2>8 DEF ProvidersInd
  <2> QED BY <2>11, <2>12
<1> QED BY <1>1, <1>2

LEMMA RegisterKeeps == ASSUME ProvidersAssumption, ProvidersInd, ~lost, ~late, PackRegister PROVE ProvidersInd'
<1> DEFINE found == IF mem.here THEN mem ELSE Load(file, exe)
           blank == [found.inv["catalog"] EXCEPT !.ver = 0, !.date = exe[PackTree]]
           t1 == [found EXCEPT !.tag = TRUE]
           t2 == [found EXCEPT !.tag = TRUE, !.inv["catalog"] = blank, !.info = blank]
           tagged == IF found.inv["catalog"].date = 0 THEN t1 ELSE t2
           m == ResolveOn(tagged, exe)
<1>0. ProvTypes /\ OldFirst /\ Agreed /\ Absent /\ ChoiceStands BY DEF ProvidersInd
<1>1. pack' = [pc |-> "idle"] /\ UNCHANGED <<core, exe, prevExe, used, ui, refresh, publish, remover, reset, lost, late>>
  BY DEF PackRegister
<1>2. found.here => mem' = m /\ file' = Kept(m) /\ writer' = Outdated(writer) /\ choice' = (IF mem.here THEN choice ELSE found.pref)
  BY DEF PackRegister, WriteNow, Kept
<1>3. ~found.here => mem' = mem /\ file' = file /\ writer' = writer /\ choice' = choice
  BY DEF PackRegister
<1>4. file \in KeptRecs /\ IsRecord(mem) BY <1>0 DEF ProvTypes
<1>5. IsRecord(found) /\ (mem.here => found = mem) /\ (~mem.here => found = Load(file, exe)) BY <1>4, LoadIs
<1> HIDE DEF found
<1>6. IsRecord(t1) /\ t1.here = found.here /\ t1.pref = found.pref BY <1>5 DEF IsRecord, RecFields
<1>7. IsRecord(t2) /\ t2.here = found.here /\ t2.pref = found.pref BY <1>5 DEF IsRecord, RecFields
<1> HIDE DEF t1, t2
<1>8. IsRecord(tagged) /\ tagged.here = found.here /\ tagged.pref = found.pref BY <1>6, <1>7
<1> HIDE DEF tagged
<1>9. IsRecord(m) /\ m.here = found.here /\ m.pref = found.pref
  <2>1. IsRecord(m) /\ Kept(m) = Kept(tagged) BY <1>8, ResolveKeeps
  <2> HIDE DEF m
  <2>2. Kept(m).here = m.here /\ Kept(m).pref = m.pref /\ Kept(tagged).here = tagged.here /\ Kept(tagged).pref = tagged.pref
    BY <2>1, <1>8, KeptIs
  <2> QED BY <2>1, <2>2, <1>8
<1> HIDE DEF m
<1>10. CASE found.here
  <2>1. Kept(m) \in KeptRecs BY <1>9, KeptIs
  <2>2. writer' \in Seq(Copies) /\ OldFirst' /\ LastCopy' = Kept(m) BY <1>0, <1>2, <1>10, AtOnce DEF ProvTypes
  <2>3. Agreed' /\ Absent' BY <1>2, <1>9, <1>10, <2>2, Agrees
  <2>4. choice' \in Sources \cup {"none"} BY <1>0, <1>2, <1>5, <1>10 DEF ProvTypes, IsRecord
  <2>5. ProvTypes' BY <1>0, <1>1, <1>2, <1>9, <1>10, <2>1, <2>2, <2>4 DEF ProvTypes
  <2>6. ChoiceStands' BY <1>0, <1>2, <1>5, <1>9, <1>10 DEF ChoiceStands
  <2> QED BY <2>2, <2>3, <2>5, <2>6 DEF ProvidersInd
<1>11. CASE ~found.here
  <2>1. ~mem.here /\ found = Load(file, exe) BY <1>5, <1>11
  <2>2. ~Discovered(exe)
    <3> SUFFICES ASSUME Discovered(exe) PROVE FALSE OBVIOUS
    <3>1. Kept(found) = [here |-> TRUE, params |-> file.params, pref |-> file.pref, tag |-> file.tag] BY <1>4, <2>1, LoadIs
    <3> QED BY <3>1, <1>5, <1>11, KeptIs
  <2>3. ProvTypes' BY <1>0, <1>1, <1>3, <1>11 DEF ProvTypes
  <2>4. OldFirst' /\ LastCopy' = LastCopy BY <1>0, <1>3, <1>11 DEF OldFirst, LastCopy
  <2>5. ~Discovered(exe)' BY <2>2, <1>1 DEF Discovered
  <2>6. Agreed' BY <1>0, <1>1, <1>3, <1>11, <2>1, <2>4, <2>5 DEF Agreed
  <2>7. Absent' /\ ChoiceStands' BY <1>0, <1>3, <1>11 DEF Absent, ChoiceStands
  <2> QED BY <2>3, <2>4, <2>6, <2>7 DEF ProvidersInd
<1> QED BY <1>10, <1>11

LEMMA ProvidersInitially == ProvidersAssumption /\ ProvidersInit => ProvidersInd
<1> SUFFICES ASSUME ProvidersAssumption, ProvidersInit PROVE ProvidersInd OBVIOUS
<1>1. IsRecord(NoRecord) /\ ~NoRecord.here /\ Kept(NoRecord) \in KeptRecs BY NoRecordIs, KeptIs
<1>2. file = Kept(NoRecord) /\ mem = Load(file, exe) /\ ui = Kept(mem) /\ writer = << >> BY DEF ProvidersInit
<1>3. /\ refresh = [pc |-> "idle", copy |-> NoRecord, active |-> "none"] /\ publish = [pc |-> "idle", build |-> 0, tag |-> FALSE]
      /\ pack = [pc |-> "idle"] /\ reset = [pc |-> "idle", copy |-> NoRecord] /\ lost = FALSE /\ late = FALSE
      /\ choice = "none" /\ core \in BOOLEAN /\ prevExe = 0
  BY DEF ProvidersInit
<1>4. used \subseteq EngineBuilds /\ exe \in [Sources -> used \cup {0}] BY DEF ProvidersInit, ProvidersAssumption
<1>5. PICK k : k = file OBVIOUS
<1>6. /\ k \in KeptRecs /\ IsRecord(mem) /\ Kept(NoRecord).here = FALSE /\ Kept(NoRecord).pref = "none"
      /\ Discovered(exe) => Kept(mem) = [here |-> TRUE, params |-> k.params, pref |-> k.pref, tag |-> k.tag]
      /\ ~Discovered(exe) => mem = NoRecord
  <2>1. Kept(NoRecord).here = FALSE /\ Kept(NoRecord).pref = "none" BY DEF Kept, NoRecord
  <2>2. mem = Load(k, exe) /\ ~k.here /\ k \in KeptRecs BY <1>1, <1>2, <1>5, <2>1
  <2> QED BY <2>1, <2>2, LoadIs
<1>7. Kept(mem) \in KeptRecs /\ Kept(mem).here = mem.here /\ Kept(mem).params = mem.params /\ Kept(mem).pref = mem.pref /\ Kept(mem).tag = mem.tag
  BY <1>6, KeptIs
<1>8. writer \in Seq(Copies) /\ Len(writer) = 0 /\ OldFirst /\ LastCopy = k BY <1>2, <1>5 DEF OldFirst, LastCopy
<1>9. ProvTypes BY <1>1, <1>2, <1>3, <1>4, <1>5, <1>6, <1>7, <1>8 DEF ProvTypes
<1>10. CASE Discovered(exe)
  <2>1. mem.here /\ mem.params = k.params /\ mem.pref = k.pref /\ mem.tag = k.tag BY <1>6, <1>7, <1>10
  <2>2. mem.pref = "none" BY <2>1, <1>2, <1>5, <1>6
  <2>3. Agreed /\ Absent /\ ChoiceStands BY <2>1, <2>2, <1>3, <1>8, <1>10 DEF Agreed, Same, Absent, ChoiceStands
  <2> QED BY <2>3, <1>8, <1>9 DEF ProvidersInd
<1>11. CASE ~Discovered(exe)
  <2>1. mem = NoRecord BY <1>6, <1>11
  <2>2. ~k.here BY <1>2, <1>5, <1>6
  <2>3. Agreed /\ Absent /\ ChoiceStands BY <2>1, <2>2, <1>1, <1>8, <1>11 DEF Agreed, Absent, ChoiceStands
  <2> QED BY <2>3, <1>8, <1>9 DEF ProvidersInd
<1> QED BY <1>10, <1>11

LEMMA ProvidersSteps == ProvidersAssumption /\ ProvidersInd /\ [ProvidersNext]_providerVars => ProvidersInd'
<1> SUFFICES ASSUME ProvidersAssumption, ProvidersInd, [ProvidersNext]_providerVars PROVE ProvidersInd' OBVIOUS
<1>1. CASE Restart BY <1>1, RestartKeeps
<1>2. CASE ~lost /\ ~late /\ ProvidersStep
  <2>1. ASSUME NEW w \in 1 .. MaxWriters, WriteFile(w) PROVE ProvidersInd' BY <1>2, <2>1, WriteKeeps
  <2>2. ASSUME NEW v \in Settings, Toggle(v) \/ SaveProvider(v) PROVE ProvidersInd' BY <1>2, <2>2, ToggleKeeps, SaveKeeps
  <2>3. ASSUME NEW s \in Sources, SetSource(s) PROVE ProvidersInd' BY <1>2, <2>3, SetSourceKeeps
  <2>4. ASSUME NEW a \in BOOLEAN, RefreshWriteBack(a) \/ ActivateBuild(a) PROVE ProvidersInd'
    BY <1>2, <2>4, RefreshKeeps, BuildKeeps
  <2>5. CASE Reload \/ RefreshStart BY <1>2, <2>5, ReadersKeep
  <2>6. CASE RevertToBundled BY <1>2, <2>6, RevertKeeps
  <2>7. CASE PublishArtifacts \/ RestorePrevious \/ PackClear \/ PackCopy BY <1>2, <2>7, FilesKeep
  <2>8. CASE PersistBuild BY <1>2, <2>8, BuildKeeps
  <2>9. CASE PackRegister BY <1>2, <2>9, RegisterKeeps
  <2>10. CASE RemoveRecord \/ RemoveFile \/ RemoveTree BY <1>2, <2>10, RemovalKeeps
  <2>11. CASE Rediscover BY <2>11, RediscoverKeeps
  <2>12. CASE ResetFiles \/ ResetLoads \/ ResetAssigns BY <1>2, <2>12, ResetKeeps
  <2> QED BY <1>2, <2>1, <2>2, <2>3, <2>4, <2>5, <2>6, <2>7, <2>8, <2>9, <2>10, <2>11, <2>12 DEF ProvidersStep
<1>3. CASE UNCHANGED providerVars
  <2>1. UNCHANGED <<core, exe, prevExe, used, mem, file, ui, writer, refresh, publish, pack, remover, reset, choice, lost, late>>
    BY <1>3 DEF providerVars
  <2>2. ProvTypes BY DEF ProvidersInd
  <2>3. ProvTypes' BY <2>1, <2>2 DEF ProvTypes
  <2> QED BY <2>1, <2>3, ElsewhereKeeps
<1> QED BY <1>1, <1>2, <1>3 DEF ProvidersNext

\* With no command under way nothing is left to be written.
LEMMA SettledIsSafe == ASSUME ProvidersAssumption, ProvidersInd PROVE SettledSurvivesRestart
<1> SUFFICES ASSUME Busy = 0, ~lost, ~late PROVE Kept(Load(file, exe)) = Kept(mem) BY DEF SettledSurvivesRestart
<1>0. ProvTypes /\ Agreed /\ Absent BY DEF ProvidersInd
<1> DEFINE cs == {<<"refresh", refresh.pc>>, <<"publish", publish.pc>>, <<"pack", pack.pc>>, <<"remove", remover>>, <<"reset", reset.pc>>}
           at == {c \in cs : c[2] # "idle"}
<1>1. IsFiniteSet(at)
  <2>1. IsFiniteSet({<<"refresh", refresh.pc>>, <<"publish", publish.pc>>, <<"pack", pack.pc>>, <<"remove", remover>>, <<"reset", reset.pc>>})
    <3>1. IsFiniteSet({}) BY FS_EmptySet
    <3>2. IsFiniteSet({<<"refresh", refresh.pc>>}) BY FS_Singleton
    <3>3. IsFiniteSet({<<"refresh", refresh.pc>>} \cup {<<"publish", publish.pc>>}) BY <3>2, FS_AddElement
    <3>4. IsFiniteSet({<<"refresh", refresh.pc>>} \cup {<<"publish", publish.pc>>} \cup {<<"pack", pack.pc>>}) BY <3>3, FS_AddElement
    <3>5. IsFiniteSet({<<"refresh", refresh.pc>>} \cup {<<"publish", publish.pc>>} \cup {<<"pack", pack.pc>>} \cup {<<"remove", remover>>}) BY <3>4, FS_AddElement
    <3>6. IsFiniteSet({<<"refresh", refresh.pc>>} \cup {<<"publish", publish.pc>>} \cup {<<"pack", pack.pc>>} \cup {<<"remove", remover>>} \cup {<<"reset", reset.pc>>}) BY <3>5, FS_AddElement
    <3>7. cs = {<<"refresh", refresh.pc>>} \cup {<<"publish", publish.pc>>} \cup {<<"pack", pack.pc>>} \cup {<<"remove", remover>>} \cup {<<"reset", reset.pc>>} BY Zenon
    <3> QED BY <3>6, <3>7
  <2>2. at \subseteq cs OBVIOUS
  <2> QED BY <2>1, <2>2, FS_Subset
<1>2. Len(writer) \in Nat /\ Cardinality(at) \in Nat BY <1>0, <1>1, FS_CardinalityType DEF ProvTypes
<1>3. Len(writer) = 0 /\ Cardinality(at) = 0
  <2>1. Len(writer) + Cardinality(at) = 0 BY DEF Busy
  <2> HIDE DEF at
  <2> QED BY <1>2, <2>1
<1>4. at = {} BY <1>1, <1>3, FS_EmptySet
<1>5. publish.pc = "idle" /\ pack.pc = "idle" /\ remover = "idle" /\ reset.pc = "idle"
  <2>1. \A c \in cs : c[2] = "idle" BY <1>4
  <2>2. <<"publish", publish.pc>>[2] = "idle" /\ <<"pack", pack.pc>>[2] = "idle" /\ <<"remove", remover>>[2] = "idle" /\ <<"reset", reset.pc>>[2] = "idle"
    BY <2>1
  <2> QED BY <2>2
<1>6. LastCopy = file BY <1>3 DEF LastCopy
<1>7. PICK k : k = file OBVIOUS
<1>8. k \in KeptRecs /\ IsRecord(mem) BY <1>0, <1>7 DEF ProvTypes
<1>9. Discovered(exe) \/ k.here => Kept(Load(k, exe)) = [here |-> TRUE, params |-> k.params, pref |-> k.pref, tag |-> k.tag] BY <1>8, LoadIs
<1>10. ~(Discovered(exe) \/ k.here) => Load(k, exe) = NoRecord BY <1>8, LoadIs
<1>11. CASE mem.here
  <2>1. Same BY <1>0, <1>5, <1>11 DEF Agreed
  <2>2. (Discovered(exe) \/ k.here) /\ mem.params = k.params /\ mem.pref = k.pref /\ mem.tag = k.tag BY <2>1, <1>6, <1>7 DEF Same
  <2>3. Kept(mem) = [here |-> TRUE, params |-> k.params, pref |-> k.pref, tag |-> k.tag]
    <3>1. mem.here = TRUE BY <1>8, <1>11 DEF IsRecord
    <3> QED BY <2>2, <3>1 DEF Kept
  <2> QED BY <2>2, <2>3, <1>7, <1>9
<1>12. CASE ~mem.here
  <2>1. ~(Discovered(exe) \/ k.here) BY <1>0, <1>5, <1>6, <1>7, <1>12 DEF Agreed
  <2> QED BY <2>1, <1>0, <1>7, <1>10, <1>12 DEF Absent
<1> QED BY <1>11, <1>12

(* For every set of builds and settings and every number of writers: the     *)
(* source last chosen stands, and with no command under way a restart loads  *)
(* the record the window shows, unless a copy was put back over a change or  *)
(* reached the file late (the records of providers in config.rs and          *)
(* provider.rs).                                                             *)
THEOREM ProvidersKept == ProvidersSpec => []ProvidersInv
<1>1. ProvidersInit => ProvidersInd BY ProvidersInitially, ProvidersAssumption
<1>2. ProvidersInd /\ [ProvidersNext]_providerVars => ProvidersInd' BY ProvidersSteps, ProvidersAssumption
<1>3. ProvidersInd => ProvidersInv
  <2> SUFFICES ASSUME ProvidersInd PROVE ProvidersInv OBVIOUS
  <2>1. ProvidersTypeOK BY DEF ProvidersInd, ProvTypes, ProvidersTypeOK, IsRecord
  <2>2. SettledSurvivesRestart BY SettledIsSafe, ProvidersAssumption
  <2> QED BY <2>1, <2>2 DEF ProvidersInd, ProvidersInv
<1> QED BY <1>1, <1>2, <1>3, PTL DEF ProvidersSpec
-----------------------------------------------------------------------------
(* The polling brain *)

MetricRecs == [rp : {-1, 0, 1}, prompts : Nat]
RowRecs == [proc : BOOLEAN, task : Nat, decoded : Nat, eval : BOOLEAN]
LineKinds == {"new", "cached", "belt", "pp", "force", "sampler", "gen", "eval", "stop"}
DisplayRecs ==
    [state : {"Loading", "Ready", "Active"}, phase : {"Idle", "PP", "Tg"}, lpPhase : {"Idle", "PP", "Tg"}, open : BOOLEAN,
     done : BOOLEAN, closed : BOOLEAN, clock : BOOLEAN, lpGen : BOOLEAN, lpProg : {0, 1, 2}, prog : {0, 1, 2}, total : BOOLEAN,
     fresh : BOOLEAN, touched : BOOLEAN, was : BOOLEAN, task : Nat, base : Nat, prev : Nat, metrics : MetricRecs]

\* The records a brain may be: the clock of a closed request stands.
Displays == {x \in DisplayRecs : x.closed => ~x.clock}

PollTypes ==
    /\ slotm \in [phase : {"idle", "pp", "tg"}, task : Nat, decoded : Nat] /\ prompts \in Nat
    /\ lines \in Seq(LineKinds) /\ Len(lines) <= MaxLines
    /\ display \in Displays /\ calm \in 0 .. 5
    /\ poll.slots = <<>> \/ \E r \in RowRecs : poll.slots = <<r>>
    /\ poll.metrics = <<>> \/ \E m \in MetricRecs : poll.metrics = <<m>>
    /\ poll = [slots |-> poll.slots, metrics |-> poll.metrics]

\* What a poll leaves behind: only a closed request is shown idle, and not one
\* that the next poll reopens.
Settled(x) == x.phase = "Idle" => x.closed /\ (x.open => x.done \/ (x.lpProg = 0 /\ x.prog = 0))
QuietRow(r) == ~r.proc /\ ~r.eval

\* An engine that is not asked for its counters is shown idle.
MetricsAsked == poll.metrics # <<>> /\ poll.metrics[1] # NoMetrics => ~IdleReady(display)

\* From the first complete poll of a silent engine on everything read is quiet.
PollIsQuiet ==
    calm >= 1 =>
        /\ EngineQuiet
        /\ poll.slots # <<>> => QuietRow(poll.slots[1])
        /\ poll.metrics # <<>> => poll.metrics[1] \in {NoMetrics, [rp |-> 0, prompts |-> prompts]}

\* How far the display has come, poll after poll.
FreshMeter(x) == x.metrics = [rp |-> 0, prompts |-> prompts]
Stage(x, n) ==
    /\ n >= 1 => Settled(x)
    /\ n >= 2 => IdleReady(x) \/ FreshMeter(x)
    /\ n >= 3 => IdleReady(x) \/ (FreshMeter(x) /\ x.state = "Ready" /\ ~x.closed)
    /\ n >= 4 => IdleReady(x)

PollInd == PollTypes /\ MetricsAsked /\ PollIsQuiet /\ Stage(display, calm)

-----------------------------------------------------------------------------
\* The steps of the request life cycle keep a display a display.

LEMMA CloseShown ==
    ASSUME NEW x \in DisplayRecs
    PROVE  /\ Close(x) \in Displays /\ Close(x).closed /\ ~Close(x).clock
           /\ Close(x).open = x.open /\ Close(x).done = x.done /\ Close(x).phase = x.phase /\ Close(x).state = x.state
           /\ Close(x).lpProg = x.lpProg /\ Close(x).prog = x.prog /\ Close(x).metrics = x.metrics
BY DEF Close, Displays, DisplayRecs

LEMMA CountersShown ==
    ASSUME NEW x \in Displays
    PROVE  LET y == NoCounters(x) IN
           /\ y \in Displays /\ y.closed = x.closed /\ y.clock = x.clock /\ y.open = x.open /\ y.done = x.done
           /\ y.phase = x.phase /\ y.state = x.state /\ y.lpProg = 0 /\ y.prog = 0 /\ y.metrics = x.metrics
BY DEF NoCounters, Displays, DisplayRecs

LEMMA FinalizeShown ==
    ASSUME NEW x \in Displays
    PROVE  /\ Finalize(x) \in Displays /\ Finalize(x).closed /\ ~Finalize(x).clock
           /\ Finalize(x).metrics = x.metrics /\ Finalize(x).state = x.state
           /\ x.closed => Finalize(x) = x
           /\ ~x.closed => ~Finalize(x).open /\ Finalize(x).phase = "Idle"
<1>1. x \in DisplayRecs BY DEF Displays
<1>2. CASE x.closed BY <1>2 DEF Finalize, Displays
<1>3. CASE ~x.closed
  <2>1. Close(x) \in DisplayRecs /\ Close(x).closed /\ ~Close(x).clock /\ Close(x).metrics = x.metrics /\ Close(x).state = x.state
    BY <1>1, CloseShown DEF Displays
  <2>2. Finalize(x) = [Close(x) EXCEPT !.open = FALSE, !.lpGen = FALSE, !.done = FALSE, !.phase = "Idle", !.lpPhase = "Idle"]
    BY <1>3 DEF Finalize
  <2>3. ASSUME NEW y \in DisplayRecs, y.closed, ~y.clock
        PROVE  LET z == [y EXCEPT !.open = FALSE, !.lpGen = FALSE, !.done = FALSE, !.phase = "Idle", !.lpPhase = "Idle"] IN
               /\ z \in DisplayRecs /\ z.closed /\ ~z.clock /\ z.metrics = y.metrics /\ z.state = y.state
               /\ ~z.open /\ z.phase = "Idle"
    BY <2>3 DEF DisplayRecs
  <2> QED BY <1>3, <2>1, <2>2, <2>3 DEF Displays
<1> QED BY <1>2, <1>3

LEMMA BeginShown ==
    ASSUME NEW x \in DisplayRecs
    PROVE  Begin(x) \in Displays /\ ~Begin(x).closed /\ Begin(x).phase = x.phase /\ Begin(x).metrics = x.metrics
BY DEF Begin, Displays, DisplayRecs

LEMMA EnsureShown ==
    ASSUME NEW x \in Displays
    PROVE  /\ Ensure(x) \in Displays /\ Ensure(x).phase = x.phase /\ Ensure(x).metrics = x.metrics
           /\ ~x.closed => ~Ensure(x).closed
<1>1. x \in DisplayRecs BY DEF Displays
<1> QED BY <1>1, BeginShown DEF Ensure

LEMMA LineShown == ASSUME NEW x \in Displays, NEW line \in LineKinds, slotm.task \in Nat PROVE Handled(x, line) \in Displays
<1>0. x \in DisplayRecs /\ (x.closed => ~x.clock) BY DEF Displays
<1>1. NewPrompt(x) \in Displays
  <2> DEFINE y == [OnSlot(InPrompt(x), x.prev) EXCEPT !.lpProg = 0, !.lpGen = FALSE, !.fresh = TRUE, !.total = TRUE,
                                                      !.prog = 0, !.task = slotm.task]
  <2>1. y \in DisplayRecs BY <1>0 DEF OnSlot, InPrompt, DisplayRecs
  <2>2. NewPrompt(x) = [Begin(y) EXCEPT !.state = "Active", !.touched = TRUE] BY DEF NewPrompt
  <2> HIDE DEF y
  <2>3. Begin(y) \in Displays BY <2>1, BeginShown
  <2> QED BY <2>2, <2>3 DEF Displays, DisplayRecs
<1>2. ForceReprocess(x) \in Displays
  <2> DEFINE y == [OnSlot(InPrompt(x), x.prev) EXCEPT !.lpProg = 0, !.lpGen = FALSE, !.prog = 0]
  <2>1. y \in Displays BY <1>0 DEF OnSlot, InPrompt, Displays, DisplayRecs
  <2>2. ForceReprocess(x) = [Ensure(y) EXCEPT !.touched = TRUE] BY DEF ForceReprocess
  <2> HIDE DEF y
  <2>3. Ensure(y) \in Displays BY <2>1, EnsureShown
  <2> QED BY <2>2, <2>3 DEF Displays, DisplayRecs
<1>3. BeltProgress(x) \in Displays
  <2> DEFINE y == [InPrompt(x) EXCEPT !.closed = FALSE, !.lpProg = 1, !.prog = IF @ = 0 THEN 1 ELSE @, !.total = TRUE]
  <2>1. y \in DisplayRecs BY <1>0 DEF InPrompt, DisplayRecs
  <2>2. BeltProgress(x) = [Begin(y) EXCEPT !.state = "Active", !.touched = TRUE] BY DEF BeltProgress
  <2> HIDE DEF y
  <2>3. Begin(y) \in Displays BY <2>1, BeginShown
  <2> QED BY <2>2, <2>3 DEF Displays, DisplayRecs
<1>4. TimingPP(x) \in Displays BY <1>0 DEF TimingPP, Displays, DisplayRecs
<1>5. Cached(x) \in Displays
  <2> DEFINE q == IF x.total /\ x.prog = 0 THEN 1 ELSE x.prog
  <2>1. q \in {0, 1, 2} BY <1>0 DEF DisplayRecs
  <2>2. Cached(x) = x \/ Cached(x) = [x EXCEPT !.open = TRUE, !.done = FALSE, !.phase = "PP", !.prog = q] BY DEF Cached
  <2> HIDE DEF q
  <2> QED BY <1>0, <2>1, <2>2 DEF Displays, DisplayRecs
<1>6. Sampler(x) \in Displays BY <1>0 DEF Sampler, Displays, DisplayRecs
<1>7. TimingGen(x) \in Displays BY <1>0 DEF TimingGen, Displays, DisplayRecs
<1>8. EvalComplete(x) \in Displays
  <2>1. EvalComplete(x) = x \/ EvalComplete(x) = [x EXCEPT !.total = TRUE, !.prog = 2, !.lpProg = 2] BY DEF EvalComplete
  <2> QED BY <1>0, <2>1 DEF Displays, DisplayRecs
<1>9. StopProcessing(x) \in Displays BY <1>0 DEF StopProcessing, Displays, DisplayRecs
<1> QED BY <1>1, <1>2, <1>3, <1>4, <1>5, <1>6, <1>7, <1>8, <1>9 DEF Handled, LineKinds

-----------------------------------------------------------------------------
\* The steps a poll takes through its row.

LEMMA EndedShown ==
    ASSUME NEW x \in Displays, NEW hold \in BOOLEAN
    PROVE  LET y == Ended(x, hold) IN
           /\ y \in Displays /\ y.closed /\ y.open = x.open /\ y.metrics = x.metrics /\ y.state = x.state
           /\ y.phase = "Idle" \/ y.phase = x.phase
<1>0. x \in DisplayRecs BY DEF Displays
<1>1. CASE hold BY <1>0, <1>1, CloseShown DEF Ended
<1>2. CASE ~hold
  <2> DEFINE c == [Close(x) EXCEPT !.done = FALSE, !.phase = "Idle"]
  <2>a. ASSUME NEW z \in Displays
        PROVE  LET w == [z EXCEPT !.done = FALSE, !.phase = "Idle"] IN
               /\ w \in Displays /\ w.closed = z.closed /\ w.open = z.open /\ w.metrics = z.metrics /\ w.state = z.state
               /\ w.phase = "Idle"
    BY DEF Displays, DisplayRecs
  <2>1. c \in Displays /\ c.closed /\ c.open = x.open /\ c.metrics = x.metrics /\ c.state = x.state /\ c.phase = "Idle"
    <3>1. Close(x) \in Displays /\ Close(x).closed /\ Close(x).open = x.open /\ Close(x).metrics = x.metrics /\ Close(x).state = x.state
      BY <1>0, CloseShown
    <3> QED BY <2>a, <3>1
  <2>2. Ended(x, hold) = NoCounters(c) BY <1>2 DEF Ended
  <2> HIDE DEF c
  <2> QED BY <2>1, <2>2, CountersShown
<1> QED BY <1>1, <1>2

LEMMA RestartedShown ==
    ASSUME NEW x \in Displays, NEW r \in RowRecs
    PROVE  Restarted(x, r) \in Displays /\ Restarted(x, r).metrics = x.metrics
<1> DEFINE e == [OnSlot(x, r.decoded) EXCEPT !.closed = FALSE, !.phase = "PP", !.open = TRUE, !.done = FALSE]
           y == [Ensure(e) EXCEPT !.state = "Active"]
<1>1. r.decoded \in Nat BY DEF RowRecs
<1>2. e \in Displays /\ e.metrics = x.metrics BY <1>1 DEF OnSlot, Displays, DisplayRecs
<1>3. Ensure(e) \in Displays /\ Ensure(e).metrics = x.metrics
  <2> HIDE DEF e
  <2> QED BY <1>2, EnsureShown
<1>4. y \in Displays /\ y.metrics = x.metrics
  <2> HIDE DEF e
  <2> QED BY <1>3 DEF Displays, DisplayRecs
<1>5. Restarted(x, r) = y \/ Restarted(x, r) = NoCounters(y) BY DEF Restarted
<1> HIDE DEF y
<1> QED BY <1>4, <1>5, CountersShown

LEMMA RebasedShown ==
    ASSUME NEW x \in Displays, NEW r \in RowRecs
    PROVE  LET y == Rebaselined(x, r) IN
           /\ y \in Displays /\ y.closed = x.closed /\ y.clock = x.clock /\ y.open = x.open /\ y.done = x.done
           /\ y.phase = x.phase /\ y.state = x.state /\ y.lpProg = x.lpProg /\ y.prog = x.prog /\ y.metrics = x.metrics
<1>1. r.decoded \in Nat BY DEF RowRecs
<1>2. CASE Rebaselined(x, r) = x BY <1>2
<1>3. CASE Rebaselined(x, r) = [x EXCEPT !.base = r.decoded] BY <1>1, <1>3 DEF Displays, DisplayRecs
<1> QED BY <1>2, <1>3 DEF Rebaselined

LEMMA RowShown ==
    ASSUME NEW x \in Displays, NEW r \in RowRecs
    PROVE  LET y == RowKept(x, r) IN
           /\ y \in Displays /\ y.closed = x.closed /\ y.clock = x.clock /\ y.open = x.open /\ y.done = x.done
           /\ y.phase = x.phase /\ y.state = x.state /\ y.lpProg = x.lpProg /\ y.prog = x.prog /\ y.metrics = x.metrics
<1> DEFINE t == IF r.task = 0 THEN x.task ELSE r.task
<1>1. r.decoded \in Nat /\ r.proc \in BOOLEAN /\ t \in Nat BY DEF RowRecs, Displays, DisplayRecs
<1>2. RowKept(x, r) = [x EXCEPT !.prev = r.decoded, !.was = r.proc, !.task = t] BY DEF RowKept
<1> HIDE DEF t
<1> QED BY <1>1, <1>2 DEF Displays, DisplayRecs

\* A row that is not at work finalizes what is open.
LEMMA BeltShown ==
    ASSUME NEW x \in Displays, NEW r \in RowRecs
    PROVE  LET y == BeltClosed(x, r) IN
           /\ y \in Displays /\ y.metrics = x.metrics /\ y.state = x.state
           /\ ~r.proc => IF x.open THEN y = Finalize(x) ELSE y = x
<1>1. CASE r.proc
  <2>1. BeltClosed(x, r) = [x EXCEPT !.touched = TRUE] BY <1>1 DEF BeltClosed
  <2> QED BY <1>1, <2>1 DEF Displays, DisplayRecs
<1>2. CASE ~r.proc BY <1>2, FinalizeShown DEF BeltClosed
<1> QED BY <1>1, <1>2

LEMMA ReconciledShown ==
    ASSUME NEW x \in Displays, NEW r \in RowRecs, NEW hold \in BOOLEAN
    PROVE  LET y == Reconciled(x, r, hold) IN
           /\ y \in Displays /\ y.metrics = x.metrics /\ y.state = x.state /\ Settled(y)
           /\ x.closed /\ ~(x.open /\ ~x.done /\ (x.phase = "PP" \/ x.lpProg > 0 \/ x.prog > 0))
                => y.phase = "Idle" /\ y.closed
           /\ ~x.closed /\ ~x.open /\ ~r.proc /\ ~(x.metrics.rp > 0) /\ x.state # "Active" /\ ~hold
                => y.phase = "Idle" /\ y.closed
           /\ (y.phase = "Idle" /\ y.closed) \/ ~y.closed
<1> DEFINE reopens == x.open /\ ~x.done /\ (x.phase = "PP" \/ x.lpProg > 0 \/ x.prog > 0)
           inFlight == r.proc \/ x.metrics.rp > 0 \/ x.open \/ x.state = "Active" \/ hold
           y == [x EXCEPT !.closed = FALSE]
           i == [Close(y) EXCEPT !.open = FALSE, !.done = FALSE, !.phase = "Idle"]
<1>0. x \in DisplayRecs /\ (x.closed => ~x.clock) BY DEF Displays
<1>p. x.lpProg \in {0, 1, 2} /\ x.prog \in {0, 1, 2} BY <1>0 DEF DisplayRecs
<1>y. y \in Displays /\ ~y.closed /\ y.metrics = x.metrics /\ y.state = x.state BY <1>0 DEF Displays, DisplayRecs
<1>i. /\ i \in Displays /\ i.closed /\ ~i.open /\ i.phase = "Idle" /\ i.metrics = x.metrics /\ i.state = x.state
  <2> HIDE DEF y
  <2>1. y \in DisplayRecs BY <1>y DEF Displays
  <2>2. Close(y) \in Displays /\ Close(y).closed /\ Close(y).metrics = x.metrics /\ Close(y).state = x.state
    BY <1>y, <2>1, CloseShown
  <2> QED BY <2>2 DEF Displays, DisplayRecs
<1>1. CASE x.closed /\ ~reopens
  <2>1. Reconciled(x, r, hold) = [x EXCEPT !.phase = "Idle", !.lpPhase = "Idle"] BY <1>1 DEF Reconciled
  <2>2. LET z == [x EXCEPT !.phase = "Idle", !.lpPhase = "Idle"] IN
        /\ z \in Displays /\ z.closed /\ z.phase = "Idle" /\ z.metrics = x.metrics /\ z.state = x.state /\ z.open = x.open
        /\ z.done = x.done /\ z.lpProg = x.lpProg /\ z.prog = x.prog
    BY <1>0, <1>1 DEF Displays, DisplayRecs
  <2>3. x.open => x.done \/ (x.lpProg = 0 /\ x.prog = 0) BY <1>1, <1>p
  <2> QED BY <1>1, <2>1, <2>2, <2>3 DEF Settled
<1>2. CASE ~(x.closed /\ ~reopens) /\ ~inFlight
  <2>1. Reconciled(x, r, hold) = NoCounters(i) BY <1>2 DEF Reconciled
  <2> HIDE DEF i
  <2>2. LET z == NoCounters(i) IN
        z \in Displays /\ z.closed /\ z.phase = "Idle" /\ ~z.open /\ z.metrics = x.metrics /\ z.state = x.state
    BY <1>i, CountersShown
  <2> QED BY <1>2, <2>1, <2>2 DEF Settled
<1>3. CASE ~(x.closed /\ ~reopens) /\ inFlight
  <2>1. \/ Reconciled(x, r, hold) = [y EXCEPT !.done = y.done \/ y.open, !.phase = "Tg"]
        \/ \E p \in {"PP", "Tg"} : Reconciled(x, r, hold) = [y EXCEPT !.phase = p]
    BY <1>3 DEF Reconciled
  <2> HIDE DEF y
  <2>2. (y.done \/ y.open) \in BOOLEAN OBVIOUS
  <2>3. ASSUME NEW d \in BOOLEAN, NEW p \in {"PP", "Tg"}
        PROVE  LET z == [y EXCEPT !.done = d, !.phase = p]  w == [y EXCEPT !.phase = p] IN
               /\ z \in Displays /\ ~z.closed /\ z.phase # "Idle" /\ z.metrics = x.metrics /\ z.state = x.state
               /\ w \in Displays /\ ~w.closed /\ w.phase # "Idle" /\ w.metrics = x.metrics /\ w.state = x.state
    BY <1>y DEF Displays, DisplayRecs
  <2>4. LET z == Reconciled(x, r, hold) IN
        z \in Displays /\ ~z.closed /\ z.phase # "Idle" /\ z.metrics = x.metrics /\ z.state = x.state
    BY <2>1, <2>2, <2>3
  <2> QED BY <1>3, <2>4 DEF Settled
<1> QED BY <1>1, <1>2, <1>3

LEMMA StateShown ==
    ASSUME NEW x \in Displays, NEW r \in RowRecs, Settled(x)
    PROVE  LET y == StateFrom(x, r) IN
           /\ y \in Displays /\ y.metrics = x.metrics /\ Settled(y) /\ y.closed = x.closed /\ y.phase = x.phase
           /\ ~r.proc /\ (x.metrics.rp = 0 \/ x.state = "Ready") => y.state = "Ready"
<1>1. \A s \in {"Ready", "Active"} : LET z == [x EXCEPT !.state = s] IN
        /\ z \in Displays /\ z.metrics = x.metrics /\ z.closed = x.closed /\ z.phase = x.phase /\ z.state = s
        /\ z.open = x.open /\ z.done = x.done /\ z.lpProg = x.lpProg /\ z.prog = x.prog
  BY DEF Displays, DisplayRecs
<1>2. StateFrom(x, r) = x \/ \E s \in {"Ready", "Active"} : StateFrom(x, r) = [x EXCEPT !.state = s] BY DEF StateFrom
<1>3. ~r.proc /\ (x.metrics.rp = 0 \/ x.state = "Ready") => StateFrom(x, r) = [x EXCEPT !.state = "Ready"]
                                                           \/ (StateFrom(x, r) = x /\ x.state = "Ready")
  BY DEF StateFrom, Displays, DisplayRecs
<1> QED BY <1>1, <1>2, <1>3 DEF Settled

LEMMA TailShown ==
    ASSUME NEW x \in Displays, NEW r \in RowRecs, NEW hold \in BOOLEAN, Settled(x)
    PROVE  LET y == IdleTail(x, r, hold) IN
           /\ y \in Displays /\ y.metrics = x.metrics /\ Settled(y) /\ y.state = x.state
           /\ x.closed => y = x
           /\ y = x \/ (y.closed /\ y.phase = "Idle")
<1>1. CASE IdleTail(x, r, hold) = x BY <1>1
<1>2. CASE ~x.closed /\ IdleTail(x, r, hold) = Finalize(x) BY <1>2, FinalizeShown DEF Settled
<1> QED BY <1>1, <1>2 DEF IdleTail

LEMMA SlotsShown ==
    ASSUME NEW x \in Displays, NEW r \in RowRecs, NEW hold \in BOOLEAN
    PROVE  LET y == SlotsProcessed(x, r, hold) IN
           /\ y \in Displays /\ y.metrics = x.metrics /\ Settled(y)
           /\ QuietRow(r) =>
               /\ Settled(x) /\ IdleReady(x) => IdleReady(y)
               /\ x.metrics.rp = 0 => y.state = "Ready" /\ (y.phase = "Idle" \/ ~y.closed)
               /\ x.metrics.rp = 0 /\ ~hold /\ x.state = "Ready" /\ ~x.closed => IdleReady(y)
<1> DEFINE stay == hold \/ r.proc
           base == Rebaselined(x, r)
           turn == IF IsNew(x, r) THEN Restarted(base, r) ELSE IF HasEnded(x, r) THEN Ended(base, hold) ELSE base
           row  == RowKept(turn, r)
           kept == BeltClosed(row, r)
           seen == [kept EXCEPT !.prog = IF @ = 0 /\ r.eval THEN 1 ELSE @]
           redone  == Reconciled(seen, r, stay)
           st   == StateFrom(redone, r)
           y    == IdleTail(st, r, stay)
<1>y. SlotsProcessed(x, r, hold) = y BY DEF SlotsProcessed
<1>s. stay \in BOOLEAN /\ (QuietRow(r) => stay = hold) BY DEF QuietRow
<1>b. /\ base \in Displays /\ base.closed = x.closed /\ base.clock = x.clock /\ base.open = x.open /\ base.done = x.done
      /\ base.phase = x.phase /\ base.state = x.state /\ base.lpProg = x.lpProg /\ base.prog = x.prog /\ base.metrics = x.metrics
  BY RebasedShown
<1>t. /\ turn \in Displays /\ turn.metrics = x.metrics
      /\ QuietRow(r) => \/ turn = base
                        \/ /\ turn.closed /\ ~turn.open /\ turn.state = x.state
                           /\ (turn.phase = "Idle" \/ turn.phase = x.phase)
  <2> HIDE DEF base
  <2>1. CASE IsNew(x, r)
    <3>1. turn = Restarted(base, r) /\ ~QuietRow(r) BY <2>1 DEF IsNew, QuietRow
    <3> QED BY <3>1, <1>b, RestartedShown
  <2>2. CASE ~IsNew(x, r) /\ HasEnded(x, r)
    <3>1. turn = Ended(base, hold) /\ ~x.open BY <2>2 DEF HasEnded
    <3>2. LET e == Ended(base, hold) IN
          /\ e \in Displays /\ e.closed /\ e.open = base.open /\ e.metrics = base.metrics /\ e.state = base.state
          /\ e.phase = "Idle" \/ e.phase = base.phase
      BY <1>b, EndedShown
    <3> QED BY <3>1, <3>2, <1>b
  <2>3. CASE ~IsNew(x, r) /\ ~HasEnded(x, r) BY <2>3, <1>b
  <2> QED BY <2>1, <2>2, <2>3
<1>r. /\ row \in Displays /\ row.closed = turn.closed /\ row.clock = turn.clock /\ row.open = turn.open
      /\ row.done = turn.done /\ row.phase = turn.phase /\ row.state = turn.state /\ row.lpProg = turn.lpProg
      /\ row.prog = turn.prog /\ row.metrics = turn.metrics
  <2> HIDE DEF turn
  <2> QED BY <1>t, RowShown
<1>k. /\ kept \in Displays /\ kept.metrics = x.metrics /\ kept.state = row.state
      /\ ~r.proc => IF row.open THEN kept = Finalize(row) ELSE kept = row
  <2> HIDE DEF row, turn
  <2> QED BY <1>r, <1>t, BeltShown
<1>f. /\ row.closed => Finalize(row) = row
      /\ ~row.closed => ~Finalize(row).open
  <2> HIDE DEF row
  <2> QED BY <1>r, FinalizeShown
<1>e. /\ seen \in Displays /\ seen.metrics = x.metrics /\ seen.state = kept.state
      /\ QuietRow(r) => /\ seen.closed = kept.closed /\ seen.open = kept.open /\ seen.done = kept.done
                        /\ seen.phase = kept.phase /\ seen.lpProg = kept.lpProg /\ seen.prog = kept.prog
  <2> DEFINE q == IF kept.prog = 0 /\ r.eval THEN 1 ELSE kept.prog
  <2> HIDE DEF kept
  <2>1. q \in {0, 1, 2} /\ (QuietRow(r) => q = kept.prog) BY <1>k DEF QuietRow, Displays, DisplayRecs
  <2>2. seen = [kept EXCEPT !.prog = q] OBVIOUS
  <2> HIDE DEF q, seen
  <2> QED BY <1>k, <2>1, <2>2 DEF Displays, DisplayRecs
<1>c. /\ redone \in Displays /\ redone.metrics = seen.metrics /\ redone.state = seen.state /\ Settled(redone)
      /\ seen.closed /\ ~(seen.open /\ ~seen.done /\ (seen.phase = "PP" \/ seen.lpProg > 0 \/ seen.prog > 0))
           => redone.phase = "Idle" /\ redone.closed
      /\ ~seen.closed /\ ~seen.open /\ ~r.proc /\ ~(seen.metrics.rp > 0) /\ seen.state # "Active" /\ ~stay
           => redone.phase = "Idle" /\ redone.closed
      /\ (redone.phase = "Idle" /\ redone.closed) \/ ~redone.closed
  <2> HIDE DEF seen, stay
  <2> QED BY <1>e, <1>s, ReconciledShown
<1>st. /\ st \in Displays /\ st.metrics = x.metrics /\ Settled(st) /\ st.closed = redone.closed /\ st.phase = redone.phase
       /\ ~r.proc /\ (x.metrics.rp = 0 \/ redone.state = "Ready") => st.state = "Ready"
  <2> HIDE DEF redone, seen
  <2>1. redone.metrics = x.metrics BY <1>c, <1>e
  <2> QED BY <1>c, <2>1, StateShown
<1>i. /\ y \in Displays /\ y.metrics = x.metrics /\ Settled(y) /\ y.state = st.state
      /\ st.closed => y = st
      /\ y = st \/ (y.closed /\ y.phase = "Idle")
  <2> HIDE DEF st, stay
  <2> QED BY <1>st, <1>s, TailShown
<1> HIDE DEF stay, base, turn, row, kept, seen, redone, st, y
<1>1. ASSUME QuietRow(r), Settled(x), IdleReady(x) PROVE IdleReady(y)
  <2>0. x.phase = "Idle" /\ x.state = "Ready" /\ x.closed /\ (x.open => x.done \/ (x.lpProg = 0 /\ x.prog = 0))
    BY <1>1 DEF IdleReady, Settled
  <2>1. /\ turn.closed /\ turn.phase = "Idle" /\ turn.state = "Ready"
        /\ turn.open => turn.done \/ (turn.lpProg = 0 /\ turn.prog = 0)
    BY <1>1, <1>t, <1>b, <2>0
  <2>2. kept = row BY <1>1, <1>k, <1>f, <1>r, <2>1 DEF QuietRow
  <2>3. /\ seen.closed /\ seen.phase = "Idle" /\ seen.state = "Ready"
        /\ seen.open => seen.done \/ (seen.lpProg = 0 /\ seen.prog = 0)
    BY <1>1, <1>e, <1>r, <2>1, <2>2
  <2>4. redone.phase = "Idle" /\ redone.closed /\ redone.state = "Ready" BY <1>c, <2>3
  <2> QED BY <1>1, <1>st, <1>i, <2>4 DEF IdleReady, QuietRow
<1>2. ASSUME QuietRow(r), x.metrics.rp = 0 PROVE y.state = "Ready" /\ (y.phase = "Idle" \/ ~y.closed)
  BY <1>2, <1>c, <1>st, <1>i DEF QuietRow
<1>3. ASSUME QuietRow(r), x.metrics.rp = 0, ~hold, x.state = "Ready", ~x.closed PROVE IdleReady(y)
  <2>1. turn.state = "Ready" /\ (~turn.closed \/ ~turn.open) BY <1>3, <1>t, <1>b
  <2>2. kept.state = "Ready" /\ ~kept.open BY <1>3, <1>k, <1>f, <1>r, <2>1 DEF QuietRow
  <2>3. seen.state = "Ready" /\ ~seen.open /\ seen.metrics.rp = 0 BY <1>3, <1>e, <2>2
  <2>4. redone.phase = "Idle" /\ redone.closed BY <1>3, <1>c, <1>s, <2>3 DEF QuietRow
  <2> QED BY <1>2, <1>3, <1>st, <1>i, <2>4 DEF IdleReady
<1> QED BY <1>y, <1>i, <1>1, <1>2, <1>3

LEMMA MetricsShown ==
    ASSUME NEW x \in Displays, NEW m \in MetricRecs, NEW r \in RowRecs, NEW hold \in BOOLEAN, Settled(x)
    PROVE  LET y == MetricsProcessed(x, m, r, hold) IN
           /\ y \in Displays /\ Settled(y) /\ y.metrics = m
           /\ x.metrics = m /\ m.rp = 0 => y.phase = x.phase /\ y.state = x.state /\ y.closed = x.closed
<1> DEFINE starts == x.metrics.rp = 0 /\ m.rp > 0
           ends   == x.metrics.rp > 0 /\ m.rp = 0
           e      == [x EXCEPT !.closed = FALSE, !.phase = "PP", !.open = TRUE, !.done = FALSE]
           begun  == [Ensure(e) EXCEPT !.state = "Active"]
           d      == [x EXCEPT !.done = FALSE, !.state = "Ready", !.phase = "Idle"]
           over   == NoCounters(Close(d))
           y == IF starts THEN begun ELSE IF ends /\ ~r.proc /\ ~x.open /\ ~hold THEN over ELSE x
           z == IF x.metrics.rp >= 0 /\ m.prompts > x.metrics.prompts
                THEN [y EXCEPT !.open = TRUE, !.phase = IF @ = "Idle" THEN "PP" ELSE @] ELSE y
<1>z. MetricsProcessed(x, m, r, hold) = [z EXCEPT !.metrics = m] BY DEF MetricsProcessed
<1>m. x.metrics.rp \in {-1, 0, 1} /\ m.rp \in {-1, 0, 1} /\ x.metrics.prompts \in Nat /\ m.prompts \in Nat
  BY DEF Displays, DisplayRecs, MetricRecs
<1>b. begun \in Displays /\ begun.phase = "PP"
  <2>1. e \in Displays /\ e.phase = "PP" BY DEF Displays, DisplayRecs
  <2> HIDE DEF e
  <2>2. Ensure(e) \in Displays /\ Ensure(e).phase = "PP" BY <2>1, EnsureShown
  <2> QED BY <2>2 DEF Displays, DisplayRecs
<1>o. ~x.open => over \in Displays /\ over.closed /\ ~over.open
  <2>1. d \in Displays /\ d.open = x.open BY DEF Displays, DisplayRecs
  <2> HIDE DEF d
  <2>2. Close(d) \in Displays /\ Close(d).closed /\ Close(d).open = x.open
    <3>1. d \in DisplayRecs BY <2>1 DEF Displays
    <3> QED BY <2>1, <3>1, CloseShown
  <2> QED BY <2>2, CountersShown
<1> HIDE DEF begun, over
<1>y. y \in Displays /\ Settled(y)
  <2>1. CASE starts BY <2>1, <1>b DEF Settled
  <2>2. CASE ~starts /\ ends /\ ~r.proc /\ ~x.open /\ ~hold BY <2>2, <1>o DEF Settled
  <2>3. CASE ~starts /\ ~(ends /\ ~r.proc /\ ~x.open /\ ~hold) BY <2>3
  <2> QED BY <2>1, <2>2, <2>3
<1>k. x.metrics = m /\ m.rp = 0 => z = x BY <1>m
<1> HIDE DEF y
<1>t. z \in Displays /\ Settled(z)
  <2> DEFINE p == IF y.phase = "Idle" THEN "PP" ELSE y.phase
  <2>1. p \in {"PP", "Tg"} BY <1>y DEF Displays, DisplayRecs
  <2>2. z = y \/ z = [y EXCEPT !.open = TRUE, !.phase = p] OBVIOUS
  <2> HIDE DEF p, z
  <2>3. LET w == [y EXCEPT !.open = TRUE, !.phase = p] IN w \in Displays /\ w.phase # "Idle"
    BY <1>y, <2>1 DEF Displays, DisplayRecs
  <2> QED BY <1>y, <2>2, <2>3 DEF Settled
<1> HIDE DEF z
<1>e. LET w == [z EXCEPT !.metrics = m] IN
      /\ w \in Displays /\ w.metrics = m /\ w.phase = z.phase /\ w.state = z.state /\ w.closed = z.closed /\ w.open = z.open
      /\ w.done = z.done /\ w.lpProg = z.lpProg /\ w.prog = z.prog
  BY <1>t DEF Displays, DisplayRecs
<1> QED BY <1>z, <1>k, <1>t, <1>e DEF Settled

-----------------------------------------------------------------------------
\* One complete poll takes the display one stage on, any other one keeps it.

LEMMA FoldAdvances ==
    ASSUME PollInd, NEW hold \in BOOLEAN, PollFolds(hold)
    PROVE  PollInd'
<1>0. PollTypes /\ MetricsAsked /\ PollIsQuiet /\ Stage(display, calm) BY DEF PollInd
<1>r. PICK r \in RowRecs : poll.slots = <<r>> BY <1>0 DEF PollTypes, PollFolds
<1>m. PICK m \in MetricRecs : poll.metrics = <<m>> BY <1>0 DEF PollTypes, PollFolds
<1> DEFINE x == SlotsProcessed(display, r, hold)
           stay == hold \/ r.proc
           complete == ~hold /\ ~(m = NoMetrics /\ ~IdleReady(display))
<1>f. /\ poll.slots[1] = r /\ poll.metrics[1] = m /\ poll.slots # <<>> /\ poll.metrics # <<>>
  BY <1>r, <1>m
<1>b. /\ display' = (IF m = NoMetrics THEN x ELSE MetricsProcessed(x, m, r, stay)) /\ poll' = NoPoll
      /\ calm' = IF ~EngineQuiet THEN 0 ELSE IF ~complete THEN calm ELSE IF calm < 5 THEN calm + 1 ELSE calm
      /\ UNCHANGED <<slotm, prompts, lines, events>>
  BY <1>f DEF PollFolds
<1>d. display \in Displays /\ calm \in 0 .. 5 BY <1>0 DEF PollTypes
<1>x. /\ x \in Displays /\ x.metrics = display.metrics /\ Settled(x)
      /\ QuietRow(r) =>
          /\ Settled(display) /\ IdleReady(display) => IdleReady(x)
          /\ display.metrics.rp = 0 => x.state = "Ready" /\ (x.phase = "Idle" \/ ~x.closed)
          /\ display.metrics.rp = 0 /\ ~hold /\ display.state = "Ready" /\ ~display.closed => IdleReady(x)
  BY <1>d, SlotsShown
<1>s. stay \in BOOLEAN BY DEF RowRecs
<1> HIDE DEF x, stay
<1>y. /\ display' \in Displays /\ Settled(display')
      /\ m = NoMetrics => display' = x
      /\ m # NoMetrics => display'.metrics = m
      /\ m # NoMetrics /\ display.metrics = m /\ m.rp = 0
           => display'.phase = x.phase /\ display'.state = x.state /\ display'.closed = x.closed
  <2>1. CASE m = NoMetrics BY <2>1, <1>b, <1>x
  <2>2. CASE m # NoMetrics
    <3>1. display' = MetricsProcessed(x, m, r, stay) BY <2>2, <1>b
    <3> QED BY <2>2, <3>1, <1>x, <1>s, MetricsShown
  <2> QED BY <2>1, <2>2
<1>c. calm' \in 0 .. 5 /\ (calm' = 0 \/ calm' = calm \/ (complete /\ calm' = calm + 1)) /\ (calm' >= 1 => EngineQuiet)
  BY <1>b, <1>d DEF PollTypes
<1>c2. (calm' = calm + 1 => complete) BY <1>b, <1>d
<1>1. PollTypes' BY <1>0, <1>b, <1>y, <1>c DEF PollTypes, NoPoll
<1>2. MetricsAsked' BY <1>b DEF MetricsAsked, NoPoll
<1>3. PollIsQuiet' BY <1>b, <1>c DEF PollIsQuiet, NoPoll, EngineQuiet
<1>4. Stage(display, calm)'
  <2>0. FreshMeter(display)' <=> display'.metrics = [rp |-> 0, prompts |-> prompts] BY <1>b DEF FreshMeter
  <2>1. CASE calm = 0
    <3>1. calm' \in {0, 1} BY <2>1, <1>c, <1>d
    <3> QED BY <3>1, <1>y DEF Stage
  <2>2. CASE calm >= 1
    <3>1. QuietRow(r) /\ m \in {NoMetrics, [rp |-> 0, prompts |-> prompts]} BY <2>2, <1>0, <1>f DEF PollIsQuiet
    <3>2. Settled(display) BY <2>2, <1>0 DEF Stage
    <3>3. m # NoMetrics => ~IdleReady(display) BY <1>0, <1>f DEF MetricsAsked
    <3>4. m # NoMetrics => m = [rp |-> 0, prompts |-> prompts] /\ m.rp = 0 BY <3>1
    <3>5. FreshMeter(display) => display.metrics.rp = 0 BY DEF FreshMeter
    \* what is shown idle stays so
    <3>6. IdleReady(display) => IdleReady(display') BY <1>x, <1>y, <3>1, <3>2, <3>3
    <3>7. FreshMeter(display) => display'.metrics = [rp |-> 0, prompts |-> prompts] BY <1>x, <1>y, <3>4 DEF FreshMeter
    <3>8. complete /\ ~IdleReady(display) => display'.metrics = [rp |-> 0, prompts |-> prompts] BY <1>y, <3>4
    <3>9. FreshMeter(display) => display'.phase = x.phase /\ display'.state = x.state /\ display'.closed = x.closed
      BY <1>y, <3>4 DEF FreshMeter
    <3>10. FreshMeter(display) => IdleReady(display') \/ (display'.state = "Ready" /\ ~display'.closed)
      BY <1>x, <3>1, <3>5, <3>9 DEF IdleReady
    <3>11. complete /\ FreshMeter(display) /\ display.state = "Ready" /\ ~display.closed => IdleReady(display')
      BY <1>x, <3>1, <3>5, <3>9 DEF IdleReady
    <3> HIDE DEF complete
    <3>c. calm \in 1 .. 5 /\ (calm' = 0 \/ calm' = calm \/ (complete /\ calm' = calm + 1)) BY <1>c, <1>d, <2>2
    <3>12. (calm' >= 2 => IdleReady(display') \/ display'.metrics = [rp |-> 0, prompts |-> prompts])
      BY <1>0, <3>6, <3>7, <3>8, <3>c DEF Stage
    <3>13. (calm' >= 3 => IdleReady(display') \/ (display'.metrics = [rp |-> 0, prompts |-> prompts]
                                                 /\ display'.state = "Ready" /\ ~display'.closed))
      BY <1>0, <3>6, <3>7, <3>10, <3>c DEF Stage
    <3>14. (calm' >= 4 => IdleReady(display'))
      BY <1>0, <3>6, <3>11, <3>c DEF Stage
    <3> QED BY <1>y, <2>0, <3>12, <3>13, <3>14 DEF Stage
  <2> QED BY <2>1, <2>2, <1>d
<1> QED BY <1>1, <1>2, <1>3, <1>4 DEF PollInd

\* Whatever else happens sets the count of polls back.
LEMMA Restless ==
    ASSUME PollTypes, calm' = 0, display' \in Displays, prompts' \in Nat,
           slotm' \in [phase : {"idle", "pp", "tg"}, task : Nat, decoded : Nat],
           lines' \in Seq(LineKinds) /\ Len(lines') <= MaxLines,
           poll' = poll, poll = NoPoll \/ display' = display, MetricsAsked
    PROVE  PollInd'
<1>1. PollTypes' BY DEF PollTypes
<1>2. MetricsAsked'
  <2>1. CASE poll = NoPoll BY <2>1 DEF MetricsAsked, NoPoll
  <2>2. CASE display' = display BY <2>2 DEF MetricsAsked, IdleReady
  <2> QED BY <2>1, <2>2
<1>3. PollIsQuiet' /\ Stage(display, calm)' BY DEF PollIsQuiet, Stage
<1> QED BY <1>1, <1>2, <1>3 DEF PollInd

LEMMA LogLines ==
    ASSUME lines \in Seq(LineKinds), NEW s \in Seq(LineKinds), Log(s), MaxLines \in Nat
    PROVE  lines' \in Seq(LineKinds) /\ Len(lines') <= MaxLines
<1>1. lines' = lines \o s /\ Len(lines) + Len(s) <= MaxLines BY DEF Log
<1>2. lines \o s \in Seq(LineKinds) /\ Len(lines \o s) = Len(lines) + Len(s) OBVIOUS
<1> QED BY <1>1, <1>2

LEMMA EngineRestless == ASSUME PollTypes, MetricsAsked, EngineStep, calm' = 0 PROVE PollInd'
<1>0. /\ slotm \in [phase : {"idle", "pp", "tg"}, task : Nat, decoded : Nat] /\ prompts \in Nat /\ lines \in Seq(LineKinds)
      /\ Len(lines) <= MaxLines /\ display \in Displays /\ MaxLines \in Nat
  BY PollMeterAssumption DEF PollTypes
<1>1. CASE TaskStarts
  <2>1. <<"new">> \in Seq(LineKinds) BY DEF LineKinds
  <2>2. lines' \in Seq(LineKinds) /\ Len(lines') <= MaxLines BY <1>0, <1>1, <2>1, LogLines DEF TaskStarts
  <2>3. slotm' \in [phase : {"idle", "pp", "tg"}, task : Nat, decoded : Nat] BY <1>0, <1>1 DEF TaskStarts
  <2> QED BY <1>0, <1>1, <2>2, <2>3, Restless DEF TaskStarts, Brain
<1>2. CASE PromptProgresses
  <2>1. PICK line \in {"cached", "pp", "belt", "force"} : Log(<<line>>) BY <1>2 DEF PromptProgresses
  <2>2. <<line>> \in Seq(LineKinds) BY DEF LineKinds
  <2>3. lines' \in Seq(LineKinds) /\ Len(lines') <= MaxLines BY <1>0, <2>1, <2>2, LogLines
  <2> QED BY <1>0, <1>2, <2>3, Restless DEF PromptProgresses
<1>3. CASE PromptEnds
  <2>1. <<"sampler">> \in Seq(LineKinds) BY DEF LineKinds
  <2>2. lines' \in Seq(LineKinds) /\ Len(lines') <= MaxLines BY <1>0, <1>3, <2>1, LogLines DEF PromptEnds
  <2>3. slotm' \in [phase : {"idle", "pp", "tg"}, task : Nat, decoded : Nat] /\ prompts' \in Nat BY <1>0, <1>3 DEF PromptEnds
  <2> QED BY <1>0, <1>3, <2>2, <2>3, Restless DEF PromptEnds, Brain
<1>4. CASE TokenDecoded
  <2>1. <<"gen">> \in Seq(LineKinds) /\ <<>> \in Seq(LineKinds) BY DEF LineKinds
  <2>2. lines' \in Seq(LineKinds) /\ Len(lines') <= MaxLines
    <3>1. CASE Log(<<"gen">>) BY <1>0, <2>1, <3>1, LogLines
    <3>2. CASE Log(<<>>) BY <1>0, <2>1, <3>2, LogLines
    <3> QED BY <1>4, <3>1, <3>2 DEF TokenDecoded
  <2>3. slotm' \in [phase : {"idle", "pp", "tg"}, task : Nat, decoded : Nat] BY <1>0, <1>4 DEF TokenDecoded
  <2> QED BY <1>0, <1>4, <2>2, <2>3, Restless DEF TokenDecoded, Brain
<1>5. CASE TaskEnds
  <2>1. <<"eval", "stop">> \in Seq(LineKinds) BY DEF LineKinds
  <2>2. lines' \in Seq(LineKinds) /\ Len(lines') <= MaxLines BY <1>0, <1>5, <2>1, LogLines DEF TaskEnds
  <2>3. slotm' \in [phase : {"idle", "pp", "tg"}, task : Nat, decoded : Nat] BY <1>0, <1>5 DEF TaskEnds
  <2> QED BY <1>0, <1>5, <2>2, <2>3, Restless DEF TaskEnds, Brain
<1> QED BY <1>1, <1>2, <1>3, <1>4, <1>5 DEF EngineStep

\* The rows and counters of a poll are read from the engine as it is.
LEMMA ReadsKeep == ASSUME PollInd, SlotsAnswer \/ MetricsAnswer \/ PollFails, UNCHANGED calm PROVE PollInd'
<1>0. PollTypes /\ MetricsAsked /\ PollIsQuiet /\ Stage(display, calm) BY DEF PollInd
<1>u. UNCHANGED <<slotm, prompts, lines, display, calm>> BY DEF SlotsAnswer, MetricsAnswer, PollFails
<1>s. Stage(display, calm)' BY <1>0, <1>u DEF Stage, Settled, IdleReady, FreshMeter
<1>t. /\ slotm.phase \in {"idle", "pp", "tg"} /\ slotm.task \in Nat /\ slotm.decoded \in Nat /\ prompts \in Nat
      /\ poll = [slots |-> poll.slots, metrics |-> poll.metrics]
      /\ poll.slots = <<>> \/ \E r \in RowRecs : poll.slots = <<r>>
      /\ poll.metrics = <<>> \/ \E m \in MetricRecs : poll.metrics = <<m>>
  BY <1>0 DEF PollTypes
<1>n. NoMetrics \in MetricRecs BY DEF NoMetrics, MetricRecs
<1>p. (\/ poll'.slots = <<>> \/ \E r \in RowRecs : poll'.slots = <<r>>)
      /\ (\/ poll'.metrics = <<>> \/ \E m \in MetricRecs : poll'.metrics = <<m>>)
      /\ poll' = [slots |-> poll'.slots, metrics |-> poll'.metrics] => PollTypes'
  BY <1>0, <1>u DEF PollTypes
<1>q. /\ poll'.metrics # <<>> /\ poll'.metrics[1] # NoMetrics => ~IdleReady(display)
      /\ calm >= 1 /\ poll'.slots # <<>> => QuietRow(poll'.slots[1])
      /\ calm >= 1 /\ poll'.metrics # <<>> => poll'.metrics[1] \in {NoMetrics, [rp |-> 0, prompts |-> prompts]}
      => MetricsAsked' /\ PollIsQuiet'
  BY <1>0, <1>u DEF MetricsAsked, PollIsQuiet, EngineQuiet, IdleReady
<1>e. calm >= 1 => slotm.phase = "idle" BY <1>0 DEF PollIsQuiet, EngineQuiet
<1>1. CASE SlotsAnswer
  <2>1. PICK eval \in BOOLEAN :
          /\ eval => slotm.phase = "pp"
          /\ poll' = [slots |-> <<[proc |-> slotm.phase # "idle", task |-> slotm.task, decoded |-> slotm.decoded, eval |-> eval]>>,
                      metrics |-> IF IdleReady(display) THEN <<NoMetrics>> ELSE poll.metrics]
    BY <1>1 DEF SlotsAnswer
  <2> DEFINE r == [proc |-> slotm.phase # "idle", task |-> slotm.task, decoded |-> slotm.decoded, eval |-> eval]
  <2>2. r \in RowRecs /\ (calm >= 1 => QuietRow(r)) BY <1>t, <1>e, <2>1 DEF RowRecs, QuietRow
  <2> HIDE DEF r
  <2>3. poll'.slots = <<r>> /\ poll' = [slots |-> poll'.slots, metrics |-> poll'.metrics]
        /\ poll'.metrics = IF IdleReady(display) THEN <<NoMetrics>> ELSE poll.metrics
    BY <2>1 DEF r
  <2>4. poll'.metrics = <<>> \/ \E m \in MetricRecs : poll'.metrics = <<m>> BY <2>3, <1>t, <1>n
  <2>5. PollTypes' BY <1>p, <2>2, <2>3, <2>4
  <2>6. poll'.slots[1] = r BY <2>3
  <2>7. poll'.metrics = poll.metrics \/ poll'.metrics[1] = NoMetrics BY <2>3
  <2>8. poll'.metrics # <<>> /\ poll'.metrics[1] # NoMetrics => ~IdleReady(display) BY <1>0, <2>7 DEF MetricsAsked
  <2>9. calm >= 1 /\ poll'.metrics # <<>> => poll'.metrics[1] \in {NoMetrics, [rp |-> 0, prompts |-> prompts]}
    BY <1>0, <2>7 DEF PollIsQuiet
  <2> QED BY <1>q, <1>s, <2>2, <2>5, <2>6, <2>8, <2>9 DEF PollInd
<1>2. CASE MetricsAnswer
  <2> DEFINE m == [rp |-> IF slotm.phase = "idle" THEN 0 ELSE 1, prompts |-> prompts]
  <2>1. poll' = [poll EXCEPT !.metrics = <<m>>] /\ ~IdleReady(display) BY <1>2 DEF MetricsAnswer
  <2>2. m \in MetricRecs /\ (calm >= 1 => m = [rp |-> 0, prompts |-> prompts]) BY <1>t, <1>e DEF MetricRecs
  <2> HIDE DEF m
  <2>3. poll'.slots = poll.slots /\ poll'.metrics = <<m>> /\ poll' = [slots |-> poll'.slots, metrics |-> poll'.metrics]
    BY <1>t, <2>1
  <2>4. PollTypes' BY <1>p, <1>t, <2>2, <2>3
  <2>5. poll'.metrics[1] = m BY <2>3
  <2>6. calm >= 1 /\ poll'.slots # <<>> => QuietRow(poll'.slots[1]) BY <1>0, <2>3 DEF PollIsQuiet
  <2> QED BY <1>q, <1>s, <2>1, <2>2, <2>4, <2>5, <2>6 DEF PollInd
<1>3. CASE PollFails
  <2>1. CASE poll' = NoPoll
    <3>1. poll'.slots = <<>> /\ poll'.metrics = <<>> /\ poll' = [slots |-> poll'.slots, metrics |-> poll'.metrics]
      BY <2>1 DEF NoPoll
    <3>2. PollTypes' BY <1>p, <3>1
    <3> QED BY <1>q, <1>s, <3>1, <3>2 DEF PollInd
  <2>2. CASE poll' = [poll EXCEPT !.metrics = <<NoMetrics>>]
    <3>1. /\ poll'.slots = poll.slots /\ poll'.metrics = <<NoMetrics>>
          /\ poll' = [slots |-> poll'.slots, metrics |-> poll'.metrics]
      BY <1>t, <2>2
    <3>2. PollTypes' BY <1>p, <1>t, <1>n, <3>1
    <3>3. poll'.metrics[1] = NoMetrics BY <3>1
    <3>4. calm >= 1 /\ poll'.slots # <<>> => QuietRow(poll'.slots[1]) BY <1>0, <3>1 DEF PollIsQuiet
    <3> QED BY <1>q, <1>s, <3>2, <3>3, <3>4 DEF PollInd
  <2> QED BY <1>3, <2>1, <2>2 DEF PollFails
<1> QED BY <1>1, <1>2, <1>3

LEMMA PollStarts == PollInit => PollInd
<1> SUFFICES ASSUME PollInit PROVE PollInd OBVIOUS
<1>1. NoMetrics \in MetricRecs BY DEF NoMetrics, MetricRecs
<1>2. display \in Displays BY <1>1 DEF PollInit, Displays, DisplayRecs
<1>3. lines \in Seq(LineKinds) /\ Len(lines) <= MaxLines BY PollMeterAssumption DEF PollInit
<1>4. poll = NoPoll /\ calm = 0 BY DEF PollInit
<1>5. slotm \in [phase : {"idle", "pp", "tg"}, task : Nat, decoded : Nat] /\ prompts \in Nat BY DEF PollInit
<1>6. PollTypes BY <1>2, <1>3, <1>4, <1>5 DEF PollTypes, NoPoll
<1>7. MetricsAsked /\ PollIsQuiet /\ Stage(display, calm) BY <1>4 DEF MetricsAsked, PollIsQuiet, Stage, NoPoll
<1> QED BY <1>6, <1>7 DEF PollInd

\* The display of the polling brain (fusion/brain.rs): whatever lines, rows,
\* counters and benchmark commands arrived before, in whatever order, and
\* whatever of them was lost, four complete polls of a silent engine show it
\* idle with no request open, for any number of requests, tokens and faults.
THEOREM PollKept == PollSpec => []PollInv
<1>1. PollInd /\ [PollNext]_pollVars => PollInd'
  <2> SUFFICES ASSUME PollInd, [PollNext]_pollVars PROVE PollInd' OBVIOUS
  <2>0. PollTypes /\ MetricsAsked BY DEF PollInd
  <2>1. CASE UNCHANGED pollVars
    BY <2>1 DEF pollVars, PollInd, PollTypes, MetricsAsked, PollIsQuiet, Stage, EngineQuiet, IdleReady, Settled, FreshMeter
  <2>2. CASE EngineStep /\ calm' = 0 BY <2>0, <2>2, EngineRestless
  <2>3. CASE LineLost /\ calm' = 0
    <3>1. lines' = Tail(lines) /\ lines # <<>> /\ UNCHANGED <<slotm, prompts, display, poll>> BY <2>3 DEF LineLost
    <3>2. lines' \in Seq(LineKinds) /\ Len(lines') <= MaxLines BY <2>0, <3>1, PollMeterAssumption DEF PollTypes
    <3> QED BY <2>0, <2>3, <3>1, <3>2, Restless DEF PollTypes
  <2>4. CASE HandleLine /\ calm' = 0
    <3>1. lines' = Tail(lines) /\ lines # <<>> /\ poll = NoPoll /\ display' = Handled(display, Head(lines))
          /\ UNCHANGED <<slotm, prompts, poll>>
      BY <2>4 DEF HandleLine
    <3>2. lines' \in Seq(LineKinds) /\ Len(lines') <= MaxLines /\ Head(lines) \in LineKinds
      BY <2>0, <3>1, PollMeterAssumption DEF PollTypes
    <3>3. slotm.task \in Nat /\ display \in Displays BY <2>0 DEF PollTypes
    <3>4. display' \in Displays BY <3>1, <3>2, <3>3, LineShown
    <3> QED BY <2>0, <2>4, <3>1, <3>2, <3>4, Restless DEF PollTypes
  <2>5. CASE BenchFreeze /\ calm' = 0
    <3>1. display' \in Displays BY <2>0, <2>5, FinalizeShown DEF BenchFreeze, PollTypes
    <3> QED BY <2>0, <2>5, <3>1, Restless DEF BenchFreeze, PollTypes
  <2>6. CASE BenchReset /\ calm' = 0
    <3> DEFINE n == NoCounters(display)
    <3>1. n \in Displays /\ display.prev \in Nat BY <2>0, CountersShown DEF PollTypes, Displays, DisplayRecs
    <3>2. display' = [n EXCEPT !.phase = "PP", !.lpPhase = "PP", !.open = FALSE, !.done = FALSE, !.clock = FALSE,
                !.closed = FALSE, !.lpGen = FALSE, !.was = FALSE, !.base = display.prev]
      BY <2>6 DEF BenchReset
    <3> HIDE DEF n
    <3>3. display' \in Displays BY <3>1, <3>2 DEF Displays, DisplayRecs
    <3> QED BY <2>0, <2>6, <3>3, Restless DEF BenchReset, PollTypes
  <2>7. CASE (SlotsAnswer \/ MetricsAnswer \/ PollFails) /\ UNCHANGED calm BY <2>7, ReadsKeep
  <2>8. CASE \E hold \in BOOLEAN : PollFolds(hold) BY <2>8, FoldAdvances
  <2> QED BY <2>1, <2>2, <2>3, <2>4, <2>5, <2>6, <2>7, <2>8 DEF PollNext
<1>2. PollInd => PollInv
  <2> SUFFICES ASSUME PollInd PROVE PollInv OBVIOUS
  <2>1. display \in Displays /\ calm \in 0 .. 5 /\ Stage(display, calm) /\ Len(lines) <= MaxLines BY DEF PollInd, PollTypes
  <2>2. PollTypeOK BY <2>1 DEF PollTypeOK, Displays, DisplayRecs
  <2>3. QuietEngineIsShownIdle
    <3> SUFFICES ASSUME calm >= 4 PROVE IdleReady(display) /\ ~display.clock BY DEF QuietEngineIsShownIdle
    <3>1. IdleReady(display) /\ Settled(display) BY <2>1 DEF Stage
    <3> QED BY <2>1, <3>1 DEF IdleReady, Settled, Displays
  <2> QED BY <2>2, <2>3 DEF PollInv
<1> QED BY <1>1, <1>2, PollStarts, PTL DEF PollSpec

-----------------------------------------------------------------------------
(* The fit scans: the library scan and the single scans over one file *)

ScanEntries == {e \in [has : BOOLEAN, pts : SUBSET FitLabels, err : BOOLEAN, skip : BOOLEAN] : e.skip => e.pts = {}}
ScanParts == [FitModels -> [k : ScanEntries, p : ScanEntries]]

\* a partition of adapter a: a pair that is not scanned has no points
PartsOf(a) == {v \in ScanParts : \A m \in FitModels :
                    <<a, m>> \in SkipPairs => v[m].k.pts = {} /\ v[m].p.pts = {}}
ScanFiles == {f \in [FitAdapters -> ScanParts] : \A a \in FitAdapters : f[a] \in PartsOf(a)}
LibScanRecs == [pc : {"idle", "begun", "list", "spawned", "collect"}, a : FitAdapters, force : BOOLEAN,
                stop : BOOLEAN, installed : BOOLEAN]
TaskRecs == {t \in [pc : {"none", "wait", "probe", "persist", "done", "gone"}, found : ScanEntries,
                    pts : SUBSET FitLabels, err : BOOLEAN, tried : SUBSET FitLabels] :
                t.found.skip \/ t.pc = "gone" => t.tried = {}}
SingleRecs == [pc : {"idle", "probe", "lock", "store"}, a : FitAdapters,
               m : FitModels \cup {CHOOSE m \in FitModels : TRUE},
               pts : SUBSET FitLabels, err : BOOLEAN, todo : SUBSET FitLabels, read : [FitAdapters -> ScanParts]]

ScanTypes ==
    /\ partitions \in ScanFiles /\ libScan \in LibScanRecs
    /\ sharedMap \in PartsOf(libScan.a) /\ finalResults \in PartsOf(libScan.a)
    /\ scanTask \in [FitModels -> TaskRecs] /\ singleScan \in [ScanIds -> SingleRecs]
    /\ persistLock \in ScanIds \cup {0}
    /\ knownBefore \in [FitModels -> SUBSET FitLabels] /\ storedMeanwhile \in BOOLEAN
    /\ lastStored \in [FitAdapters -> [FitModels -> ScanEntries]]

\* A library scan has its maps and its tasks to itself: none outlives it, and
\* nothing is collected before the scan collects.
TasksOfTheScan ==
    /\ libScan.pc = "idle" => sharedMap = EmptyPart /\ finalResults = EmptyPart
    /\ \A m \in FitModels : /\ scanTask[m].pc # "none" => libScan.pc \in {"spawned", "collect"}
                            /\ libScan.pc # "collect" /\ scanTask[m].pc = "none" => scanTask[m].tried = {}

\* what file f tells of a stored result is that result
HoldsStored(f) == \A a \in FitAdapters, m \in FitModels :
                      lastStored[a][m].has => FindScan(f[a], m) = lastStored[a][m]

\* A single scan that is about to write holds the lock, and its copy of the
\* file has every result that was stored before.
SingleAtWork(s) ==
    /\ singleScan[s].pc # "idle" => singleScan[s].m \in FitModels /\ <<singleScan[s].a, singleScan[s].m>> \notin SkipPairs
    /\ singleScan[s].pc = "store" => persistLock = s /\ singleScan[s].read \in ScanFiles /\ HoldsStored(singleScan[s].read)

\* A task that works or is done has at least the points that were known.
TaskKnows(m) ==
    scanTask[m].pc \in {"probe", "persist", "done"} =>
        /\ knownBefore[m] \subseteq TaskResult(m).pts
        /\ <<libScan.a, m>> \in SkipPairs => scanTask[m].found.skip

\* so does the map of the scan
MapKnows == libScan.pc \in {"spawned", "collect"} =>
                \A m \in FitModels : knownBefore[m] \subseteq FindScan(sharedMap, m).pts

ScanInd == /\ ScanTypes /\ TasksOfTheScan
           /\ \A s \in ScanIds : SingleAtWork(s)
           /\ \A m \in FitModels : TaskKnows(m)
           /\ MapKnows
           /\ SingleResultsStay /\ KnownPointsStay /\ ResultsAreCollected

LEMMA FirstLabelIsOne ==
    ASSUME NEW S \in SUBSET FitLabels, S # {}
    PROVE  FirstLabel(S) \in S
<1>1. S \in SUBSET Nat BY FitScanBounds
<1>2. PICK x \in S : \A y \in S : ~(<<y, x>> \in OpToRel(<, Nat)) BY <1>1, NatLessThanWellFounded, WFMin
<1>3. \A y \in S : ~(y < x)
  <2> SUFFICES ASSUME NEW y \in S, y < x PROVE FALSE OBVIOUS
  <2>1. <<y, x>> \in Nat \X Nat /\ <<y, x>>[1] < <<y, x>>[2] BY <1>1
  <2> QED BY <1>2, <2>1, Zenon DEF OpToRel
<1>4. \A y \in S : x <= y BY <1>1, <1>3
<1> QED BY <1>4, Zenon DEF FirstLabel

LEMMA NoScanIsEntry == NoScan \in ScanEntries /\ SkippedEntry \in ScanEntries
BY DEF NoScan, SkippedEntry, ScanEntries

LEMMA EmptyPartIsPart ==
    ASSUME NEW a PROVE EmptyPart \in PartsOf(a) /\ \A m \in FitModels : FindScan(EmptyPart, m) = NoScan
<1>1. \A m \in FitModels : EmptyPart[m] = [k |-> NoScan, p |-> NoScan] BY DEF EmptyPart
<1>2. EmptyPart \in ScanParts BY NoScanIsEntry DEF EmptyPart, ScanParts
<1>3. NoScan.pts = {} BY DEF NoScan
<1> QED BY <1>1, <1>2, <1>3 DEF PartsOf, FindScan

\* what a lookup finds is an entry, and of a pair that is not scanned it has
\* no points
LEMMA FindIsEntry ==
    ASSUME NEW a, NEW v \in PartsOf(a), NEW m \in FitModels
    PROVE  /\ FindScan(v, m) \in ScanEntries
           /\ <<a, m>> \in SkipPairs => FindScan(v, m).pts = {}
           /\ FindScan(v, m).skip => FindScan(v, m).pts = {}
BY DEF PartsOf, ScanParts, FindScan, ScanEntries

LEMMA InsertIsFound ==
    ASSUME NEW a, NEW v \in PartsOf(a), NEW m \in FitModels, NEW e \in ScanEntries, e.has,
           <<a, m>> \in SkipPairs => e.pts = {}
    PROVE  /\ InsertResult(v, m, e) \in PartsOf(a)
           /\ FindScan(InsertResult(v, m, e), m) = e
           /\ \A n \in FitModels \ {m} : FindScan(InsertResult(v, m, e), n) = FindScan(v, n)
<1> DEFINE w == InsertResult(v, m, e)
<1>1. /\ w \in ScanParts /\ w[m] = [k |-> e, p |-> NoScan]
      /\ \A n \in FitModels \ {m} : w[n] = v[n]
  BY NoScanIsEntry DEF InsertResult, PartsOf, ScanParts
<1>2. NoScan.pts = {} BY DEF NoScan
<1> HIDE DEF w
<1>3. w \in PartsOf(a) BY <1>1, <1>2 DEF PartsOf
<1>4. FindScan(w, m) = e /\ \A n \in FitModels \ {m} : FindScan(w, n) = FindScan(v, n)
  BY <1>1 DEF FindScan
<1> QED BY <1>3, <1>4 DEF w

LEMMA TaskResultIsEntry ==
    ASSUME NEW m \in FitModels, scanTask[m] \in TaskRecs
    PROVE  TaskResult(m) \in ScanEntries /\ TaskResult(m).has
<1>1. scanTask[m].pts \in SUBSET FitLabels /\ scanTask[m].err \in BOOLEAN BY DEF TaskRecs
<1> QED BY <1>1 DEF TaskResult, SkippedEntry, ScanEntry, ScanEntries

LEMMA ScanStarts == ScanInit => ScanInd
<1> SUFFICES ASSUME ScanInit PROVE ScanInd OBVIOUS
<1> USE DEF ScanInit
<1>0. NoScan.has = FALSE BY DEF NoScan
<1>1. (CHOOSE a \in FitAdapters : TRUE) \in FitAdapters BY FitScanBounds
<1>2. \A a : EmptyPart \in PartsOf(a) /\ EmptyPart \in ScanParts BY EmptyPartIsPart DEF PartsOf
<1>3. partitions \in ScanFiles BY <1>2 DEF ScanFiles
<1>4. libScan \in LibScanRecs /\ libScan.pc = "idle" BY <1>1 DEF NoLib, LibScanRecs
<1>5. /\ scanTask \in [FitModels -> TaskRecs]
      /\ \A m \in FitModels : scanTask[m].pc = "none" /\ scanTask[m].tried = {}
  BY NoScanIsEntry DEF NoTask, TaskRecs
<1>6. singleScan \in [ScanIds -> SingleRecs] /\ \A s \in ScanIds : singleScan[s].pc = "idle"
  BY <1>1, <1>2 DEF NoSingle, SingleRecs
<1>7. ScanTypes BY <1>2, <1>3, <1>4, <1>5, <1>6, NoScanIsEntry DEF ScanTypes
<1>8. TasksOfTheScan BY <1>4, <1>5 DEF TasksOfTheScan
<1>9. /\ \A s \in ScanIds : SingleAtWork(s)
      /\ \A m \in FitModels : TaskKnows(m)
      /\ MapKnows /\ KnownPointsStay /\ ResultsAreCollected
  BY <1>4, <1>5, <1>6 DEF SingleAtWork, TaskKnows, MapKnows, KnownPointsStay, ResultsAreCollected
<1>10. SingleResultsStay BY <1>0 DEF SingleResultsStay
<1> QED BY <1>7, <1>8, <1>9, <1>10 DEF ScanInd

LEMMA LibStartKeeps ==
    ASSUME ScanInd, NEW a \in FitAdapters, NEW force \in BOOLEAN, LibStart(a, force) PROVE ScanInd'
<1> USE DEF LibStart, scanHistory
<1>0. /\ libScan' = [pc |-> "begun", a |-> a, force |-> force, stop |-> FALSE, installed |-> FALSE]
      /\ libScan.pc = "idle"
  BY DEF NoLib
<1>1. sharedMap = EmptyPart /\ finalResults = EmptyPart BY <1>0 DEF ScanInd, TasksOfTheScan
<1>e. EmptyPart \in PartsOf(a) BY EmptyPartIsPart
<1>l. libScan' \in LibScanRecs /\ libScan'.a = a
  <2> HIDE DEF LibStart
  <2> QED BY <1>0 DEF LibScanRecs
<1>2. ScanTypes' BY <1>e, <1>l, <1>1 DEF ScanInd, ScanTypes
<1>3. TasksOfTheScan' BY <1>0 DEF ScanInd, TasksOfTheScan
<1>4. \A s \in ScanIds : SingleAtWork(s)' BY DEF ScanInd, SingleAtWork, HoldsStored
<1>5. \A m \in FitModels : TaskKnows(m)' BY <1>0 DEF ScanInd, TasksOfTheScan, TaskKnows
<1>6. MapKnows' /\ KnownPointsStay' /\ ResultsAreCollected' BY <1>0 DEF MapKnows, KnownPointsStay, ResultsAreCollected
<1>7. SingleResultsStay' BY DEF ScanInd, SingleResultsStay
<1> QED BY <1>2, <1>3, <1>4, <1>5, <1>6, <1>7 DEF ScanInd

LEMMA LibInstallKeeps ==
    ASSUME ScanInd, LibInstall PROVE ScanInd'
<1> USE DEF LibInstall, scanBounds
<1>t. ScanTypes BY DEF ScanInd
<1>a. libScan.a \in FitAdapters BY <1>t DEF ScanTypes, LibScanRecs
<1>0. libScan' \in LibScanRecs /\ libScan'.pc = "list" /\ libScan'.a = libScan.a
  BY <1>t DEF ScanTypes, LibScanRecs
<1>1. /\ partitions' \in ScanFiles /\ lastStored' \in [FitAdapters -> [FitModels -> ScanEntries]]
      /\ \A a \in FitAdapters, m \in FitModels : lastStored'[a][m].has =>
            lastStored'[a][m] = lastStored[a][m] /\ partitions'[a] = partitions[a]
  <2>1. CASE ~libScan.force BY <2>1, <1>t DEF ScanTypes
  <2>2. CASE libScan.force
    <3>1. partitions' \in ScanFiles /\ \A b \in FitAdapters \ {libScan.a} : partitions'[b] = partitions[b]
      <4>1. EmptyPart \in PartsOf(libScan.a) BY EmptyPartIsPart
      <4>2. partitions \in ScanFiles /\ partitions' = [partitions EXCEPT ![libScan.a] = EmptyPart]
        BY <2>2, <1>t DEF ScanTypes
      <4> HIDE DEF LibInstall
      <4> QED BY <4>1, <4>2, <1>a DEF ScanFiles, PartsOf
    <3>2. /\ lastStored' \in [FitAdapters -> [FitModels -> ScanEntries]]
          /\ \A m \in FitModels : ~lastStored'[libScan.a][m].has
          /\ \A b \in FitAdapters \ {libScan.a} : lastStored'[b] = lastStored[b]
      BY <2>2, <1>t, <1>a, NoScanIsEntry DEF ScanTypes, NoScan
    <3> QED BY <3>1, <3>2
  <2> QED BY <2>1, <2>2
<1>2. ScanTypes' BY <1>0, <1>1, <1>t DEF ScanTypes
<1>3. TasksOfTheScan' BY <1>0 DEF ScanInd, TasksOfTheScan
<1>4. \A s \in ScanIds : SingleAtWork(s)' BY <1>1 DEF ScanInd, SingleAtWork, HoldsStored
<1>5. \A m \in FitModels : TaskKnows(m)' BY <1>0 DEF ScanInd, TasksOfTheScan, TaskKnows
<1>6. MapKnows' /\ KnownPointsStay' /\ ResultsAreCollected' BY <1>0 DEF MapKnows, KnownPointsStay, ResultsAreCollected
<1>7. SingleResultsStay' BY <1>1 DEF ScanInd, SingleResultsStay
<1> QED BY <1>2, <1>3, <1>4, <1>5, <1>6, <1>7 DEF ScanInd

LEMMA LibStopKeeps ==
    ASSUME ScanInd, LibStop PROVE ScanInd'
<1> USE DEF LibStop, scanBounds, scanHistory
<1>t. ScanTypes BY DEF ScanInd
<1>0. libScan' \in LibScanRecs /\ libScan'.pc = libScan.pc /\ libScan'.a = libScan.a
  BY <1>t DEF ScanTypes, LibScanRecs
<1>2. ScanTypes' BY <1>0, <1>t DEF ScanTypes
<1>3. TasksOfTheScan' BY <1>0 DEF ScanInd, TasksOfTheScan
<1>4. \A s \in ScanIds : SingleAtWork(s)' BY DEF ScanInd, SingleAtWork, HoldsStored
<1>5. \A m \in FitModels : TaskKnows(m)' BY <1>0 DEF ScanInd, TaskKnows, TaskResult
<1>6. MapKnows' /\ KnownPointsStay' /\ ResultsAreCollected'
  BY <1>0 DEF ScanInd, MapKnows, KnownPointsStay, ResultsAreCollected
<1>7. SingleResultsStay' BY DEF ScanInd, SingleResultsStay
<1> QED BY <1>2, <1>3, <1>4, <1>5, <1>6, <1>7 DEF ScanInd

LEMMA LibListKeeps ==
    ASSUME ScanInd, LibList PROVE ScanInd'
<1> USE DEF LibList, scanBounds
<1>t. ScanTypes BY DEF ScanInd
<1>0. libScan' \in LibScanRecs /\ libScan'.pc = "spawned" /\ libScan'.a = libScan.a /\ libScan.a \in FitAdapters
  BY <1>t DEF ScanTypes, LibScanRecs
<1> DEFINE part0 == partitions[libScan.a]
<1>p. part0 \in PartsOf(libScan.a) /\ part0 \in ScanParts BY <1>t, <1>0 DEF ScanTypes, ScanFiles, PartsOf
<1>q. \A m \in FitModels : FindScan(part0, m) \in ScanEntries /\ (<<libScan.a, m>> \in SkipPairs => FindScan(part0, m).pts = {})
  <2> HIDE DEF part0
  <2> QED BY <1>p, FindIsEntry
<1>1. \A m \in FitModels :
        sharedMap'[m] = part0[m] \/ (sharedMap'[m] = [k |-> FindScan(part0, m), p |-> NoScan] /\ FindScan(part0, m).has)
  OBVIOUS
<1>2. /\ scanTask' \in [FitModels -> TaskRecs]
      /\ \A m \in FitModels : scanTask'[m].pc \in {"none", "wait"} /\ scanTask'[m].tried = {}
  BY NoScanIsEntry DEF NoTask, TaskRecs
<1>3. knownBefore' \in [FitModels -> SUBSET FitLabels] /\ \A m \in FitModels : knownBefore'[m] = FindScan(part0, m).pts
  BY <1>q DEF ScanEntries
<1>4. sharedMap' \in PartsOf(libScan.a) /\ \A m \in FitModels : FindScan(sharedMap, m)' = FindScan(part0, m)
  <2>1. sharedMap' = [m \in FitModels |-> sharedMap'[m]] OBVIOUS
  <2> HIDE DEF part0, LibList
  <2>2. sharedMap' \in ScanParts
    <3>1. ASSUME NEW m \in FitModels PROVE sharedMap'[m] \in [k : ScanEntries, p : ScanEntries]
      <4>1. part0[m] \in [k : ScanEntries, p : ScanEntries] BY <1>p DEF ScanParts
      <4>2. [k |-> FindScan(part0, m), p |-> NoScan] \in [k : ScanEntries, p : ScanEntries] BY <1>q, NoScanIsEntry
      <4> QED BY <4>1, <4>2, <1>1
    <3> QED BY <2>1, <3>1 DEF ScanParts
  <2>3. NoScan.pts = {} BY DEF NoScan
  <2>4. ASSUME NEW m \in FitModels, <<libScan.a, m>> \in SkipPairs
        PROVE  sharedMap'[m].k.pts = {} /\ sharedMap'[m].p.pts = {}
    <3>1. part0[m].k.pts = {} /\ part0[m].p.pts = {} BY <1>p, <2>4 DEF PartsOf
    <3>2. FindScan(part0, m).pts = {} BY <1>q, <2>4
    <3>3. CASE sharedMap'[m] = part0[m] BY <3>3, <3>1
    <3>4. CASE sharedMap'[m] = [k |-> FindScan(part0, m), p |-> NoScan] BY <3>4, <3>2, <2>3
    <3> QED BY <3>3, <3>4, <1>1
  <2>5. ASSUME NEW m \in FitModels PROVE FindScan(sharedMap, m)' = FindScan(part0, m)
    <3>1. CASE sharedMap'[m] = part0[m] BY <3>1 DEF FindScan
    <3>2. CASE sharedMap'[m] = [k |-> FindScan(part0, m), p |-> NoScan] /\ FindScan(part0, m).has
      <4> DEFINE e == FindScan(part0, m)
      <4>1. sharedMap'[m].k = e /\ e.has BY <3>2
      <4> HIDE DEF e
      <4>2. FindScan(sharedMap, m)' = e BY <4>1 DEF FindScan
      <4> QED BY <4>2 DEF e
    <3> QED BY <3>1, <3>2, <1>1
  <2>6. sharedMap' \in PartsOf(libScan.a) BY <2>2, <2>4 DEF PartsOf
  <2> QED BY <2>5, <2>6
<1>5. ScanTypes' BY <1>0, <1>2, <1>3, <1>4, <1>t DEF ScanTypes
<1>6. TasksOfTheScan' BY <1>0, <1>2 DEF TasksOfTheScan
<1>7. \A s \in ScanIds : SingleAtWork(s)' BY DEF ScanInd, SingleAtWork, HoldsStored
<1>8. \A m \in FitModels : TaskKnows(m)' BY <1>2 DEF TaskKnows
<1>9. MapKnows' BY <1>3, <1>4 DEF MapKnows
<1>10. KnownPointsStay' BY <1>0, <1>3 DEF KnownPointsStay
<1>11. ResultsAreCollected' BY <1>0 DEF ResultsAreCollected
<1>12. SingleResultsStay' BY DEF ScanInd, SingleResultsStay
<1> QED BY <1>5, <1>6, <1>7, <1>8, <1>9, <1>10, <1>11, <1>12 DEF ScanInd

LEMMA LibCloneKeeps ==
    ASSUME ScanInd, LibClone PROVE ScanInd'
<1> USE DEF LibClone, scanBounds, scanHistory
<1>t. ScanTypes BY DEF ScanInd
<1>0. /\ libScan' \in LibScanRecs /\ libScan'.pc = "collect" /\ libScan'.a = libScan.a
      /\ libScan.pc = "spawned" /\ finalResults' = sharedMap
  BY <1>t DEF ScanTypes, LibScanRecs
<1>2. ScanTypes' BY <1>0, <1>t DEF ScanTypes
<1>3. TasksOfTheScan' BY <1>0 DEF TasksOfTheScan
<1>4. \A s \in ScanIds : SingleAtWork(s)' BY DEF ScanInd, SingleAtWork, HoldsStored
<1>5. \A m \in FitModels : TaskKnows(m)' BY <1>0 DEF ScanInd, TaskKnows, TaskResult
<1>6. MapKnows' BY <1>0 DEF ScanInd, MapKnows
<1>7. KnownPointsStay' BY <1>0 DEF ScanInd, MapKnows, KnownPointsStay, FindScan
<1>8. ResultsAreCollected' BY <1>0 DEF ScanInd, TasksOfTheScan, ResultsAreCollected
<1>9. SingleResultsStay' BY DEF ScanInd, SingleResultsStay
<1> QED BY <1>2, <1>3, <1>4, <1>5, <1>6, <1>7, <1>8, <1>9 DEF ScanInd

\* a step of one task leaves the others
LEMMA OtherTasks ==
    ASSUME ScanTypes, NEW m \in FitModels, NEW t \in TaskRecs, scanTask' = [scanTask EXCEPT ![m] = t]
    PROVE  /\ scanTask' \in [FitModels -> TaskRecs] /\ scanTask'[m] = t
           /\ \A n \in FitModels \ {m} : scanTask'[n] = scanTask[n] /\ TaskResult(n)' = TaskResult(n)
BY DEF ScanTypes, TaskResult

\* a task that starts, or works on, changes nothing but itself
LEMMA TaskMoves ==
    ASSUME ScanInd, NEW m \in FitModels, NEW t \in TaskRecs, scanTask' = [scanTask EXCEPT ![m] = t],
           UNCHANGED <<partitions, libScan, sharedMap, finalResults, singleScan, persistLock, scanHistory>>,
           scanTask[m].pc # "none", t.pc # "none", TaskKnows(m)'
    PROVE  ScanInd'
<1> USE DEF scanHistory
<1>1. /\ scanTask' \in [FitModels -> TaskRecs] /\ scanTask'[m] = t
      /\ \A n \in FitModels \ {m} : scanTask'[n] = scanTask[n] /\ TaskResult(n)' = TaskResult(n)
  BY OtherTasks DEF ScanInd
<1>2. ScanTypes' BY <1>1 DEF ScanInd, ScanTypes
<1>3. TasksOfTheScan' BY <1>1 DEF ScanInd, TasksOfTheScan
<1>4. \A s \in ScanIds : SingleAtWork(s)' BY DEF ScanInd, SingleAtWork, HoldsStored
<1>5. \A n \in FitModels : TaskKnows(n)' BY <1>1 DEF ScanInd, TaskKnows
<1>6. MapKnows' BY DEF ScanInd, MapKnows
<1>7. KnownPointsStay' BY DEF ScanInd, KnownPointsStay
<1>8. ResultsAreCollected' BY <1>1 DEF ScanInd, ResultsAreCollected
<1>9. SingleResultsStay' BY DEF ScanInd, SingleResultsStay
<1> QED BY <1>2, <1>3, <1>4, <1>5, <1>6, <1>7, <1>8, <1>9 DEF ScanInd

LEMMA TaskStartKeeps ==
    ASSUME ScanInd, NEW m \in FitModels, TaskStart(m) PROVE ScanInd'
<1> USE DEF TaskStart, scanBounds
<1>t. ScanTypes BY DEF ScanInd
<1>0. libScan.pc \in {"spawned", "collect"} /\ knownBefore[m] \subseteq FindScan(sharedMap, m).pts
  BY DEF ScanInd, TasksOfTheScan, MapKnows
<1> DEFINE e == FindScan(sharedMap, m)
<1>e. /\ e \in ScanEntries /\ e.pts \in SUBSET FitLabels /\ (e.skip => e.pts = {})
      /\ (<<libScan.a, m>> \in SkipPairs => e.pts = {})
  BY <1>t, FindIsEntry DEF ScanTypes, ScanEntries
<1> DEFINE t == IF libScan.stop THEN [NoTask EXCEPT !.pc = "gone"]
                ELSE IF <<libScan.a, m>> \in SkipPairs THEN [NoTask EXCEPT !.pc = "persist", !.found = SkippedEntry]
                ELSE [pc |-> "probe", found |-> e, pts |-> e.pts, err |-> FALSE, tried |-> {}]
<1>1. scanTask' = [scanTask EXCEPT ![m] = t] OBVIOUS
<1>2. t \in TaskRecs /\ t.pc # "none"
  <2>1. CASE libScan.stop BY <2>1, NoScanIsEntry DEF NoTask, TaskRecs
  <2>2. CASE ~libScan.stop /\ <<libScan.a, m>> \in SkipPairs BY <2>2, NoScanIsEntry DEF NoTask, TaskRecs
  <2>3. CASE ~libScan.stop /\ <<libScan.a, m>> \notin SkipPairs
    <3> HIDE DEF e
    <3> QED BY <2>3, <1>e DEF TaskRecs
  <2> QED BY <2>1, <2>2, <2>3
<1>3. TaskKnows(m)'
  <2>0. scanTask'[m] = t BY <1>1, <1>t DEF ScanTypes
  <2>k. knownBefore'[m] = knownBefore[m] /\ libScan' = libScan BY DEF scanHistory
  <2>1. CASE libScan.stop BY <2>0, <2>1 DEF TaskKnows, NoTask
  <2>2. CASE ~libScan.stop /\ <<libScan.a, m>> \in SkipPairs
    <3>1. t.found = SkippedEntry /\ SkippedEntry.skip BY <2>2 DEF NoTask, SkippedEntry
    <3>2. knownBefore[m] = {} BY <2>2, <1>e, <1>0
    <3> HIDE DEF t, TaskStart
    <3> QED BY <2>0, <2>k, <3>1, <3>2 DEF TaskKnows
  <2>3. CASE ~libScan.stop /\ <<libScan.a, m>> \notin SkipPairs
    <3>1. t.found = e /\ t.pts = e.pts BY <2>3
    <3> HIDE DEF t, TaskStart
    <3>2. TaskResult(m)' = IF e.skip THEN SkippedEntry ELSE ScanEntry(e.pts, t.err) BY <2>0, <3>1 DEF TaskResult
    <3>3. knownBefore[m] \subseteq e.pts BY <1>0
    <3> HIDE DEF e
    <3>4. knownBefore[m] \subseteq TaskResult(m)'.pts BY <3>2, <3>3, <1>e DEF ScanEntry
    <3> QED BY <2>3, <2>k, <3>4 DEF TaskKnows
  <2> QED BY <2>1, <2>2, <2>3
<1>4. scanTask[m].pc # "none" OBVIOUS
<1>5. UNCHANGED <<partitions, libScan, sharedMap, finalResults, singleScan, persistLock, scanHistory>> OBVIOUS
<1> HIDE DEF t, TaskStart
<1> QED BY <1>1, <1>2, <1>3, <1>4, <1>5, TaskMoves

LEMMA TaskProbeKeeps ==
    ASSUME ScanInd, NEW m \in FitModels, TaskProbe(m) PROVE ScanInd'
<1>t. ScanTypes /\ scanTask[m] \in TaskRecs BY DEF ScanInd, ScanTypes
<1> DEFINE left == MissingLabels(scanTask[m].found) \ scanTask[m].tried
<1>l. left \in SUBSET FitLabels BY DEF MissingLabels
<1>s. scanTask[m].found.skip => left = {} BY DEF MissingLabels
<1>u. /\ UNCHANGED <<partitions, libScan, sharedMap, finalResults, singleScan, persistLock, scanHistory>>
      /\ scanTask[m].pc = "probe"
  BY DEF TaskProbe
<1>k. /\ knownBefore[m] \subseteq TaskResult(m).pts
      /\ <<libScan.a, m>> \in SkipPairs => scanTask[m].found.skip
  BY <1>u DEF ScanInd, TaskKnows
<1>1. CASE scanTask' = [scanTask EXCEPT ![m].pc = "persist"]
  <2> DEFINE t == [scanTask[m] EXCEPT !.pc = "persist"]
  <2>1. t \in TaskRecs /\ t.pc = "persist" BY <1>t DEF TaskRecs
  <2>2. scanTask' = [scanTask EXCEPT ![m] = t] BY <1>1
  <2>3. t.found = scanTask[m].found /\ t.pts = scanTask[m].pts /\ t.err = scanTask[m].err BY <1>t DEF TaskRecs
  <2> HIDE DEF t
  <2>4. scanTask'[m] = t BY <2>1, <2>2, <1>t, OtherTasks
  <2>5. TaskKnows(m)' BY <2>4, <2>3, <1>k, <1>u DEF TaskKnows, TaskResult, scanHistory
  <2> QED BY <2>1, <2>2, <2>5, <1>u, TaskMoves
<1>2. ASSUME NEW l \in left, NEW t \in TaskRecs, scanTask' = [scanTask EXCEPT ![m] = t],
             t.found = scanTask[m].found, scanTask[m].pts \subseteq t.pts, t.pc = "probe"
      PROVE  ScanInd'
  <2>1. scanTask'[m] = t BY <1>2, <1>t, OtherTasks
  <2>2. ~t.found.skip /\ ~scanTask[m].found.skip BY <1>2, <1>s
  <2>3. TaskResult(m)'.pts = t.pts /\ TaskResult(m).pts = scanTask[m].pts
    BY <2>1, <2>2 DEF TaskResult, ScanEntry
  <2>4. TaskKnows(m)' BY <2>1, <2>3, <1>2, <1>k, <1>u DEF TaskKnows, scanHistory
  <2> QED BY <2>4, <1>2, <1>u, TaskMoves
<1>3. CASE ~(libScan.stop \/ left = {})
  <2> DEFINE l == FirstLabel(left)
  <2>1. l \in left BY <1>3, <1>l, FirstLabelIsOne
  <2> DEFINE good == [scanTask[m] EXCEPT !.tried = @ \cup {l}, !.pts = @ \cup {l}]
             bad == [scanTask[m] EXCEPT !.tried = @ \cup {l}, !.err = TRUE]
  <2>2. scanTask' = [scanTask EXCEPT ![m] = good] \/ scanTask' = [scanTask EXCEPT ![m] = bad]
    BY <1>3 DEF TaskProbe
  <2>3. ~scanTask[m].found.skip /\ l \in FitLabels BY <2>1, <1>l, <1>s
  <2> HIDE DEF l
  <2>4. good \in TaskRecs /\ good.found = scanTask[m].found /\ scanTask[m].pts \subseteq good.pts /\ good.pc = "probe"
    BY <2>3, <1>t, <1>u DEF TaskRecs
  <2>5. bad \in TaskRecs /\ bad.found = scanTask[m].found /\ scanTask[m].pts \subseteq bad.pts /\ bad.pc = "probe"
    BY <2>3, <1>t, <1>u DEF TaskRecs
  <2> HIDE DEF good, bad
  <2> QED BY <2>1, <2>2, <2>4, <2>5, <1>2
<1>4. (libScan.stop \/ left = {}) => scanTask' = [scanTask EXCEPT ![m].pc = "persist"] BY DEF TaskProbe
<1> HIDE DEF left
<1> QED BY <1>1, <1>3, <1>4

\* The library scan writes its whole partition: what it overwrites is not held
\* to be stored any more, and what the single scans hold of others stays.
LEMMA WholeWrite ==
    ASSUME ScanInd, NEW v \in PartsOf(libScan.a),
           partitions' = partitions \/ partitions' = [partitions EXCEPT ![libScan.a] = v],
           lastStored' = [lastStored EXCEPT ![libScan.a] = [m \in FitModels |-> NoScan]],
           UNCHANGED <<singleScan, persistLock>>
    PROVE  /\ partitions' \in ScanFiles /\ lastStored' \in [FitAdapters -> [FitModels -> ScanEntries]]
           /\ SingleResultsStay' /\ \A s \in ScanIds : SingleAtWork(s)'
<1>t. ScanTypes /\ libScan.a \in FitAdapters BY DEF ScanInd, ScanTypes, LibScanRecs
<1>1. /\ lastStored' \in [FitAdapters -> [FitModels -> ScanEntries]]
      /\ \A m \in FitModels : ~lastStored'[libScan.a][m].has
      /\ \A a \in FitAdapters \ {libScan.a} : lastStored'[a] = lastStored[a]
  BY <1>t, NoScanIsEntry DEF ScanTypes, NoScan
<1>2. partitions' \in ScanFiles /\ \A a \in FitAdapters \ {libScan.a} : partitions'[a] = partitions[a]
  BY <1>t DEF ScanTypes, ScanFiles, PartsOf
<1>3. SingleResultsStay' BY <1>1, <1>2 DEF ScanInd, SingleResultsStay
<1>4. \A s \in ScanIds : SingleAtWork(s)' BY <1>1 DEF ScanInd, SingleAtWork, HoldsStored
<1> QED BY <1>1, <1>2, <1>3, <1>4

LEMMA TaskPersistKeeps ==
    ASSUME ScanInd, NEW m \in FitModels, TaskPersist(m) PROVE ScanInd'
<1>t. ScanTypes /\ scanTask[m] \in TaskRecs /\ libScan.a \in FitAdapters
  BY DEF ScanInd, ScanTypes, LibScanRecs
<1>u. /\ scanTask[m].pc = "persist" /\ scanTask' = [scanTask EXCEPT ![m].pc = "done"]
      /\ sharedMap' = InsertResult(sharedMap, m, TaskResult(m))
      /\ partitions' = [partitions EXCEPT ![libScan.a] = sharedMap']
      /\ lastStored' = [lastStored EXCEPT ![libScan.a] = [n \in FitModels |-> NoScan]]
      /\ UNCHANGED <<libScan, finalResults, singleScan, persistLock, knownBefore, storedMeanwhile>>
  BY DEF TaskPersist
<1>k. /\ knownBefore[m] \subseteq TaskResult(m).pts /\ libScan.pc \in {"spawned", "collect"}
      /\ <<libScan.a, m>> \in SkipPairs => TaskResult(m).pts = {}
  BY <1>u DEF ScanInd, TaskKnows, TasksOfTheScan, TaskResult, SkippedEntry
<1>e. TaskResult(m) \in ScanEntries /\ TaskResult(m).has BY <1>t, TaskResultIsEntry
<1> DEFINE e == TaskResult(m)
<1>f. sharedMap \in PartsOf(libScan.a) BY <1>t DEF ScanTypes
<1>1. /\ sharedMap' \in PartsOf(libScan.a) /\ FindScan(sharedMap, m)' = e
      /\ \A n \in FitModels \ {m} : FindScan(sharedMap, n)' = FindScan(sharedMap, n)
  <2> HIDE DEF e
  <2>1. e \in ScanEntries /\ e.has /\ (<<libScan.a, m>> \in SkipPairs => e.pts = {}) BY <1>e, <1>k DEF e
  <2>2. sharedMap' = InsertResult(sharedMap, m, e) BY <1>u DEF e
  <2>3. /\ InsertResult(sharedMap, m, e) \in PartsOf(libScan.a)
        /\ FindScan(InsertResult(sharedMap, m, e), m) = e
        /\ \A n \in FitModels \ {m} : FindScan(InsertResult(sharedMap, m, e), n) = FindScan(sharedMap, n)
    BY <2>1, <1>f, InsertIsFound
  <2> DEFINE w == InsertResult(sharedMap, m, e)
  <2> HIDE DEF w
  <2>4. w \in PartsOf(libScan.a) /\ FindScan(w, m) = e /\ \A n \in FitModels \ {m} : FindScan(w, n) = FindScan(sharedMap, n)
    BY <2>3 DEF w
  <2>5. sharedMap' = w BY <2>2 DEF w
  <2>6. \A n \in FitModels : FindScan(sharedMap, n)' = FindScan(w, n) BY <2>5 DEF FindScan
  <2> QED BY <2>4, <2>5, <2>6
<1>2. /\ partitions' \in ScanFiles /\ lastStored' \in [FitAdapters -> [FitModels -> ScanEntries]]
      /\ SingleResultsStay' /\ \A s \in ScanIds : SingleAtWork(s)'
  BY <1>1, <1>u, WholeWrite
<1> DEFINE t == [scanTask[m] EXCEPT !.pc = "done"]
<1>3. /\ t \in TaskRecs /\ t.pc = "done" /\ t.found = scanTask[m].found /\ t.pts = scanTask[m].pts
      /\ t.err = scanTask[m].err /\ scanTask' = [scanTask EXCEPT ![m] = t]
  BY <1>t, <1>u DEF TaskRecs
<1> HIDE DEF t
<1>4. /\ scanTask' \in [FitModels -> TaskRecs] /\ scanTask'[m] = t
      /\ \A n \in FitModels \ {m} : scanTask'[n] = scanTask[n] /\ TaskResult(n)' = TaskResult(n)
  BY <1>3, <1>t, OtherTasks
<1>5. TaskResult(m)' = e BY <1>3, <1>4 DEF TaskResult
<1> HIDE DEF e
<1>6. knownBefore[m] \subseteq e.pts BY <1>k DEF e
<1>7. ScanTypes' BY <1>1, <1>2, <1>4, <1>t, <1>u DEF ScanTypes
<1>8. TasksOfTheScan' BY <1>3, <1>4, <1>k, <1>u DEF ScanInd, TasksOfTheScan
<1>9. \A n \in FitModels : TaskKnows(n)'
  <2>1. TaskKnows(m)' BY <1>3, <1>4, <1>5, <1>6, <1>u DEF ScanInd, TaskKnows
  <2>2. \A n \in FitModels \ {m} : TaskKnows(n)' BY <1>4, <1>u DEF ScanInd, TaskKnows
  <2> QED BY <2>1, <2>2
<1>10. \A n \in FitModels : knownBefore[n] \subseteq FindScan(sharedMap, n)'.pts
  BY <1>1, <1>6, <1>k DEF ScanInd, MapKnows
<1>11. MapKnows' BY <1>10, <1>u DEF MapKnows
<1>12. KnownPointsStay'
  <2>1. partitions'[libScan.a] = sharedMap' BY <1>u, <1>t DEF ScanTypes, ScanFiles
  <2>2. \A n \in FitModels : FindScan(partitions[libScan.a], n)' = FindScan(sharedMap, n)'
    BY <2>1, <1>u DEF FindScan
  <2>3. \A n \in FitModels : FindScan(finalResults, n)' = FindScan(finalResults, n) BY <1>u DEF FindScan
  <2> QED BY <2>2, <2>3, <1>10, <1>u DEF ScanInd, KnownPointsStay
<1>13. ResultsAreCollected' BY <1>3, <1>4, <1>u DEF ScanInd, ResultsAreCollected
<1> QED BY <1>2, <1>7, <1>8, <1>9, <1>11, <1>12, <1>13 DEF ScanInd

LEMMA LibCollectKeeps ==
    ASSUME ScanInd, NEW m \in FitModels, LibCollect(m) PROVE ScanInd'
<1>t. ScanTypes /\ scanTask[m] \in TaskRecs /\ libScan.a \in FitAdapters
  BY DEF ScanInd, ScanTypes, LibScanRecs
<1>u. /\ libScan.pc = "collect" /\ scanTask[m].pc \in {"done", "gone"}
      /\ scanTask' = [scanTask EXCEPT ![m].pc = "none"]
      /\ UNCHANGED <<partitions, libScan, sharedMap, singleScan, persistLock, scanHistory>>
  BY DEF LibCollect
<1> DEFINE t == [scanTask[m] EXCEPT !.pc = "none"]
           e == TaskResult(m)
<1>1. /\ t \in TaskRecs /\ t.pc = "none" /\ t.tried = scanTask[m].tried /\ t.pts = scanTask[m].pts
      /\ scanTask' = [scanTask EXCEPT ![m] = t]
  BY <1>t, <1>u DEF TaskRecs
<1> HIDE DEF t
<1>2. /\ scanTask' \in [FitModels -> TaskRecs] /\ scanTask'[m] = t
      /\ \A n \in FitModels \ {m} : scanTask'[n] = scanTask[n] /\ TaskResult(n)' = TaskResult(n)
  BY <1>1, <1>t, OtherTasks
<1>e. e \in ScanEntries /\ e.has BY <1>t, TaskResultIsEntry
<1>k. scanTask[m].pc = "done" => /\ knownBefore[m] \subseteq e.pts
                                 /\ <<libScan.a, m>> \in SkipPairs => e.pts = {}
  BY DEF ScanInd, TaskKnows, TaskResult, SkippedEntry
<1>f. scanTask[m].pc = "done" /\ scanTask[m].tried # {} => scanTask[m].pts \subseteq e.pts
  BY <1>t DEF TaskResult, ScanEntry, TaskRecs
<1>3. scanTask[m].pc = "done" => finalResults' = [finalResults EXCEPT ![m].p = e] BY DEF LibCollect
<1>4. scanTask[m].pc = "gone" => finalResults' = finalResults BY DEF LibCollect
<1> HIDE DEF e
<1>g. scanTask[m].pc = "gone" => scanTask[m].tried = {} BY <1>t DEF TaskRecs
<1>5. /\ finalResults' \in PartsOf(libScan.a)
      /\ \A n \in FitModels \ {m} : finalResults'[n] = finalResults[n]
      /\ finalResults'[m].k = finalResults[m].k
      /\ scanTask[m].pc = "done" => finalResults'[m].p = e
      /\ scanTask[m].pc = "gone" => finalResults'[m].p = finalResults[m].p
  <2>1. CASE scanTask[m].pc = "gone" BY <2>1, <1>4, <1>t DEF ScanTypes
  <2>2. CASE scanTask[m].pc = "done"
    <3>1. finalResults \in PartsOf(libScan.a) /\ finalResults \in ScanParts BY <1>t DEF ScanTypes, PartsOf
    <3>2. finalResults[m] \in [k : ScanEntries, p : ScanEntries] BY <3>1 DEF ScanParts
    <3>3. [finalResults[m] EXCEPT !.p = e] \in [k : ScanEntries, p : ScanEntries]
          /\ [finalResults[m] EXCEPT !.p = e].p = e /\ [finalResults[m] EXCEPT !.p = e].k = finalResults[m].k
      BY <3>2, <1>e
    <3> DEFINE v == [finalResults[m] EXCEPT !.p = e]
    <3>4. finalResults' = [finalResults EXCEPT ![m] = v] BY <2>2, <1>3
    <3>5. v \in [k : ScanEntries, p : ScanEntries] /\ v.p = e /\ v.k = finalResults[m].k BY <3>3
    <3> HIDE DEF v
    <3>6. /\ finalResults' \in ScanParts /\ finalResults'[m] = v
          /\ \A n \in FitModels \ {m} : finalResults'[n] = finalResults[n]
      BY <3>1, <3>4, <3>5 DEF ScanParts
    <3>7. finalResults' \in PartsOf(libScan.a) BY <3>1, <3>5, <3>6, <1>k, <2>2 DEF PartsOf
    <3> QED BY <3>5, <3>6, <3>7, <2>2
  <2> QED BY <2>1, <2>2, <1>u
<1>6. ScanTypes' BY <1>2, <1>5, <1>t, <1>u DEF ScanTypes, scanHistory
<1>7. TasksOfTheScan' BY <1>1, <1>2, <1>u DEF ScanInd, TasksOfTheScan
<1>8. \A s \in ScanIds : SingleAtWork(s)' BY <1>u DEF ScanInd, SingleAtWork, HoldsStored, scanHistory
<1>9. \A n \in FitModels : TaskKnows(n)' BY <1>1, <1>2, <1>u DEF ScanInd, TaskKnows, scanHistory
<1>10. MapKnows' BY <1>u DEF ScanInd, MapKnows, scanHistory
<1>11. KnownPointsStay'
  <2>1. ASSUME ~storedMeanwhile, NEW n \in FitModels
        PROVE  knownBefore[n] \subseteq FindScan(finalResults, n)'.pts
    <3>1. knownBefore[n] \subseteq FindScan(finalResults, n).pts BY <2>1, <1>u DEF ScanInd, KnownPointsStay
    <3>2. CASE n # m BY <3>1, <3>2, <1>5 DEF FindScan
    <3>3. CASE n = m /\ scanTask[m].pc = "gone" BY <3>1, <3>3, <1>5 DEF FindScan
    <3>4. CASE n = m /\ scanTask[m].pc = "done" BY <3>1, <3>4, <1>5, <1>k DEF FindScan
    <3> QED BY <3>2, <3>3, <3>4, <1>u
  <2> QED BY <2>1, <1>u DEF ScanInd, KnownPointsStay, scanHistory
<1>12. ResultsAreCollected'
  <2>1. ASSUME NEW n \in FitModels, scanTask'[n].pc = "none", scanTask'[n].tried # {}
        PROVE  \/ finalResults'[n].p.has /\ scanTask'[n].pts \subseteq finalResults'[n].p.pts
               \/ finalResults'[n].k.has /\ scanTask'[n].pts \subseteq finalResults'[n].k.pts
    <3>1. CASE n # m BY <3>1, <2>1, <1>2, <1>5, <1>u DEF ScanInd, ResultsAreCollected
    <3>2. CASE n = m /\ scanTask[m].pc = "done" BY <3>2, <2>1, <1>1, <1>2, <1>5, <1>e, <1>f
    <3>3. CASE n = m /\ scanTask[m].pc = "gone" BY <3>3, <2>1, <1>1, <1>2, <1>g
    <3> QED BY <3>1, <3>2, <3>3, <1>u
  <2> QED BY <2>1 DEF ResultsAreCollected
<1>13. SingleResultsStay' BY <1>u DEF ScanInd, SingleResultsStay, scanHistory
<1> QED BY <1>6, <1>7, <1>8, <1>9, <1>10, <1>11, <1>12, <1>13 DEF ScanInd

\* without a library scan there is nothing of it to keep
LEMMA NoLibraryScan ==
    ASSUME libScan' = NoLib, sharedMap' = EmptyPart, finalResults' = EmptyPart,
           scanTask' = [m \in FitModels |-> NoTask],
           knownBefore' = [m \in FitModels |-> {}], storedMeanwhile' = FALSE,
           (/\ partitions \in ScanFiles /\ singleScan \in [ScanIds -> SingleRecs]
            /\ persistLock \in ScanIds \cup {0}
            /\ lastStored \in [FitAdapters -> [FitModels -> ScanEntries]])'
    PROVE  /\ ScanTypes' /\ TasksOfTheScan' /\ \A m \in FitModels : TaskKnows(m)'
           /\ MapKnows' /\ KnownPointsStay' /\ ResultsAreCollected'
<1>1. libScan' \in LibScanRecs /\ libScan'.pc = "idle" BY FitScanBounds DEF NoLib, LibScanRecs
<1>2. /\ scanTask' \in [FitModels -> TaskRecs]
      /\ \A m \in FitModels : scanTask'[m].pc = "none" /\ scanTask'[m].tried = {}
  BY NoScanIsEntry DEF NoTask, TaskRecs
<1>3. EmptyPart \in PartsOf(libScan'.a) BY EmptyPartIsPart
<1>4. ScanTypes' BY <1>1, <1>2, <1>3 DEF ScanTypes
<1>5. TasksOfTheScan' BY <1>1, <1>2 DEF TasksOfTheScan
<1>6. \A m \in FitModels : TaskKnows(m)' BY <1>2 DEF TaskKnows
<1>7. MapKnows' /\ KnownPointsStay' /\ ResultsAreCollected'
  BY <1>1 DEF MapKnows, KnownPointsStay, ResultsAreCollected
<1> QED BY <1>4, <1>5, <1>6, <1>7

LEMMA NoSingleIsRec == NoSingle \in SingleRecs /\ NoSingle.pc = "idle"
<1>1. \A a : EmptyPart \in ScanParts BY EmptyPartIsPart DEF PartsOf
<1> QED BY <1>1, FitScanBounds DEF NoSingle, SingleRecs

LEMMA LibEndKeeps ==
    ASSUME ScanInd, LibEnd PROVE ScanInd'
<1>t. ScanTypes /\ libScan.a \in FitAdapters BY DEF ScanInd, ScanTypes, LibScanRecs
<1>u. /\ partitions' = partitions \/ partitions' = [partitions EXCEPT ![libScan.a] = finalResults]
      /\ lastStored' = [lastStored EXCEPT ![libScan.a] = [m \in FitModels |-> NoScan]]
      /\ libScan' = NoLib /\ sharedMap' = EmptyPart /\ finalResults' = EmptyPart
      /\ scanTask' = [m \in FitModels |-> NoTask]
      /\ knownBefore' = [m \in FitModels |-> {}] /\ storedMeanwhile' = FALSE
      /\ UNCHANGED <<singleScan, persistLock>>
  BY DEF LibEnd
<1>1. /\ partitions' \in ScanFiles /\ lastStored' \in [FitAdapters -> [FitModels -> ScanEntries]]
      /\ SingleResultsStay' /\ \A s \in ScanIds : SingleAtWork(s)'
  <2>1. finalResults \in PartsOf(libScan.a) BY <1>t DEF ScanTypes
  <2> QED BY <2>1, <1>u, WholeWrite
<1>2. ScanTypes' /\ TasksOfTheScan' /\ (\A m \in FitModels : TaskKnows(m)')
      /\ MapKnows' /\ KnownPointsStay' /\ ResultsAreCollected'
  BY <1>1, <1>t, <1>u, NoLibraryScan DEF ScanTypes
<1> QED BY <1>1, <1>2 DEF ScanInd

LEMMA ScanCrashKeeps ==
    ASSUME ScanInd, ScanCrash PROVE ScanInd'
<1>t. ScanTypes BY DEF ScanInd
<1>u. /\ libScan' = NoLib /\ sharedMap' = EmptyPart /\ finalResults' = EmptyPart
      /\ scanTask' = [m \in FitModels |-> NoTask]
      /\ singleScan' = [s \in ScanIds |-> NoSingle] /\ persistLock' = 0
      /\ knownBefore' = [m \in FitModels |-> {}] /\ storedMeanwhile' = FALSE
      /\ UNCHANGED <<partitions, lastStored>>
  BY DEF ScanCrash
<1>1. singleScan' \in [ScanIds -> SingleRecs] /\ \A s \in ScanIds : singleScan'[s].pc = "idle"
  BY <1>u, NoSingleIsRec
<1>2. ScanTypes' /\ TasksOfTheScan' /\ (\A m \in FitModels : TaskKnows(m)')
      /\ MapKnows' /\ KnownPointsStay' /\ ResultsAreCollected'
  BY <1>1, <1>t, <1>u, NoLibraryScan DEF ScanTypes
<1>3. \A s \in ScanIds : SingleAtWork(s)' BY <1>1 DEF SingleAtWork
<1>4. SingleResultsStay' BY <1>u DEF ScanInd, SingleResultsStay
<1> QED BY <1>2, <1>3, <1>4 DEF ScanInd

\* a single scan that moves and does not write
LEMMA SingleMoves ==
    ASSUME ScanInd, NEW s \in ScanIds, NEW x \in SingleRecs, singleScan' = [singleScan EXCEPT ![s] = x],
           UNCHANGED <<partitions, libScan, sharedMap, finalResults, scanTask, scanHistory>>,
           persistLock' \in ScanIds \cup {0}, persistLock' # persistLock => persistLock = 0,
           SingleAtWork(s)'
    PROVE  ScanInd'
<1> USE DEF scanHistory
<1>1. /\ singleScan' \in [ScanIds -> SingleRecs] /\ singleScan'[s] = x
      /\ \A r \in ScanIds \ {s} : singleScan'[r] = singleScan[r]
  BY DEF ScanInd, ScanTypes
<1>2. ScanTypes' BY <1>1 DEF ScanInd, ScanTypes
<1>3. TasksOfTheScan' BY DEF ScanInd, TasksOfTheScan
<1>4. \A r \in ScanIds : SingleAtWork(r)'
  <2>1. ASSUME NEW r \in ScanIds, r # s PROVE SingleAtWork(r)'
    <3>1. SingleAtWork(r) /\ singleScan'[r] = singleScan[r] BY <1>1, <2>1 DEF ScanInd
    <3>2. singleScan[r].pc = "store" => persistLock = r /\ r # 0 BY <3>1, FitScanBounds DEF SingleAtWork
    <3> QED BY <3>1, <3>2 DEF SingleAtWork, HoldsStored
  <2> QED BY <2>1
<1>5. \A m \in FitModels : TaskKnows(m)' BY DEF ScanInd, TaskKnows, TaskResult
<1>6. MapKnows' BY DEF ScanInd, MapKnows
<1>7. KnownPointsStay' BY DEF ScanInd, KnownPointsStay
<1>8. ResultsAreCollected' BY DEF ScanInd, ResultsAreCollected
<1>9. SingleResultsStay' BY DEF ScanInd, SingleResultsStay
<1> QED BY <1>2, <1>3, <1>4, <1>5, <1>6, <1>7, <1>8, <1>9 DEF ScanInd

LEMMA SingleStartKeeps ==
    ASSUME ScanInd, NEW s \in ScanIds, NEW a \in FitAdapters, NEW m \in FitModels, NEW force \in BOOLEAN,
           SingleStart(s, a, m, force)
    PROVE  ScanInd'
<1>t. ScanTypes BY DEF ScanInd
<1> DEFINE e == IF force THEN NoScan ELSE FindScan(partitions[a], m)
           x == [NoSingle EXCEPT !.pc = "probe", !.a = a, !.m = m, !.pts = e.pts, !.todo = MissingLabels(e)]
<1>1. e \in ScanEntries
  <2>1. partitions[a] \in PartsOf(a) BY <1>t DEF ScanTypes, ScanFiles
  <2>2. FindScan(partitions[a], m) \in ScanEntries BY <2>1, FindIsEntry
  <2> QED BY <2>2, NoScanIsEntry
<1>2. /\ singleScan' = [singleScan EXCEPT ![s] = x] /\ <<a, m>> \notin SkipPairs
      /\ UNCHANGED <<partitions, libScan, sharedMap, finalResults, scanTask, persistLock, scanHistory>>
  BY DEF SingleStart
<1>3. x \in SingleRecs /\ x.pc = "probe" /\ x.a = a /\ x.m = m
  <2>1. e.pts \in SUBSET FitLabels /\ MissingLabels(e) \in SUBSET FitLabels
    BY <1>1 DEF ScanEntries, MissingLabels
  <2> HIDE DEF e
  <2>2. NoSingle \in SingleRecs BY NoSingleIsRec
  <2> QED BY <2>1, <2>2 DEF SingleRecs
<1> HIDE DEF x
<1>4. SingleAtWork(s)' BY <1>2, <1>3, <1>t DEF ScanTypes, SingleAtWork
<1>5. persistLock' \in ScanIds \cup {0} /\ persistLock' = persistLock BY <1>2, <1>t DEF ScanTypes
<1> QED BY <1>2, <1>3, <1>4, <1>5, SingleMoves

LEMMA SingleProbeKeeps ==
    ASSUME ScanInd, NEW s \in ScanIds, SingleProbe(s) PROVE ScanInd'
<1>t. ScanTypes /\ singleScan[s] \in SingleRecs BY DEF ScanInd, ScanTypes
<1>u. singleScan[s].pc = "probe" /\ UNCHANGED <<partitions, libScan, sharedMap, finalResults, scanTask, persistLock, scanHistory>>
  BY DEF SingleProbe
<1>1. PICK x \in SingleRecs : /\ singleScan' = [singleScan EXCEPT ![s] = x] /\ x.pc = "lock"
                              /\ x.a = singleScan[s].a /\ x.m = singleScan[s].m
  <2> DEFINE y == singleScan[s]
             all == [y EXCEPT !.pc = "lock", !.pts = @ \cup y.todo, !.todo = {}]
  <2>1. all \in SingleRecs /\ all.pc = "lock" /\ all.a = y.a /\ all.m = y.m BY <1>t DEF SingleRecs
  <2>2. CASE singleScan' = [singleScan EXCEPT ![s].pc = "lock", ![s].pts = @ \cup singleScan[s].todo, ![s].todo = {}]
    <3>1. singleScan' = [singleScan EXCEPT ![s] = all] BY <2>2, <1>t DEF ScanTypes
    <3> QED BY <2>1, <3>1
  <2>3. ASSUME NEW l \in singleScan[s].todo,
               singleScan' = [singleScan EXCEPT ![s].pc = "lock", ![s].pts = @ \cup (singleScan[s].todo \ {l}),
                                         ![s].err = TRUE, ![s].todo = {}]
        PROVE  \E x \in SingleRecs : /\ singleScan' = [singleScan EXCEPT ![s] = x] /\ x.pc = "lock"
                                     /\ x.a = singleScan[s].a /\ x.m = singleScan[s].m
    <3> DEFINE some == [y EXCEPT !.pc = "lock", !.pts = @ \cup (y.todo \ {l}), !.err = TRUE, !.todo = {}]
    <3>1. some \in SingleRecs /\ some.pc = "lock" /\ some.a = y.a /\ some.m = y.m BY <1>t DEF SingleRecs
    <3>2. singleScan' = [singleScan EXCEPT ![s] = some] BY <2>3, <1>t DEF ScanTypes
    <3> QED BY <3>1, <3>2
  <2> QED BY <2>2, <2>3 DEF SingleProbe
<1>2. SingleAtWork(s) BY DEF ScanInd
<1>3. singleScan'[s] = x BY <1>1, <1>t DEF ScanTypes
<1>4. SingleAtWork(s)' BY <1>1, <1>2, <1>3, <1>u DEF SingleAtWork
<1>5. persistLock' \in ScanIds \cup {0} /\ persistLock' = persistLock BY <1>u, <1>t DEF ScanTypes
<1> QED BY <1>1, <1>4, <1>5, <1>u, SingleMoves

LEMMA SingleReadsKeeps ==
    ASSUME ScanInd, NEW s \in ScanIds, SingleReads(s) PROVE ScanInd'
<1>t. ScanTypes /\ singleScan[s] \in SingleRecs BY DEF ScanInd, ScanTypes
<1>u. /\ singleScan[s].pc = "lock" /\ persistLock = 0 /\ persistLock' = s
      /\ singleScan' = [singleScan EXCEPT ![s].pc = "store", ![s].read = partitions]
      /\ UNCHANGED <<partitions, libScan, sharedMap, finalResults, scanTask, scanHistory>>
  BY DEF SingleReads
<1> DEFINE x == [singleScan[s] EXCEPT !.pc = "store", !.read = partitions]
<1>1. partitions \in ScanFiles /\ partitions \in [FitAdapters -> ScanParts] BY <1>t DEF ScanTypes, ScanFiles
<1>2. /\ x \in SingleRecs /\ x.pc = "store" /\ x.read = partitions
      /\ x.a = singleScan[s].a /\ x.m = singleScan[s].m
  BY <1>1, <1>t DEF SingleRecs
<1>3. singleScan' = [singleScan EXCEPT ![s] = x] BY <1>u, <1>t DEF ScanTypes
<1> HIDE DEF x
<1>4. singleScan'[s] = x BY <1>3, <1>t DEF ScanTypes
<1>5. SingleAtWork(s) /\ SingleResultsStay BY DEF ScanInd
<1>6. HoldsStored(singleScan[s].read)' BY <1>2, <1>4, <1>5, <1>u DEF HoldsStored, SingleResultsStay, scanHistory
<1>7. SingleAtWork(s)' BY <1>1, <1>2, <1>4, <1>5, <1>6, <1>u DEF SingleAtWork
<1> QED BY <1>2, <1>3, <1>7, <1>u, SingleMoves

LEMMA SingleStoresKeeps ==
    ASSUME ScanInd, NEW s \in ScanIds, SingleStores(s) PROVE ScanInd'
<1>t. ScanTypes /\ singleScan[s] \in SingleRecs BY DEF ScanInd, ScanTypes
<1> DEFINE a == singleScan[s].a
           m == singleScan[s].m
           e == ScanEntry(singleScan[s].pts, singleScan[s].err)
           read == singleScan[s].read
           v == InsertResult(read[a], m, e)
<1>u. /\ singleScan[s].pc = "store" /\ persistLock' = 0
      /\ partitions' = [read EXCEPT ![a] = v]
      /\ storedMeanwhile' = (libScan.pc \in {"spawned", "collect"} \/ storedMeanwhile)
      /\ lastStored' = IF libScan.pc = "idle" THEN [lastStored EXCEPT ![a][m] = e]
                       ELSE [b \in FitAdapters |-> [n \in FitModels |-> NoScan]]
      /\ singleScan' = [singleScan EXCEPT ![s] = NoSingle]
      /\ UNCHANGED <<libScan, sharedMap, finalResults, scanTask, knownBefore>>
  BY DEF SingleStores
<1>a. SingleAtWork(s) BY DEF ScanInd
<1>1. /\ a \in FitAdapters /\ m \in FitModels /\ <<a, m>> \notin SkipPairs /\ read \in ScanFiles
      /\ persistLock = s /\ HoldsStored(read)
  BY <1>a, <1>u, <1>t DEF SingleAtWork, SingleRecs
<1>2. e \in ScanEntries /\ e.has BY <1>t DEF SingleRecs, ScanEntry, ScanEntries
<1> HIDE DEF a, m, e, read
<1>3. read[a] \in PartsOf(a) BY <1>1 DEF ScanFiles
<1>4. /\ v \in PartsOf(a) /\ FindScan(v, m) = e
      /\ \A n \in FitModels \ {m} : FindScan(v, n) = FindScan(read[a], n)
  BY <1>1, <1>2, <1>3, InsertIsFound
<1> HIDE DEF v
<1>5. /\ partitions' \in ScanFiles /\ partitions'[a] = v
      /\ \A b \in FitAdapters \ {a} : partitions'[b] = read[b]
  BY <1>1, <1>4, <1>u DEF ScanFiles, PartsOf
<1>6. singleScan' \in [ScanIds -> SingleRecs] /\ singleScan'[s].pc = "idle"
      /\ \A r \in ScanIds \ {s} : singleScan'[r] = singleScan[r]
  BY <1>t, <1>u, NoSingleIsRec DEF ScanTypes
<1>7. ASSUME libScan.pc = "idle" PROVE SingleResultsStay'
  <2>1. /\ lastStored' \in [FitAdapters -> [FitModels -> ScanEntries]] /\ lastStored'[a][m] = e
        /\ \A b \in FitAdapters, n \in FitModels :
               b # a \/ n # m => lastStored'[b][n] = lastStored[b][n]
    <3>1. lastStored' = [lastStored EXCEPT ![a][m] = e] BY <1>7, <1>u
    <3> QED BY <3>1, <1>1, <1>2, <1>t DEF ScanTypes
  <2>2. SingleResultsStay'
    <3>1. ASSUME NEW b \in FitAdapters, NEW n \in FitModels, lastStored'[b][n].has
          PROVE  FindScan(partitions'[b], n) = lastStored'[b][n]
      <4>1. CASE b = a /\ n = m BY <4>1, <2>1, <1>4, <1>5
      <4>2. CASE b = a /\ n # m
        <5>1. lastStored'[b][n] = lastStored[b][n] BY <4>2, <2>1
        <5>2. FindScan(read[b], n) = lastStored[b][n] BY <5>1, <3>1, <1>1 DEF HoldsStored
        <5>3. FindScan(partitions'[b], n) = FindScan(v, n) BY <4>2, <1>5
        <5> QED BY <5>1, <5>2, <5>3, <4>2, <1>4
      <4>3. CASE b # a
        <5>1. lastStored'[b][n] = lastStored[b][n] BY <4>3, <2>1
        <5>2. FindScan(read[b], n) = lastStored[b][n] BY <5>1, <3>1, <1>1 DEF HoldsStored
        <5>3. FindScan(partitions'[b], n) = FindScan(read[b], n) BY <4>3, <1>5
        <5> QED BY <5>1, <5>2, <5>3
      <4> QED BY <4>1, <4>2, <4>3
    <3> QED BY <3>1 DEF SingleResultsStay
  <2> QED BY <2>2
<1>8. ASSUME libScan.pc # "idle" PROVE SingleResultsStay'
  <2>1. lastStored' = [b \in FitAdapters |-> [n \in FitModels |-> NoScan]] BY <1>8, <1>u
  <2>2. NoScan.has = FALSE BY DEF NoScan
  <2> QED BY <2>1, <2>2 DEF SingleResultsStay
<1>9. lastStored' \in [FitAdapters -> [FitModels -> ScanEntries]] /\ SingleResultsStay'
  <2>1. CASE libScan.pc = "idle"
    <3>1. lastStored' = [lastStored EXCEPT ![a][m] = e] BY <2>1, <1>u
    <3>2. lastStored' \in [FitAdapters -> [FitModels -> ScanEntries]] BY <3>1, <1>1, <1>2, <1>t DEF ScanTypes
    <3> QED BY <3>2, <2>1, <1>7
  <2>2. CASE libScan.pc # "idle"
    <3>1. lastStored' = [b \in FitAdapters |-> [n \in FitModels |-> NoScan]] BY <2>2, <1>u
    <3> QED BY <3>1, <2>2, <1>8, NoScanIsEntry
  <2> QED BY <2>1, <2>2
<1>10. ScanTypes' BY <1>5, <1>6, <1>9, <1>t, <1>u DEF ScanTypes
<1>11. TasksOfTheScan' BY <1>u DEF ScanInd, TasksOfTheScan
<1>12. \A r \in ScanIds : SingleAtWork(r)'
  <2>1. SingleAtWork(s)' BY <1>6 DEF SingleAtWork
  <2>2. ASSUME NEW r \in ScanIds, r # s PROVE SingleAtWork(r)'
    <3>1. SingleAtWork(r) /\ singleScan'[r] = singleScan[r] BY <1>6, <2>2 DEF ScanInd
    <3>2. singleScan[r].pc # "store" BY <3>1, <1>1, <2>2 DEF SingleAtWork
    <3> QED BY <3>1, <3>2 DEF SingleAtWork
  <2> QED BY <2>1, <2>2
<1>13. \A n \in FitModels : TaskKnows(n)' BY <1>u DEF ScanInd, TaskKnows, TaskResult
<1>14. MapKnows' BY <1>u DEF ScanInd, MapKnows
<1>15. KnownPointsStay' BY <1>u DEF KnownPointsStay
<1>16. ResultsAreCollected' BY <1>u DEF ScanInd, ResultsAreCollected
<1> QED BY <1>9, <1>10, <1>11, <1>12, <1>13, <1>14, <1>15, <1>16 DEF ScanInd

LEMMA ScanRests == ASSUME ScanInd, UNCHANGED scanVars PROVE ScanInd'
<1> USE DEF scanVars
<1>1. ScanTypes' BY DEF ScanInd, ScanTypes
<1>2. TasksOfTheScan' BY DEF ScanInd, TasksOfTheScan
<1>3. \A s \in ScanIds : SingleAtWork(s)' BY DEF ScanInd, SingleAtWork, HoldsStored
<1>4. \A m \in FitModels : TaskKnows(m)' BY DEF ScanInd, TaskKnows, TaskResult
<1>5. MapKnows' BY DEF ScanInd, MapKnows
<1>6. SingleResultsStay' BY DEF ScanInd, SingleResultsStay
<1>7. KnownPointsStay' BY DEF ScanInd, KnownPointsStay
<1>8. ResultsAreCollected' BY DEF ScanInd, ResultsAreCollected
<1> QED BY <1>1, <1>2, <1>3, <1>4, <1>5, <1>6, <1>7, <1>8 DEF ScanInd

\* Library scans, stopped, failing and cut off, and single scans beside them
\* over one file: a stored result stays until its model is scanned again or a
\* library scan runs, and a library scan neither loses a point that was known
\* nor one that its tasks found.
THEOREM ScanKept == ScanSpec => []ScanInv
<1>1. ScanInit => ScanInd BY ScanStarts
<1>2. ScanInd /\ [ScanNext]_scanVars => ScanInd'
  <2> SUFFICES ASSUME ScanInd, [ScanNext]_scanVars PROVE ScanInd' OBVIOUS
  <2>1. ASSUME NEW a \in FitAdapters, NEW force \in BOOLEAN, LibStart(a, force) PROVE ScanInd' BY <2>1, LibStartKeeps
  <2>2. ASSUME NEW a \in FitAdapters, NEW s \in ScanIds, NEW m \in FitModels, NEW force \in BOOLEAN,
               SingleStart(s, a, m, force)
        PROVE  ScanInd'
    BY <2>2, SingleStartKeeps
  <2>3. ASSUME LibInstall \/ LibStop \/ LibList \/ LibClone \/ LibEnd \/ ScanCrash PROVE ScanInd'
    BY <2>3, LibInstallKeeps, LibStopKeeps, LibListKeeps, LibCloneKeeps, LibEndKeeps, ScanCrashKeeps
  <2>4. ASSUME NEW m \in FitModels, TaskStart(m) \/ TaskProbe(m) \/ TaskPersist(m) \/ LibCollect(m) PROVE ScanInd'
    BY <2>4, TaskStartKeeps, TaskProbeKeeps, TaskPersistKeeps, LibCollectKeeps
  <2>5. ASSUME NEW s \in ScanIds, SingleProbe(s) \/ SingleReads(s) \/ SingleStores(s) PROVE ScanInd'
    BY <2>5, SingleProbeKeeps, SingleReadsKeeps, SingleStoresKeeps
  <2>6. CASE UNCHANGED scanVars BY <2>6, ScanRests
  <2> QED BY <2>1, <2>2, <2>3, <2>4, <2>5, <2>6 DEF ScanNext
<1>3. ScanInd => ScanInv
  <2> SUFFICES ASSUME ScanInd PROVE ScanInv OBVIOUS
  <2>1. ScanTypeOK BY DEF ScanInd, ScanTypes, ScanTypeOK, LibScanRecs, TaskRecs
  <2> QED BY <2>1 DEF ScanInd, ScanInv
<1> QED BY <1>1, <1>2, <1>3, PTL DEF ScanSpec

-----------------------------------------------------------------------------
(* Learned memory rows *)

Figures == [v : Int, h : Int, at : Nat]
Joints == BatchSizes \X Specs
LearnedRows == [base : Figures, snap : Figures, tried : Figures, batch : BatchSizes \cup {0}, spec : Specs \cup {""},
            at : Nat, batches : [BatchSizes -> Figures], specs : [Specs -> Figures], joints : [Joints -> Figures]]

\* A row's last launch is its primary figure or was a spill of it; nothing in
\* the row is newer than time c.
RowOK(r, c) ==
    /\ r \in LearnedRows /\ r.batch \in BatchSizes /\ r.spec \in Specs
    /\ Launched(r) => IsSpill(r.base, r.snap) \/ r.snap = r.base
    /\ r.base.at <= c
    /\ \A s \in Specs : r.specs[s].at <= c
    /\ \A p \in Joints : r.joints[p].at <= c

\* Row r holds a figure v that was measured with these knobs at time c.
Shown(r, v, batch, spec, c) ==
    /\ batch = r.batch /\ spec = r.spec => v = r.base.v
    /\ batch # r.batch /\ spec = r.spec => r.batches[batch].at = c /\ r.batches[batch].v = v - r.base.v
    /\ batch = r.batch /\ spec # r.spec => r.specs[spec].at = c /\ r.specs[spec].v = v - r.base.v
    /\ batch # r.batch /\ spec # r.spec =>
          r.joints[<<batch, spec>>].at = c /\ r.joints[<<batch, spec>>].v = v - r.base.v
Older(r, c) == (\A s \in Specs : r.specs[s].at < c) /\ (\A p \in Joints : r.joints[p].at < c)
LastIsNewest ==
    last.at # 0 =>
        /\ last.at = clock /\ last.key \in DOMAIN learned
        /\ last.batch \in BatchSizes /\ last.spec \in Specs /\ last.v \in Int
        /\ Shown(learned[last.key], last.v, last.batch, last.spec, clock)
        /\ \A j \in DOMAIN learned : j # last.key => Older(learned[j], clock)

LearnInd ==
    /\ DOMAIN learned \subseteq RowKeys /\ DOMAIN need = DOMAIN learned /\ clock \in 0 .. MaxMeasures
    /\ \A k \in DOMAIN learned : RowOK(learned[k], clock) /\ need[k] = learned[k].base
    /\ LastIsNewest

\* What a row shows is its primary figure.
LEMMA PaintIsBase == \A r, c : RowOK(r, c) => Paint(r) = r.base
<1> SUFFICES ASSUME NEW r, NEW c, RowOK(r, c) PROVE Paint(r) = r.base OBVIOUS
<1>1. r.base \in Figures BY DEF RowOK, LearnedRows
<1>2. r.base = [v |-> r.base.v, h |-> r.base.h, at |-> r.base.at] BY <1>1 DEF Figures
<1>3. CASE Launched(r) /\ ~IsSpill(r.base, r.snap)
  <2>1. r.snap = r.base BY <1>3 DEF RowOK
  <2> QED BY <2>1, <1>2, <1>3 DEF Paint
<1>4. CASE ~(Launched(r) /\ ~IsSpill(r.base, r.snap)) BY <1>2, <1>4 DEF Paint
<1> QED BY <1>3, <1>4

LEMMA BoundIs ==
    /\ MaxMeasures \in Nat /\ NoHost \in Int /\ \A m \in Measures : m.v \in Int /\ m.h \in Int
    /\ \A k \in RowKeys : k.ctx \in Int
<1>1. NoHost \in Int BY DEF NoHost
<1>2. MaxMeasures \in Nat /\ (\A m \in Measures : m.v \in Nat /\ m.h \in Nat \cup {NoHost}) /\ RowKeys \subseteq Fingerprints
  BY VramLearnAssumption
<1>3. \A k \in Fingerprints : k.ctx \in Int BY DEF Fingerprints
<1> QED BY <1>1, <1>2, <1>3

LEMMA LearnStarts == LearnInit => LearnInd
<1> SUFFICES ASSUME LearnInit PROVE LearnInd OBVIOUS
<1>1. DOMAIN learned = {} /\ DOMAIN need = {} BY DEF LearnInit
<1>2. clock \in 0 .. MaxMeasures BY BoundIs DEF LearnInit
<1>3. last.at = 0 BY DEF LearnInit, NoMeasure
<1> QED BY <1>1, <1>2, <1>3 DEF LearnInd, LastIsNewest

LEMMA NewRowIs ==
    /\ NewRow \in LearnedRows /\ NewRow.batch = 0 /\ NewRow.spec = "" /\ NewRow.base = NoMeasure /\ ~Launched(NewRow)
    /\ NewRow.snap = NoMeasure /\ NoMeasure \in Figures /\ NoMeasure.at = 0
    /\ (\A s \in Specs : NewRow.specs[s].at = 0) /\ (\A p \in Joints : NewRow.joints[p].at = 0)
<1>1. NoMeasure \in Figures BY DEF NoMeasure, Figures, NoHost
<1>2. [b \in BatchSizes |-> NoMeasure] \in [BatchSizes -> Figures] BY <1>1
<1>3. [s \in Specs |-> NoMeasure] \in [Specs -> Figures] BY <1>1
<1>4. [p \in Joints |-> NoMeasure] \in [Joints -> Figures] BY <1>1
<1>5. NoMeasure.at = 0 BY DEF NoMeasure
<1>6. NewRow = [base |-> NoMeasure, snap |-> NoMeasure, tried |-> NoMeasure, batch |-> 0, spec |-> "", at |-> 0,
                batches |-> [b \in BatchSizes |-> NoMeasure], specs |-> [s \in Specs |-> NoMeasure],
                joints |-> [p \in Joints |-> NoMeasure]]
  BY DEF NewRow, Joints
<1>7. NewRow \in LearnedRows BY <1>1, <1>2, <1>3, <1>4, <1>6 DEF LearnedRows
<1> QED BY <1>1, <1>5, <1>6, <1>7 DEF Launched

\* A row with its reference, known before or taken from this measurement.
LEMMA ReferencedIs ==
    ASSUME LearnInd, NEW k \in RowKeys, NEW batch \in BatchSizes, NEW spec \in Specs
    PROVE  LET r == Referenced(Row(k), batch, spec) IN
           /\ RowOK(r, clock) /\ NeedOf(k) = r.base
           /\ ~AtReference(r, batch, spec) => k \in DOMAIN learned
<1>1. PICK o : o = Row(k) OBVIOUS
<1>2. PICK r : r = Referenced(o, batch, spec) OBVIOUS
<1>3. o \in LearnedRows /\ clock \in Nat
  <2>1. clock \in Nat BY BoundIs DEF LearnInd
  <2>2. CASE k \in DOMAIN learned BY <1>1, <2>1, <2>2 DEF LearnInd, RowOK, Row
  <2>3. CASE k \notin DOMAIN learned BY <1>1, <2>1, <2>3, NewRowIs DEF Row
  <2> QED BY <2>2, <2>3
<1>4. r = [o EXCEPT !.batch = IF @ = 0 THEN batch ELSE @, !.spec = IF @ = "" THEN spec ELSE @] BY <1>2 DEF Referenced
<1>5. PICK b \in BatchSizes, s \in Specs : b = (IF o.batch = 0 THEN batch ELSE o.batch) /\ s = (IF o.spec = "" THEN spec ELSE o.spec)
  BY <1>3 DEF LearnedRows
<1>6. r = [o EXCEPT !.batch = b, !.spec = s] BY <1>3, <1>4, <1>5 DEF LearnedRows
<1>7. r \in LearnedRows BY <1>3, <1>6 DEF LearnedRows
<1>8. /\ r.batch = b /\ r.spec = s /\ r.base = o.base /\ r.snap = o.snap /\ r.specs = o.specs /\ r.joints = o.joints
  BY <1>3, <1>6 DEF LearnedRows
<1>9. CASE k \in DOMAIN learned
  <2>1. o = learned[k] /\ RowOK(o, clock) BY <1>1, <1>9 DEF Row, LearnInd
  <2>2. NeedOf(k) = r.base BY <1>8, <1>9, <2>1 DEF NeedOf, LearnInd
  <2>3. RowOK(r, clock) BY <1>5, <1>7, <1>8, <2>1 DEF RowOK, Launched
  <2> QED BY <1>1, <1>2, <1>9, <2>2, <2>3
<1>10. CASE k \notin DOMAIN learned
  <2>1. o = NewRow BY <1>1, <1>10 DEF Row
  <2>2. NeedOf(k) = r.base BY <1>8, <1>10, <2>1, NewRowIs DEF NeedOf, LearnInd
  <2>3. RowOK(r, clock)
    <3>1. r.base.at <= clock /\ r.snap.at = 0
      <4>1. r.base = NoMeasure /\ r.snap = NoMeasure BY <1>8, <2>1, NewRowIs
      <4>2. NoMeasure.at = 0 BY NewRowIs
      <4> QED BY <1>3, <4>1, <4>2
    <3>2. (\A x \in Specs : r.specs[x].at <= clock) /\ \A p \in Joints : r.joints[p].at <= clock
      <4>1. r.specs = NewRow.specs /\ r.joints = NewRow.joints BY <1>8, <2>1
      <4>2. ASSUME NEW x \in Specs PROVE r.specs[x].at <= clock
        <5>1. NewRow.specs[x].at = 0 BY NewRowIs
        <5> QED BY <1>3, <4>1, <5>1
      <4>3. ASSUME NEW p \in Joints PROVE r.joints[p].at <= clock
        <5>1. NewRow.joints[p].at = 0 BY NewRowIs
        <5> QED BY <1>3, <4>1, <5>1
      <4> QED BY <4>2, <4>3
    <3>3. r.batch \in BatchSizes /\ r.spec \in Specs BY <1>8
    <3> QED BY <3>1, <3>2, <3>3, <1>7 DEF RowOK, Launched
  <2>4. b = batch /\ s = spec BY <1>5, <2>1, NewRowIs
  <2>5. AtReference(r, batch, spec) BY <1>8, <2>4 DEF AtReference
  <2> QED BY <1>1, <1>2, <2>2, <2>3, <2>5
<1> QED BY <1>9, <1>10

\* A measurement that is stored keeps the rows as they should be.
LEMMA MeasureKeeps ==
    ASSUME LearnInd, NEW k \in RowKeys, NEW new, NEW batch \in BatchSizes, NEW spec \in Specs, NEW m \in Figures,
           NEW counts \in BOOLEAN, m.at = clock + 1, clock < MaxMeasures, RowOK(new, clock + 1),
           Save(k, new, batch, spec, m, counts), counts => Shown(new, m.v, batch, spec, clock + 1),
           DOMAIN need' = DOMAIN learned \cup {k}, need'[k] = new.base,
           \A j \in DOMAIN learned : j # k => need'[j] = need[j]
    PROVE  LearnInd'
<1>1. clock \in Nat /\ MaxMeasures \in Nat BY BoundIs DEF LearnInd
<1>2. PICK c \in Nat : c = clock' /\ c = clock + 1 BY <1>1 DEF Save
<1>3. /\ DOMAIN learned' = DOMAIN learned \cup {k}
      /\ \A j \in DOMAIN learned \cup {k} : learned'[j] = IF j = k THEN new ELSE learned[j]
  BY DEF Save
<1>4. DOMAIN learned' \subseteq RowKeys /\ DOMAIN need' = DOMAIN learned' BY <1>3 DEF LearnInd
<1>5. clock' \in 0 .. MaxMeasures BY <1>1, <1>2
<1>6. ASSUME NEW j \in DOMAIN learned, j # k PROVE RowOK(learned[j], c) /\ Older(learned[j], c)
  <2>1. PICK r : r = learned[j] OBVIOUS
  <2>2. RowOK(r, clock) BY <2>1 DEF LearnInd
  <2>3. /\ r.base \in Figures /\ \A s \in Specs : r.specs[s] \in Figures
        /\ \A p \in Joints : r.joints[p] \in Figures
    BY <2>2 DEF RowOK, LearnedRows
  <2>4. \A f \in Figures : f.at <= clock => f.at <= c /\ f.at < c BY <1>1, <1>2 DEF Figures
  <2>5. RowOK(r, c) BY <2>2, <2>3, <2>4 DEF RowOK
  <2>6. Older(r, c) BY <2>2, <2>3, <2>4 DEF RowOK, Older
  <2> QED BY <2>1, <2>5, <2>6
<1>7. \A j \in DOMAIN learned' : RowOK(learned'[j], clock') /\ need'[j] = learned'[j].base
  <2> SUFFICES ASSUME NEW j \in DOMAIN learned' PROVE RowOK(learned'[j], clock') /\ need'[j] = learned'[j].base OBVIOUS
  <2>1. CASE j = k BY <2>1, <1>2, <1>3
  <2>2. CASE j # k
    <3>1. j \in DOMAIN learned /\ learned'[j] = learned[j] BY <2>2, <1>3
    <3>2. need'[j] = need[j] /\ need[j] = learned[j].base BY <2>2, <3>1 DEF LearnInd
    <3> QED BY <2>2, <3>1, <3>2, <1>2, <1>6
  <2> QED BY <2>1, <2>2
<1>8. LastIsNewest'
  <2>1. CASE ~counts
    <3>1. last'.at = 0 BY <2>1, NewRowIs DEF Save
    <3> QED BY <3>1 DEF LastIsNewest
  <2>2. CASE counts
    <3>1. /\ last'.v = m.v /\ last'.at = m.at /\ last'.key = k /\ last'.batch = batch /\ last'.spec = spec
      BY <2>2 DEF Save
    <3>2. m.v \in Int BY DEF Figures
    <3>3. learned'[k] = new /\ k \in DOMAIN learned' BY <1>3
    <3>4. Shown(learned'[k], m.v, batch, spec, c) BY <2>2, <3>3, <1>2
    <3>5. \A j \in DOMAIN learned' : j # k => Older(learned'[j], c) BY <1>3, <1>6
    <3> QED BY <3>1, <3>2, <3>3, <3>4, <3>5, <1>2 DEF LastIsNewest, Shown, Older
  <2> QED BY <2>1, <2>2
<1> QED BY <1>4, <1>5, <1>7, <1>8 DEF LearnInd

\* A run whose knobs are not the row's reference leaves a difference.
LEMMA DeltaKeeps ==
    ASSUME LearnInd, NEW k \in RowKeys, NEW batch \in BatchSizes, NEW spec \in Specs, NEW m \in Figures,
           m.at = clock + 1, clock < MaxMeasures, NEW r, r = Referenced(Row(k), batch, spec),
           ~AtReference(r, batch, spec), Save(k, WithDelta(r, batch, spec, m), batch, spec, m, TRUE), UNCHANGED need
    PROVE  LearnInd'
<1>1. RowOK(r, clock) /\ NeedOf(k) = r.base /\ k \in DOMAIN learned BY ReferencedIs
<1>2. clock \in Nat BY DEF LearnInd
<1>3. PICK c \in Nat : c = clock + 1 BY <1>2
<1>4. r \in LearnedRows /\ r.base \in Figures /\ Paint(r) = r.base BY <1>1, PaintIsBase DEF RowOK, LearnedRows
<1>5. PICK d : d = Difference(r, m) OBVIOUS
<1>6. d \in Figures /\ d.at = c /\ d.v = m.v - r.base.v
  <2>1. m.v \in Int /\ m.h \in Int /\ m.at \in Nat /\ r.base.v \in Int /\ r.base.h \in Int BY <1>4 DEF Figures
  <2>2. PICK v \in Int : v = m.v - r.base.v BY <2>1
  <2>3. PICK h \in Int : h = IF m.h = NoHost THEN NoHost ELSE m.h - HostOr0(r.base.h) BY <2>1 DEF NoHost, HostOr0
  <2>4. d = [v |-> v, h |-> h, at |-> m.at] BY <1>4, <1>5, <2>2, <2>3 DEF Difference
  <2> QED BY <2>1, <2>2, <2>4, <1>3 DEF Figures
<1>7. PICK new : new = WithDelta(r, batch, spec, m) OBVIOUS
<1>8. r.batches \in [BatchSizes -> Figures] /\ r.specs \in [Specs -> Figures] /\ r.joints \in [Joints -> Figures]
  BY <1>4 DEF LearnedRows
<1>9. RowOK(new, c) /\ new.base = r.base /\ Shown(new, m.v, batch, spec, c)
  <2>0. \A f \in Figures : f.at <= clock => f.at <= c BY <1>2, <1>3 DEF Figures
  <2>1. CASE r.batch # batch /\ r.spec # spec
    <3>1. PICK js \in [Joints -> Figures] : js = [r.joints EXCEPT ![<<batch, spec>>] = d] BY <1>6, <1>8
    <3>2. new = [r EXCEPT !.joints = js] BY <2>1, <3>1, <1>5, <1>7 DEF WithDelta
    <3>3. new \in LearnedRows BY <3>2, <1>4 DEF LearnedRows
    <3>4. /\ new.base = r.base /\ new.snap = r.snap /\ new.batch = r.batch /\ new.spec = r.spec /\ new.specs = r.specs
          /\ new.joints = js
      BY <3>2, <1>4 DEF LearnedRows
    <3>5. <<batch, spec>> \in Joints BY DEF Joints
    <3>6. js[<<batch, spec>>] = d /\ \A p \in Joints : p # <<batch, spec>> => js[p] = r.joints[p] BY <3>1, <3>5, <1>8
    <3>7. \A p \in Joints : js[p].at <= c BY <3>6, <2>0, <1>1, <1>6, <1>8 DEF RowOK
    <3>8. r.base.at <= c /\ \A s \in Specs : r.specs[s].at <= c BY <2>0, <1>1, <1>4, <1>8 DEF RowOK
    <3>9. RowOK(new, c) BY <3>3, <3>4, <3>7, <3>8, <1>1 DEF RowOK, Launched
    <3> QED BY <2>1, <3>4, <3>6, <3>9, <1>6 DEF Shown
  <2>2. CASE r.batch # batch /\ r.spec = spec
    <3>1. PICK bs \in [BatchSizes -> Figures] : bs = [r.batches EXCEPT ![batch] = d] BY <1>6, <1>8
    <3>2. new = [r EXCEPT !.batches = bs] BY <2>2, <3>1, <1>5, <1>7 DEF WithDelta
    <3>3. new \in LearnedRows BY <3>2, <1>4 DEF LearnedRows
    <3>4. /\ new.base = r.base /\ new.snap = r.snap /\ new.batch = r.batch /\ new.spec = r.spec /\ new.specs = r.specs
          /\ new.joints = r.joints /\ new.batches = bs
      BY <3>2, <1>4 DEF LearnedRows
    <3>5. bs[batch] = d BY <3>1, <1>8
    <3>6. r.base.at <= c /\ (\A s \in Specs : r.specs[s].at <= c) /\ \A p \in Joints : r.joints[p].at <= c
      BY <2>0, <1>1, <1>4, <1>8 DEF RowOK
    <3>7. RowOK(new, c) BY <3>3, <3>4, <3>6, <1>1 DEF RowOK, Launched
    <3> QED BY <2>2, <3>4, <3>5, <3>7, <1>6 DEF Shown
  <2>3. CASE r.batch = batch /\ r.spec # spec
    <3>1. PICK ss \in [Specs -> Figures] : ss = [r.specs EXCEPT ![spec] = d] BY <1>6, <1>8
    <3>2. new = [r EXCEPT !.specs = ss] BY <2>3, <3>1, <1>5, <1>7 DEF WithDelta
    <3>3. new \in LearnedRows BY <3>2, <1>4 DEF LearnedRows
    <3>4. /\ new.base = r.base /\ new.snap = r.snap /\ new.batch = r.batch /\ new.spec = r.spec /\ new.specs = ss
          /\ new.joints = r.joints
      BY <3>2, <1>4 DEF LearnedRows
    <3>5. ss[spec] = d /\ \A s \in Specs : s # spec => ss[s] = r.specs[s] BY <3>1, <1>8
    <3>6. \A s \in Specs : ss[s].at <= c BY <3>5, <2>0, <1>1, <1>6, <1>8 DEF RowOK
    <3>7. r.base.at <= c /\ \A p \in Joints : r.joints[p].at <= c BY <2>0, <1>1, <1>4, <1>8 DEF RowOK
    <3>8. RowOK(new, c) BY <3>3, <3>4, <3>6, <3>7, <1>1 DEF RowOK, Launched
    <3> QED BY <2>3, <3>4, <3>5, <3>8, <1>6 DEF Shown
  <2> QED BY <2>1, <2>2, <2>3 DEF AtReference
<1>10. DOMAIN need' = DOMAIN learned \cup {k} /\ need'[k] = new.base BY <1>1, <1>9 DEF NeedOf, LearnInd
<1>11. Save(k, new, batch, spec, m, TRUE) BY <1>7
<1>12. RowOK(new, clock + 1) /\ Shown(new, m.v, batch, spec, clock + 1) BY <1>3, <1>9
<1> QED BY <1>10, <1>11, <1>12, MeasureKeeps

LEMMA TableKeeps ==
    ASSUME LearnInd, NEW k \in RowKeys, NEW batch \in BatchSizes, NEW spec \in Specs, NEW table \in Measures,
           AppendTable(k, batch, spec, table)
    PROVE  LearnInd'
<1>1. PICK r : r = Referenced(Row(k), batch, spec) OBVIOUS
<1>2. PICK m : m = Measured(table) OBVIOUS
<1>3. clock \in Nat /\ clock < MaxMeasures BY DEF LearnInd, AppendTable
<1>4. m \in Figures /\ m.at = clock + 1
  <2>1. table.v \in Int /\ table.h \in Int BY BoundIs
  <2>2. m = [v |-> table.v, h |-> table.h, at |-> clock + 1] BY <1>2 DEF Measured
  <2> QED BY <2>1, <2>2, <1>3 DEF Figures
<1>5. RowOK(r, clock) /\ NeedOf(k) = r.base BY <1>1, ReferencedIs
<1>6. CASE ~AtReference(r, batch, spec)
  <2>1. Save(k, WithDelta(r, batch, spec, m), batch, spec, m, TRUE) /\ UNCHANGED need
    BY <1>1, <1>2, <1>6 DEF AppendTable
  <2> QED BY <2>1, <1>1, <1>3, <1>4, <1>6, DeltaKeeps
<1>7. CASE AtReference(r, batch, spec)
  <2>1. PICK new : new = WithTable(r, m) OBVIOUS
  <2>2. PICK counts \in BOOLEAN : counts <=> Paint(new).at = m.at OBVIOUS
  <2>3. Save(k, new, batch, spec, m, counts) /\ Needs(k, IF Launched(r) THEN NeedOf(k) ELSE Paint(new))
    BY <1>1, <1>2, <1>7, <2>1, <2>2 DEF AppendTable, Save
  <2>4. PICK c \in Nat : c = clock + 1 BY <1>3
  <2>5. r \in LearnedRows /\ r.base \in Figures /\ r.base.at \in Nat /\ r.base.at <= clock BY <1>5 DEF RowOK, LearnedRows, Figures
  <2>6. /\ new \in LearnedRows /\ new.snap = r.snap /\ new.batch = r.batch /\ new.spec = r.spec /\ new.specs = r.specs
        /\ new.joints = r.joints /\ (new.base = r.base \/ (new.base = m /\ ~Launched(r)))
    <3>1. CASE r.tried.at # 0 /\ r.tried.v = m.v /\ r.tried.h = m.h
      <4>1. new = [r EXCEPT !.at = m.at] BY <2>1, <3>1 DEF WithTable
      <4>2. m.at \in Nat BY <1>4 DEF Figures
      <4> QED BY <4>1, <4>2, <2>5 DEF LearnedRows
    <3>2. CASE ~(r.tried.at # 0 /\ r.tried.v = m.v /\ r.tried.h = m.h)
      <4>1. PICK f \in Figures : f = (IF MayPromote(r, m) THEN m ELSE r.base) BY <1>4, <2>5
      <4>2. new = [r EXCEPT !.tried = m, !.at = m.at, !.base = f] BY <2>1, <3>2, <4>1, <2>5 DEF WithTable, LearnedRows
      <4>3. m.at \in Nat BY <1>4 DEF Figures
      <4>4. new \in LearnedRows BY <4>2, <4>3, <1>4, <2>5 DEF LearnedRows
      <4>5. /\ new.snap = r.snap /\ new.batch = r.batch /\ new.spec = r.spec /\ new.specs = r.specs
            /\ new.joints = r.joints /\ new.base = f
        BY <4>2, <2>5 DEF LearnedRows
      <4> QED BY <4>1, <4>4, <4>5 DEF MayPromote
    <3> QED BY <3>1, <3>2
  <2>7. RowOK(new, c)
    <3>1. \A f \in Figures : f.at <= clock => f.at <= c BY <1>3, <2>4 DEF Figures
    <3>2. new.base.at <= c
      <4>1. r.base.at <= c /\ m.at <= c BY <2>4, <2>5, <1>3, <1>4
      <4> QED BY <4>1, <2>6
    <3>3. (\A s \in Specs : new.specs[s].at <= c) /\ \A p \in Joints : new.joints[p].at <= c
      BY <3>1, <2>5, <2>6, <1>5 DEF RowOK, LearnedRows
    <3> QED BY <3>2, <3>3, <2>6, <1>5 DEF RowOK, Launched
  <2>8. Paint(new) = new.base BY <2>7, PaintIsBase
  <2>9. counts => Shown(new, m.v, batch, spec, c)
    <3> SUFFICES ASSUME counts PROVE Shown(new, m.v, batch, spec, c) OBVIOUS
    <3>1. new.base.at = clock + 1 BY <2>2, <2>8, <1>4
    <3>2. new.base = m BY <3>1, <2>5, <2>6, <1>3
    <3> QED BY <3>2, <2>6, <1>7 DEF Shown, AtReference
  <2>10. (IF Launched(r) THEN NeedOf(k) ELSE Paint(new)) = new.base BY <2>6, <2>8, <1>5
  <2>11. /\ DOMAIN need' = DOMAIN learned \cup {k} /\ need'[k] = new.base
         /\ \A j \in DOMAIN learned : j # k => need'[j] = need[j]
    BY <2>3, <2>10 DEF Needs, LearnInd
  <2>12. RowOK(new, clock + 1) /\ (counts => Shown(new, m.v, batch, spec, clock + 1)) BY <2>4, <2>7, <2>9
  <2> QED BY <2>3, <2>11, <2>12, <1>3, <1>4, MeasureKeeps
<1> QED BY <1>6, <1>7

LEMMA SnapshotKeeps ==
    ASSUME LearnInd, NEW k \in RowKeys, NEW batch \in BatchSizes, NEW spec \in Specs, NEW found \in Measures,
           RecordLaunch(k, batch, spec, found)
    PROVE  LearnInd'
<1>1. PICK r : r = Referenced(Row(k), batch, spec) OBVIOUS
<1>2. PICK m : m = Measured(found) OBVIOUS
<1>3. clock \in Nat /\ clock < MaxMeasures BY DEF LearnInd, RecordLaunch
<1>4. m \in Figures /\ m.at = clock + 1
  <2>1. found.v \in Int /\ found.h \in Int BY BoundIs
  <2>2. m = [v |-> found.v, h |-> found.h, at |-> clock + 1] BY <1>2 DEF Measured
  <2> QED BY <2>1, <2>2, <1>3 DEF Figures
<1>5. RowOK(r, clock) /\ NeedOf(k) = r.base BY <1>1, ReferencedIs
<1>6. CASE ~AtReference(r, batch, spec)
  <2>1. Save(k, WithDelta(r, batch, spec, m), batch, spec, m, TRUE) /\ UNCHANGED need
    BY <1>1, <1>2, <1>6 DEF RecordLaunch
  <2> QED BY <2>1, <1>1, <1>3, <1>4, <1>6, DeltaKeeps
<1>7. CASE AtReference(r, batch, spec)
  <2>1. PICK new : new = WithLaunch(r, m) OBVIOUS
  <2>2. PICK kept \in BOOLEAN : kept <=> IsSpill(r.base, m) BY DEF IsSpill
  <2>3. Save(k, new, batch, spec, m, ~kept) /\ Needs(k, IF kept THEN r.base ELSE m)
    BY <1>1, <1>2, <1>5, <1>7, <2>1, <2>2 DEF RecordLaunch, Save
  <2>4. PICK c \in Nat : c = clock + 1 BY <1>3
  <2>5. r \in LearnedRows /\ r.base \in Figures /\ r.base.at \in Nat /\ r.base.at <= clock BY <1>5 DEF RowOK, LearnedRows, Figures
  <2>6. /\ new \in LearnedRows /\ new.snap = m /\ new.batch = r.batch /\ new.spec = r.spec /\ new.specs = r.specs
        /\ new.joints = r.joints /\ new.base = IF kept THEN r.base ELSE m
    <3>1. PICK f \in Figures : f = (IF kept THEN r.base ELSE m) BY <1>4, <2>5
    <3>2. new = [r EXCEPT !.snap = m, !.at = m.at, !.base = f] BY <2>1, <2>2, <3>1, <2>5 DEF WithLaunch, LearnedRows
    <3>3. m.at \in Nat BY <1>4 DEF Figures
    <3>4. new \in LearnedRows BY <3>2, <3>3, <1>4, <2>5 DEF LearnedRows
    <3> QED BY <3>1, <3>2, <3>4, <2>5 DEF LearnedRows
  <2>7. RowOK(new, c)
    <3>1. \A f \in Figures : f.at <= clock => f.at <= c BY <1>3, <2>4 DEF Figures
    <3>2. new.base.at <= c
      <4>1. r.base.at <= c /\ m.at <= c BY <2>4, <2>5, <1>3, <1>4
      <4> QED BY <4>1, <2>6
    <3>3. (\A s \in Specs : new.specs[s].at <= c) /\ \A p \in Joints : new.joints[p].at <= c
      BY <3>1, <2>5, <2>6, <1>5 DEF RowOK, LearnedRows
    <3>4. IsSpill(new.base, new.snap) \/ new.snap = new.base BY <2>2, <2>6
    <3> QED BY <3>2, <3>3, <3>4, <2>6, <1>5 DEF RowOK
  <2>8. ~kept => Shown(new, m.v, batch, spec, c) BY <2>6, <1>7 DEF Shown, AtReference
  <2>9. /\ DOMAIN need' = DOMAIN learned \cup {k} /\ need'[k] = new.base
        /\ \A j \in DOMAIN learned : j # k => need'[j] = need[j]
    BY <2>3, <2>6 DEF Needs, LearnInd
  <2>10. RowOK(new, clock + 1) /\ (~kept => Shown(new, m.v, batch, spec, clock + 1)) BY <2>4, <2>7, <2>8
  <2>11. (~kept) \in BOOLEAN OBVIOUS
  <2> QED BY <2>3, <2>9, <2>10, <2>11, <1>3, <1>4, MeasureKeeps
<1> QED BY <1>6, <1>7

LEMMA PruneKeeps == ASSUME LearnInd, NEW ctxs, Prune(ctxs) PROVE LearnInd'
<1>1. PICK keep : keep = {k \in DOMAIN learned : k.ctx \notin ctxs} OBVIOUS
<1>2. keep \subseteq DOMAIN learned /\ learned' = [k \in keep |-> learned[k]] /\ need' = [k \in keep |-> need[k]]
      /\ last' = NoMeasure /\ clock' = clock
  BY <1>1 DEF Prune
<1>3. LastIsNewest' BY <1>2, NewRowIs DEF LastIsNewest
<1> QED BY <1>2, <1>3 DEF LearnInd

LEMMA LearnKeeps == LearnInd /\ [LearnNext]_learnVars => LearnInd'
<1> SUFFICES ASSUME LearnInd, [LearnNext]_learnVars PROVE LearnInd' OBVIOUS
<1>1. CASE UNCHANGED learnVars
  <2>1. UNCHANGED <<learned, clock, need, last>> BY <1>1 DEF learnVars
  <2> QED BY <2>1 DEF LearnInd, LastIsNewest
<1>2. ASSUME NEW k \in RowKeys, NEW batch \in BatchSizes, NEW spec \in Specs, NEW m \in Measures,
             AppendTable(k, batch, spec, m) \/ RecordLaunch(k, batch, spec, m)
      PROVE  LearnInd'
  BY <1>2, TableKeeps, SnapshotKeeps
<1>3. ASSUME NEW c, Prune({c}) PROVE LearnInd' BY <1>3, PruneKeeps
<1> QED BY <1>1, <1>2, <1>3 DEF LearnNext

-----------------------------------------------------------------------------
(* What the readers make of the rows *)

\* With one row for context, ubatch and slots, the curve has the figures of
\* that row with what its additions add.
LEMMA CurveIs ==
    ASSUME LearnInd, NEW k \in DOMAIN learned, Alone(k), NEW batch, NEW spec, NEW a,
           Additions(k, batch, spec) = {a}, learned[k].base.v + a.v > 0
    PROVE  CurveAt(k.ctx, batch, k.ub, k.par, spec) =
               {[v |-> learned[k].base.v + a.v, h |-> Plus(learned[k].base.h, a.h), at |-> learned[k].at]}
<1>1. RowOK(learned[k], clock) BY DEF LearnInd
<1>2. Paint(learned[k]) = learned[k].base /\ learned[k].at \in Nat BY <1>1, PaintIsBase DEF RowOK, LearnedRows
<1>3. {j \in DOMAIN learned : j.ctx = k.ctx /\ j.ub = k.ub /\ j.par = k.par} = {k} BY DEF Alone
<1>4. PICK c : c = [v |-> learned[k].base.v + a.v, h |-> Plus(learned[k].base.h, a.h), at |-> learned[k].at] OBVIOUS
<1> DEFINE of(j) == {[v |-> Paint(learned[j]).v + b.v, h |-> Plus(Paint(learned[j]).h, b.h), at |-> learned[j].at] :
                       b \in Additions(j, batch, spec)}
<1>5. of(k) = {c} BY <1>2, <1>4
<1> HIDE DEF of
<1>6. UNION {of(j) : j \in {k}} = {c} BY <1>5
<1>7. c.v > 0 /\ c.at <= c.at BY <1>2, <1>4
<1>8. {p \in {c} : p.v > 0} = {c} BY <1>7
<1>9. Newest({c}) = {c} BY <1>7 DEF Newest
<1>10. CurveAt(k.ctx, batch, k.ub, k.par, spec) = Newest({p \in UNION {of(j) : j \in {k}} : p.v > 0})
  BY <1>3 DEF CurveAt, of
<1> QED BY <1>4, <1>6, <1>8, <1>9, <1>10

LEMMA ReadersDoAgree == LearnInd => ReadersAgree
<1> SUFFICES ASSUME LearnInd, NEW k \in DOMAIN learned, NEW r, r = learned[k], Alone(k), r.base.v > 0
             PROVE  /\ Card(k, r.spec) = {[v |-> r.base.v, h |-> r.base.h]} /\ Plan(k.ctx, k.ub, k.par) = {r.base.v}
                    /\ \A c \in CurveAt(k.ctx, r.batch, k.ub, k.par, r.spec) : c.v = r.base.v /\ c.h = r.base.h
                    /\ CurveAt(k.ctx, r.batch, k.ub, k.par, r.spec) # {}
  BY PaintIsBase DEF ReadersAgree, LearnInd
<1>1. RowOK(r, clock) BY DEF LearnInd
<1>2. Paint(r) = r.base /\ r.base.v \in Int /\ r.base.h \in Int BY <1>1, PaintIsBase DEF RowOK, LearnedRows, Figures
<1>3. Card(k, r.spec) = {[v |-> r.base.v, h |-> r.base.h]}
  <2>1. Lookup(k, r.spec) = {r} BY DEF Lookup
  <2>2. PICK x : x = [v |-> r.base.v, h |-> r.base.h] OBVIOUS
  <2> DEFINE of(q) == IF q.spec \in {r.spec, ""} THEN {[v |-> Paint(q).v, h |-> Paint(q).h]}
             ELSE {[v |-> Paint(q).v + a.v, h |-> Plus(Paint(q).h, a.h)] : a \in Interpolated(SpecPoints(r.spec), k.ctx)}
  <2>3. of(r) = {x} BY <1>2, <2>2
  <2>4. Card(k, r.spec) = UNION {of(q) : q \in {r}} BY <2>1 DEF Card
  <2> HIDE DEF of
  <2> QED BY <2>2, <2>3, <2>4
<1>4. Plan(k.ctx, k.ub, k.par) = {r.base.v}
  <2> DEFINE rows == {j \in DOMAIN learned : learned[j].base.v > 0 /\ j.ub = k.ub /\ j.par = k.par}
             exact == {learned[j].base.v : j \in {i \in rows : i.ctx = k.ctx}}
  <2>1. {i \in rows : i.ctx = k.ctx} = {k} BY DEF Alone
  <2>2. exact = {r.base.v} BY <2>1
  <2>3. Plan(k.ctx, k.ub, k.par) = {v \in exact : \A w \in exact : w <= v} BY <2>2 DEF Plan
  <2> HIDE DEF exact
  <2> QED BY <2>2, <2>3, <1>2
<1>5. PICK none : none = [v |-> 0, h |-> 0] OBVIOUS
<1>6. Additions(k, r.batch, r.spec) = {[v |-> 0, h |-> 0]} BY DEF Additions
<1>7. CurveAt(k.ctx, r.batch, k.ub, k.par, r.spec) =
         {[v |-> r.base.v + none.v, h |-> Plus(r.base.h, none.h), at |-> r.at]}
  <2>1. r.base.v + none.v > 0 BY <1>2, <1>5
  <2> QED BY <2>1, <1>5, <1>6, CurveIs
<1>8. r.base.v + none.v = r.base.v /\ Plus(r.base.h, none.h) = r.base.h BY <1>2, <1>5 DEF Plus
<1> QED BY <1>3, <1>4, <1>7, <1>8

\* The newest difference at a context is the one the interpolation takes.
LEMMA TakesTheNewest ==
    ASSUME NEW points, NEW d, NEW ctx \in Int, [ctx |-> ctx, d |-> d] \in points,
           \A p \in points : p.ctx \in Int, \A p \in points : p.ctx = ctx => p = [ctx |-> ctx, d |-> d]
    PROVE  Interpolated(points, ctx) = {[v |-> d.v, h |-> HostOr0(d.h)]}
<1>1. PICK x : x = [ctx |-> ctx, d |-> d] /\ x \in points /\ x.ctx = ctx /\ x.d = d OBVIOUS
<1> DEFINE below == {p \in points : p.ctx <= ctx}
           above == {p \in points : p.ctx >= ctx}
           lowest == CHOOSE p \in above : \A q \in above : p.ctx <= q.ctx
           highest == CHOOSE p \in below : \A q \in below : p.ctx >= q.ctx
<1>2. x \in below /\ x \in above BY <1>1
<1>3. highest = x
  <2>1. \A q \in below : x.ctx >= q.ctx BY <1>1
  <2>2. highest \in below /\ \A q \in below : highest.ctx >= q.ctx BY <1>2, <2>1
  <2>3. highest.ctx = ctx BY <1>1, <1>2, <2>2
  <2> QED BY <1>1, <2>2, <2>3
<1>4. lowest = x
  <2>1. \A q \in above : x.ctx <= q.ctx BY <1>1
  <2>2. lowest \in above /\ \A q \in above : lowest.ctx <= q.ctx BY <1>2, <2>1
  <2>3. lowest.ctx = ctx BY <1>1, <1>2, <2>2
  <2> QED BY <1>1, <2>2, <2>3
<1>5. points # {} /\ below # {} /\ above # {} BY <1>1, <1>2
<1> DEFINE l == IF below = {} THEN lowest ELSE highest
           u == IF above = {} THEN highest ELSE lowest
<1>6. Interpolated(points, ctx) =
         IF points = {} THEN {}
         ELSE IF l.ctx = u.ctx \/ below = {} \/ above = {} THEN {[v |-> l.d.v, h |-> HostOr0(l.d.h)]}
         ELSE {[v |-> Between(l.d.v, u.d.v, ctx - l.ctx, u.ctx - l.ctx),
                h |-> Between(HostOr0(l.d.h), HostOr0(u.d.h), ctx - l.ctx, u.ctx - l.ctx)]}
  BY DEF Interpolated
<1>7. l = x /\ u = x BY <1>3, <1>4, <1>5
<1> HIDE DEF l, u, below, above
<1> QED BY <1>1, <1>5, <1>6, <1>7

LEMMA LastRunIsShown == LearnInd => CurveShowsLastRun
<1> SUFFICES ASSUME LearnInd, last.at # 0, last.v > 0, NEW k, k = last.key, Alone(k),
                    NEW batch, batch = last.batch, NEW spec, spec = last.spec
             PROVE  {c.v : c \in CurveAt(k.ctx, batch, k.ub, k.par, spec)} = {last.v}
  BY DEF CurveShowsLastRun
<1>1. /\ last.at = clock /\ k \in DOMAIN learned /\ batch \in BatchSizes /\ spec \in Specs /\ last.v \in Int
      /\ Shown(learned[k], last.v, batch, spec, clock)
      /\ \A j \in DOMAIN learned : j # k => Older(learned[j], clock)
  BY DEF LearnInd, LastIsNewest
<1>2. PICK r : r = learned[k] OBVIOUS
<1>3. RowOK(r, clock) /\ clock \in Nat /\ clock # 0 BY <1>1, <1>2 DEF LearnInd
<1>4. r.base.v \in Int /\ r.base.h \in Int BY <1>3 DEF RowOK, LearnedRows, Figures
<1>5. \A j \in DOMAIN learned : j.ctx \in Int BY BoundIs DEF LearnInd
<1>6. PICK x \in Int : x = last.v - r.base.v /\ r.base.v + x = last.v BY <1>1, <1>4
<1>7. \E h : Additions(k, batch, spec) = {[v |-> x, h |-> h]} \/ (x = 0 /\ Additions(k, batch, spec) = {[v |-> 0, h |-> h]})
  <2>1. CASE batch = r.batch /\ spec = r.spec
    <3>1. x = 0 BY <2>1, <1>1, <1>2, <1>4, <1>6 DEF Shown
    <3>2. Additions(k, batch, spec) = {[v |-> 0, h |-> 0]} BY <2>1, <1>2 DEF Additions
    <3> QED BY <3>1, <3>2
  <2>2. CASE batch # r.batch /\ spec = r.spec
    <3>1. PICK d : d = r.batches[batch] /\ d.at # 0 /\ d.v = x BY <2>2, <1>1, <1>2, <1>3, <1>6 DEF Shown
    <3>2. Additions(k, batch, spec) = {[v |-> b.v + s.v, h |-> b.h + s.h] :
              b \in {[v |-> e.v, h |-> HostOr0(e.h)] : e \in {d}}, s \in {[v |-> 0, h |-> 0]}}
      <4> DEFINE own == IF r.batches[batch].at # 0 THEN {r.batches[batch]} ELSE BatchDelta(batch, k.ub)
                 forBatch == IF r.batch = batch \/ own = {} THEN {[v |-> 0, h |-> 0]}
                             ELSE {[v |-> e.v, h |-> HostOr0(e.h)] : e \in own}
                 forSpec == IF r.spec = spec THEN {[v |-> 0, h |-> 0]} ELSE Interpolated(SpecPoints(spec), k.ctx)
                 joint == IF r.batch # batch /\ r.spec # spec THEN Interpolated(JointPoints(batch, k.ub, spec), k.ctx) ELSE {}
      <4>1. Additions(k, batch, spec) =
               IF joint # {} THEN joint ELSE {[v |-> b.v + s.v, h |-> b.h + s.h] : b \in forBatch, s \in forSpec}
        BY <1>2 DEF Additions
      <4>2. own = {d} BY <3>1
      <4> HIDE DEF own
      <4>3. forBatch = {[v |-> e.v, h |-> HostOr0(e.h)] : e \in {d}} /\ forSpec = {[v |-> 0, h |-> 0]} /\ joint = {}
        BY <2>2, <4>2
      <4> HIDE DEF forBatch, forSpec, joint
      <4> QED BY <4>1, <4>3
    <3>3. PICK f, z : f = [v |-> x, h |-> HostOr0(d.h)] /\ z = [v |-> 0, h |-> 0] OBVIOUS
    <3>4. {[v |-> e.v, h |-> HostOr0(e.h)] : e \in {d}} = {f} BY <3>1, <3>3
    <3>5. Additions(k, batch, spec) = {[v |-> f.v + z.v, h |-> f.h + z.h]} BY <3>2, <3>3, <3>4
    <3>6. f.v + z.v = x BY <3>3
    <3> QED BY <3>5, <3>6
  <2>3. CASE batch = r.batch /\ spec # r.spec
    <3>1. PICK d : d = r.specs[spec] /\ d.at = clock /\ d.v = x BY <2>3, <1>1, <1>2, <1>3, <1>6 DEF Shown
    <3> DEFINE all == {p \in {[ctx |-> j.ctx, d |-> learned[j].specs[spec]] : j \in DOMAIN learned} : p.d.at # 0}
    <3>11. PICK y : y = [ctx |-> k.ctx, d |-> d] OBVIOUS
    <3>2. y = [ctx |-> k.ctx, d |-> d] /\ y.ctx = k.ctx /\ y.d = d BY <3>11
    <3>3. y \in all BY <3>1, <3>2, <1>1, <1>2, <1>3
    <3>4. \A p \in all : p.ctx \in Int /\ p.d.at \in Int /\ p.d.at <= clock /\ (p.d.at = clock => p = y)
      <4> SUFFICES ASSUME NEW j \in DOMAIN learned, NEW p, p = [ctx |-> j.ctx, d |-> learned[j].specs[spec]]
                   PROVE  p.ctx \in Int /\ p.d.at \in Int /\ p.d.at <= clock /\ (p.d.at = clock => p = y)
        OBVIOUS
      <4>1. RowOK(learned[j], clock) BY DEF LearnInd
      <4>2. learned[j].specs[spec] \in Figures /\ learned[j].specs[spec].at <= clock BY <4>1, <1>1 DEF RowOK, LearnedRows
      <4>3. j # k => learned[j].specs[spec].at < clock BY <1>1 DEF Older
      <4>4. j = k => p = y BY <3>1, <3>2, <1>2
      <4>5. p.ctx = j.ctx /\ p.d = learned[j].specs[spec] OBVIOUS
      <4>6. learned[j].specs[spec].at \in Nat BY <4>2 DEF Figures
      <4> QED BY <4>2, <4>3, <4>4, <4>5, <4>6, <1>3, <1>5
    <3> HIDE DEF all
    <3>5. SpecPoints(spec) = NewestPerCtx(all) BY DEF SpecPoints, all
    <3>6. y \in NewestPerCtx(all) BY <3>1, <3>2, <3>3, <3>4 DEF NewestPerCtx
    <3>7. \A p \in NewestPerCtx(all) : p.ctx \in Int /\ (p.ctx = k.ctx => p = y)
      <4> SUFFICES ASSUME NEW p \in NewestPerCtx(all) PROVE p.ctx \in Int /\ (p.ctx = k.ctx => p = y) OBVIOUS
      <4>1. p \in all /\ (p.ctx = k.ctx => d.at <= p.d.at) BY <3>2, <3>3 DEF NewestPerCtx
      <4> QED BY <4>1, <3>1, <3>4, <1>3
    <3>8. Interpolated(SpecPoints(spec), k.ctx) = {[v |-> d.v, h |-> HostOr0(d.h)]}
      BY <3>2, <3>5, <3>6, <3>7, <1>1, <1>5, TakesTheNewest
    <3>9. Additions(k, batch, spec) = {[v |-> b.v + s.v, h |-> b.h + s.h] :
              b \in {[v |-> 0, h |-> 0]}, s \in {[v |-> d.v, h |-> HostOr0(d.h)]}}
      BY <2>3, <3>8, <1>2 DEF Additions
    <3>10. Additions(k, batch, spec) = {[v |-> 0 + x, h |-> 0 + HostOr0(d.h)]} BY <3>1, <3>9
    <3> QED BY <3>10
  <2>4. CASE batch # r.batch /\ spec # r.spec
    <3>1. PICK d : d = r.joints[<<batch, spec>>] /\ d.at = clock /\ d.v = x BY <2>4, <1>1, <1>2, <1>3, <1>6 DEF Shown
    <3>0. <<batch, spec>> \in Joints BY <1>1 DEF Joints
    <3> DEFINE all == {p \in {[ctx |-> j.ctx, d |-> learned[j].joints[<<batch, spec>>]] :
                                j \in {i \in DOMAIN learned : i.ub = k.ub}} : p.d.at # 0}
    <3>11. PICK y : y = [ctx |-> k.ctx, d |-> d] OBVIOUS
    <3>2. y = [ctx |-> k.ctx, d |-> d] /\ y.ctx = k.ctx /\ y.d = d BY <3>11
    <3>3. y \in all BY <3>1, <3>2, <1>1, <1>2, <1>3
    <3>4. \A p \in all : p.ctx \in Int /\ p.d.at \in Int /\ p.d.at <= clock /\ (p.d.at = clock => p = y)
      <4> SUFFICES ASSUME NEW j \in DOMAIN learned, NEW p, p = [ctx |-> j.ctx, d |-> learned[j].joints[<<batch, spec>>]]
                   PROVE  p.ctx \in Int /\ p.d.at \in Int /\ p.d.at <= clock /\ (p.d.at = clock => p = y)
        OBVIOUS
      <4>1. RowOK(learned[j], clock) BY DEF LearnInd
      <4>2. learned[j].joints[<<batch, spec>>] \in Figures /\ learned[j].joints[<<batch, spec>>].at <= clock
        BY <4>1, <3>0 DEF RowOK, LearnedRows
      <4>3. j # k => learned[j].joints[<<batch, spec>>].at < clock BY <3>0, <1>1 DEF Older
      <4>4. j = k => p = y BY <3>1, <3>2, <1>2
      <4>5. p.ctx = j.ctx /\ p.d = learned[j].joints[<<batch, spec>>] OBVIOUS
      <4>6. learned[j].joints[<<batch, spec>>].at \in Nat BY <4>2 DEF Figures
      <4> QED BY <4>2, <4>3, <4>4, <4>5, <4>6, <1>3, <1>5
    <3> HIDE DEF all
    <3>5. JointPoints(batch, k.ub, spec) = NewestPerCtx(all) BY DEF JointPoints, all
    <3>6. y \in NewestPerCtx(all) BY <3>1, <3>2, <3>3, <3>4 DEF NewestPerCtx
    <3>7. \A p \in NewestPerCtx(all) : p.ctx \in Int /\ (p.ctx = k.ctx => p = y)
      <4> SUFFICES ASSUME NEW p \in NewestPerCtx(all) PROVE p.ctx \in Int /\ (p.ctx = k.ctx => p = y) OBVIOUS
      <4>1. p \in all /\ (p.ctx = k.ctx => d.at <= p.d.at) BY <3>2, <3>3 DEF NewestPerCtx
      <4> QED BY <4>1, <3>1, <3>4, <1>3
    <3>8. Interpolated(JointPoints(batch, k.ub, spec), k.ctx) = {[v |-> d.v, h |-> HostOr0(d.h)]}
      BY <3>2, <3>5, <3>6, <3>7, <1>1, <1>5, TakesTheNewest
    <3>9. Additions(k, batch, spec) = {[v |-> d.v, h |-> HostOr0(d.h)]}
      <4> DEFINE joint == IF r.batch # batch /\ r.spec # spec THEN Interpolated(JointPoints(batch, k.ub, spec), k.ctx) ELSE {}
      <4>1. joint # {} => Additions(k, batch, spec) = joint BY <1>2 DEF Additions
      <4>2. joint = {[v |-> d.v, h |-> HostOr0(d.h)]} BY <2>4, <3>8
      <4> HIDE DEF joint
      <4> QED BY <4>1, <4>2
    <3> QED BY <3>1, <3>9
  <2> QED BY <2>1, <2>2, <2>3, <2>4
<1>8. PICK h : Additions(k, batch, spec) = {[v |-> x, h |-> h]}
  <2>1. PICK h : Additions(k, batch, spec) = {[v |-> x, h |-> h]} \/ (x = 0 /\ Additions(k, batch, spec) = {[v |-> 0, h |-> h]})
    BY <1>7
  <2>2. Additions(k, batch, spec) = {[v |-> x, h |-> h]} BY <2>1
  <2> QED BY <2>2
<1>9. PICK a : a = [v |-> x, h |-> h] OBVIOUS
<1>11. a.v = x BY <1>9
<1>10. CurveAt(k.ctx, batch, k.ub, k.par, spec) = {[v |-> r.base.v + a.v, h |-> Plus(r.base.h, a.h), at |-> r.at]}
  <2>1. learned[k].base.v + a.v > 0 BY <1>2, <1>6, <1>11
  <2> QED BY <2>1, <1>1, <1>2, <1>8, <1>9, CurveIs
<1> QED BY <1>6, <1>11, <1>10

LEMMA LearnPromises == LearnInd => LearnInv
<1> SUFFICES ASSUME LearnInd PROVE LearnInv OBVIOUS
<1>1. LearnTypeOK BY DEF LearnInd, LearnTypeOK, RowOK
<1>2. PaintIsNeed BY PaintIsBase DEF LearnInd, PaintIsNeed
<1> QED BY <1>1, <1>2, ReadersDoAgree, LastRunIsShown DEF LearnInv

\* The figures a row shows come from the last launch that was no spill, the
\* three readers agree on them, and the last run is what the curve shows.
THEOREM LearnKept == LearnSpec => []LearnInv
<1>1. LearnSpec => []LearnInd BY LearnStarts, LearnKeeps, PTL DEF LearnSpec
<1> QED BY <1>1, LearnPromises, PTL
=============================================================================

---------------------------- MODULE Distribution ----------------------------
(***************************************************************************)
(* The release desk of distribution.rs.  Packing and shipping run as a     *)
(* chain in a console of its own that survives the app; app and chain      *)
(* share nothing but a status file, which the start of a chain, the chain  *)
(* and the panel's poll all write.  The other half is the distribution     *)
(* policy with what is derived from it: the factory files and the catalog  *)
(* of plugins.  The halves share no state: a behaviour runs one of them.   *)
(***************************************************************************)
EXTENDS Naturals, FiniteSets

CONSTANTS Chains,     \* starts of a detached chain; also the pids of the chains
          Plugins,    \* providers that are not core
          LiveIds,    \* those of them in the app's configuration
          MaxFaultySets   \* bound: role changes that fail half-way
ASSUME DistributionBounds == Chains \subseteq Nat \ {0} /\ LiveIds \subseteq Plugins

VARIABLES
    desk,       \* the half that runs
    jobStatus,     \* job-status.json: state and pid
    launcher,   \* run_dev_release_action and spawn_detached_chain of each start
    chain,      \* run-detached-chain.ps1 of each start
    healer,     \* heal_stale_running_job: the pid it has read, or NotHealing
    inlineJob,  \* RELEASE_JOB_RUNNING
    policy,     \* distribution-policy.json: its plugins
    factory,    \* the factory file of each: none, without and with optionalDownload
    catalog,    \* plugins.json
    faultySets,
    \* history: a seed was healed although its chain was coming up; a start
    \* was asked for while one was under way; the newest start; the last
    \* change of a role failed
    hasty, overlapping, newest, setFailed

jobVars == <<jobStatus, launcher, chain, healer, inlineJob, hasty, overlapping, newest>>
policyVars == <<policy, factory, catalog, faultySets, setFailed>>
deskVars == <<desk, jobVars, policyVars>>

NotHealing == [on |-> FALSE, pid |-> 0]
DeskInit ==
    /\ desk \in {"jobs", "policy"}
    /\ jobStatus = [state |-> "idle", pid |-> 0]
    /\ launcher = [l \in Chains |-> [pc |-> "idle", knows |-> FALSE]]
    /\ chain = [l \in Chains |-> "none"] /\ healer = NotHealing /\ inlineJob = FALSE
    /\ hasty = FALSE /\ overlapping = FALSE /\ newest = 0
    /\ policy = {} /\ catalog = {} /\ factory \in [Plugins -> {"none", "off"}]
    /\ faultySets = 0 /\ setFailed = FALSE

-----------------------------------------------------------------------------
(* Starting a chain *)

UnderWay(l) == launcher[l].pc \notin {"idle", "done"}
Goes(l, pc) == launcher' = [launcher EXCEPT ![l].pc = pc]
Report(state, pid) == jobStatus' = [state |-> state, pid |-> pid]

AskUnchecked(l) ==   \* variant: a running job is not refused
    /\ launcher[l].pc = "idle" /\ newest < l
    /\ Goes(l, "checked") /\ newest' = l
    /\ overlapping' = (overlapping \/ \E k \in Chains : UnderWay(k))
    /\ UNCHANGED <<jobStatus, chain, healer, inlineJob, hasty>>
\* run_dev_release_action refuses while the status says running
Ask(l) ==
    /\ launcher[l].pc = "idle" /\ newest < l /\ jobStatus.state # "running"
    /\ Goes(l, "checked") /\ newest' = l
    /\ overlapping' = (overlapping \/ \E k \in Chains : UnderWay(k))
    /\ UNCHANGED <<jobStatus, chain, healer, inlineJob, hasty>>

\* the status is seeded as running with no pid yet, or cannot be written
Seed(l) ==
    /\ launcher[l].pc = "checked"
    /\ \/ Goes(l, "seeded") /\ Report("running", 0)
       \/ Goes(l, "done") /\ UNCHANGED jobStatus
    /\ UNCHANGED <<chain, healer, inlineJob, hasty, overlapping, newest>>

\* Start-Process tells the pid; "cmd start" does not; or all ways fail
StartChain(l) ==
    /\ launcher[l].pc = "seeded"
    /\ \/ /\ \E knows \in BOOLEAN : launcher' = [launcher EXCEPT ![l] = [pc |-> "spawned", knows |-> knows]]
          /\ chain' = [chain EXCEPT ![l] = "booting"]
       \/ Goes(l, "done") /\ UNCHANGED chain
    /\ UNCHANGED <<jobStatus, healer, inlineJob, hasty, overlapping, newest>>

\* 1.2 s later the status is read, and written if it still has no pid
LooksAgain(l) ==
    /\ launcher[l].pc = "spawned"
    /\ Goes(l, IF jobStatus.pid = 0 /\ launcher[l].knows THEN "unclaimed" ELSE "done")
    /\ UNCHANGED <<jobStatus, chain, healer, inlineJob, hasty, overlapping, newest>>
ClaimForChain(l) ==
    /\ launcher[l].pc = "unclaimed" /\ Goes(l, "done") /\ Report("running", l)
    /\ UNCHANGED <<chain, healer, inlineJob, hasty, overlapping, newest>>

-----------------------------------------------------------------------------
(* The chain *)

ChainTurns(l, st) == chain' = [chain EXCEPT ![l] = st]
ChainBoots(l) ==
    /\ chain[l] = "booting" /\ ChainTurns(l, "working") /\ Report("running", l)
    /\ UNCHANGED <<launcher, healer, inlineJob, hasty, overlapping, newest>>
\* each step of the chain reports again
ChainReports(l) ==
    /\ chain[l] = "working" /\ Report("running", l)
    /\ UNCHANGED <<launcher, chain, healer, inlineJob, hasty, overlapping, newest>>
\* no chain is done within the second that its start or a poll takes
ChainEnds(l) ==
    /\ chain[l] = "working"
    /\ \/ ~UnderWay(l) /\ healer # [on |-> TRUE, pid |-> 0] /\ ChainTurns(l, "ok") /\ Report("ok", l)
       \/ ChainTurns(l, "failed") /\ Report("failed", l)
    /\ UNCHANGED <<launcher, healer, inlineJob, hasty, overlapping, newest>>
\* the window stays open for eight seconds, longer than a poll takes
ChainExits(l) ==
    /\ chain[l] \in {"ok", "failed"} /\ ~(healer.on /\ healer.pid = l) /\ ChainTurns(l, "gone")
    /\ UNCHANGED <<jobStatus, launcher, healer, inlineJob, hasty, overlapping, newest>>
ChainKilled(l) ==
    /\ chain[l] \in {"booting", "working"} /\ ChainTurns(l, "gone")
    /\ UNCHANGED <<jobStatus, launcher, healer, inlineJob, hasty, overlapping, newest>>

-----------------------------------------------------------------------------
(* The poll *)

HealReads ==
    /\ ~healer.on /\ jobStatus.state = "running" /\ healer' = [on |-> TRUE, pid |-> jobStatus.pid]
    /\ UNCHANGED <<jobStatus, launcher, chain, inlineJob, hasty, overlapping, newest>>
HasExited(pid) == pid \in Chains /\ chain[pid] = "gone"
\* a seed older than 15 s, or the pid of a process that is gone
HealWrites ==
    /\ healer.on /\ healer' = NotHealing
    /\ \/ /\ healer.pid = 0 \/ HasExited(healer.pid)
          /\ Report("failed", healer.pid)
          /\ hasty' = (hasty \/ (healer.pid = 0 /\ \E l \in Chains :
                          UnderWay(l) \/ chain[l] \in {"booting", "working"}))
       \/ ~HasExited(healer.pid) /\ UNCHANGED <<jobStatus, hasty>>
    /\ UNCHANGED <<launcher, chain, inlineJob, overlapping, newest>>

\* check, bump and harness refresh run in the app, one at a time
InlineBegins == ~inlineJob /\ inlineJob' = TRUE
InlineEnds == inlineJob /\ inlineJob' = FALSE
Inline ==
    /\ InlineBegins \/ InlineEnds
    /\ UNCHANGED <<jobStatus, launcher, chain, healer, hasty, overlapping, newest>>

\* The app restarts, as it does when a bump changes its sources; a chain
\* whose start was being helped may come up all the same
AppRestarts ==
    /\ inlineJob' = FALSE /\ healer' = NotHealing
    /\ launcher' = [l \in Chains |-> IF UnderWay(l) THEN [pc |-> "done", knows |-> FALSE] ELSE launcher[l]]
    /\ \E up \in SUBSET {l \in Chains : launcher[l].pc = "seeded"} :
          chain' = [l \in Chains |-> IF l \in up THEN "booting" ELSE chain[l]]
    /\ UNCHANGED <<jobStatus, hasty, overlapping, newest>>

-----------------------------------------------------------------------------
(* The policy: set_provider_distribution runs its steps in order and ends at *)
(* the first that fails                                                      *)

Steps == <<"shell", "flag", "policy", "catalog">>
\* ensure_factory_shell
WithShell(id, shelled) == [factory EXCEPT ![id] = IF shelled THEN "on" ELSE @]
Reaches(broken, k) == \A i \in 1 .. k : Steps[i] # broken

\* broken: the step that cannot write its file; a shell needs a live provider
SetRole(id, role, broken) ==
    LET shelled == role = "plugin" /\ factory[id] = "none"
        ends == IF shelled /\ id \notin LiveIds THEN "shell" ELSE broken
        made == WithShell(id, shelled)
        wanted == IF role = "plugin" THEN policy \cup {id} ELSE policy \ {id}
    IN  /\ broken = "shell" => shelled
        /\ factory' = IF Reaches(ends, 2) /\ made[id] # "none" THEN [made EXCEPT ![id] = "on"]
                      ELSE IF Reaches(ends, 1) THEN made ELSE factory
        /\ policy' = IF Reaches(ends, 3) THEN wanted ELSE policy
        /\ catalog' = IF Reaches(ends, 4) THEN wanted ELSE catalog
        /\ setFailed' = (ends # "none")
        /\ ends # "none" => faultySets < MaxFaultySets
        /\ faultySets' = IF ends # "none" THEN faultySets + 1 ELSE faultySets

\* regenerate_distribution_catalog by itself
Regenerate ==
    /\ catalog' = policy /\ setFailed' = FALSE /\ UNCHANGED <<policy, factory, faultySets>>

PolicyNext ==
    \/ Regenerate
    \/ \E id \in Plugins, role \in {"plugin", "local"}, broken \in {"none", "shell", "flag", "policy", "catalog"} :
          SetRole(id, role, broken)
JobNext ==
    \/ \E l \in Chains : \/ Ask(l) \/ Seed(l) \/ StartChain(l) \/ LooksAgain(l) \/ ClaimForChain(l)
                         \/ ChainBoots(l) \/ ChainReports(l) \/ ChainEnds(l) \/ ChainExits(l) \/ ChainKilled(l)
    \/ HealReads \/ HealWrites \/ Inline \/ AppRestarts
DeskNext ==
    /\ UNCHANGED desk
    /\ \/ desk = "jobs" /\ JobNext /\ UNCHANGED policyVars
       \/ desk = "policy" /\ PolicyNext /\ UNCHANGED jobVars
DeskSpec == DeskInit /\ [][DeskNext]_deskVars

-----------------------------------------------------------------------------
(* Properties *)

DeskTypeOK ==
    /\ jobStatus.state \in {"idle", "running", "ok", "failed"} /\ jobStatus.pid \in Chains \cup {0}
    /\ \A l \in Chains : chain[l] \in {"none", "booting", "working", "ok", "failed", "gone"}
    /\ policy \subseteq Plugins /\ catalog \subseteq Plugins

Orderly == ~hasty /\ ~overlapping

\* While a chain works the panel says so, whoever wrote the file last: the
\* start that claims it late, the poll that heals it, an app that restarted.
WorkIsShown == Orderly => \A l \in Chains : chain[l] = "working" => jobStatus = [state |-> "running", pid |-> l]

\* No second chain packs beside the first in one tree.
OneChainWorks == Orderly => Cardinality({l \in Chains : chain[l] \in {"booting", "working"}}) <= 1

\* A release that went through is not reported as failed by the poll that
\* takes its exit for a crash.
SuccessStays == Orderly /\ newest # 0 /\ chain[newest] = "ok" => jobStatus = [state |-> "ok", pid |-> newest]
SuccessOutlivesIts ==
    Orderly => \A l \in Chains : jobStatus = [state |-> "failed", pid |-> l] => chain[l] # "ok"

\* A plugin that is shipped has its factory file, marked optional, whatever
\* step of a change failed, and the catalog lists what the policy ships.
ShippedHasFactory == \A id \in policy : factory[id] = "on"
CatalogFollows == ~setFailed => catalog = policy

DeskInv == DeskTypeOK /\ WorkIsShown /\ OneChainWorks /\ SuccessStays /\ SuccessOutlivesIts
           /\ ShippedHasFactory /\ CatalogFollows
=============================================================================

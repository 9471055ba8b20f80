--------------------------------- MODULE Pi ---------------------------------
(***************************************************************************)
(* The bundled coding agent: installs of its package under external-tools, *)
(* the extension tree and the files of its home, and the launches that     *)
(* write them and open a console.  Every command may be interleaved with   *)
(* another one, fail at every write and be cut off by a crash of the app;  *)
(* consoles are processes of their own and survive.                        *)
(***************************************************************************)
EXTENDS Integers, FiniteSets

CONSTANTS
    PiOps,       \* commands that may be under way at a time
    MaxCommands, \* bound: commands started
    MaxFaults    \* bound: failed steps and crashes

ASSUME PiAssumption == PiOps \subseteq Nat /\ MaxCommands \in Nat /\ MaxFaults \in Nat

Old == 1       \* the package and the tree of an earlier app
Pinned == 2    \* PINNED_VERSION, and the version of the shipped bundle
Latest == 3    \* the newest release

VARIABLES
    accepted,  \* the disclaimer
    pkg,       \* external-tools/pi/pi: [ver, state], state "none", "bare" (no pi.exe), "part", "all"
    stamp,     \* version.txt, 0 = none
    shim,      \* bin/pi.cmd
    zip,       \* the archive's version, 0 = none or cut off
    extract,   \* _extract: [ver, state], state "none", "part", "all", "mixed"
    bundle,    \* app_root/pi-ext: "none", "part" or "all"
    tree,      \* the home's pi-subagents: [ver, state]
    treeStamp, \* its .blackwell-version, 0 = none
    home,      \* file of the home -> the launch that wrote it, 0 = none or cut off
    consoles,  \* launches whose console runs
    op         \* command -> [pc, kind, id, ver, alone, warned]

VARIABLES
    commands, faults, \* counters for the bounds
    doubt,     \* history: an install failed or was cut off since the last one that succeeded
    mixed,     \* history: the tree was copied from an incomplete bundle, or two commands met
    broken,    \* history: the package was removed by a command that does not look for consoles,
               \* or that was not alone
    latest     \* history: what the last console was given

diskVars == <<accepted, pkg, stamp, shim, zip, extract, bundle, tree, treeStamp, home>>
historyVars == <<doubt, mixed, broken, latest>>
piVars == <<diskVars, consoles, op, commands, faults, historyVars>>

HomeFiles == {"models", "settings", "context", "config", "worker"}
PiResting == [pc |-> "rest", kind |-> "none", id |-> 0, ver |-> 0, alone |-> TRUE, warned |-> {}]
Nothing == [ver |-> 0, state |-> "none"]
NoConsole == [id |-> -1, ver |-> 0, whole |-> TRUE, sure |-> FALSE, home |-> [f \in HomeFiles |-> 0],
              tree |-> Nothing, warned |-> {}, alone |-> FALSE]

PiInit ==
    /\ \/ accepted = FALSE /\ pkg = Nothing /\ stamp = 0 /\ shim = FALSE /\ tree = Nothing /\ treeStamp = 0
       \/ /\ accepted = TRUE /\ pkg = [ver |-> Old, state |-> "all"] /\ stamp = Old /\ shim = TRUE
          /\ tree = [ver |-> Old, state |-> "all"] /\ treeStamp = Old
    \* a console of the app's earlier version may still run
    /\ \/ consoles = {} /\ latest = NoConsole
       \/ pkg.ver = Old /\ consoles = {0} /\ latest = [NoConsole EXCEPT !.id = 0, !.ver = Old]
    /\ zip = 0 /\ extract = Nothing /\ bundle \in {"none", "all"} /\ home = [f \in HomeFiles |-> 0]
    /\ op = [o \in PiOps |-> PiResting] /\ commands = 0 /\ faults = 0
    /\ doubt = FALSE /\ mixed = FALSE /\ broken = FALSE

\* is_installed
Installed == shim /\ pkg.state \in {"part", "all", "mixed"}
At(o, pc) == op[o].pc = pc
GoesTo(o, pc) == op' = [op EXCEPT ![o].pc = pc]
\* The command returns, with an error or without.
Returns(o) == op' = [op EXCEPT ![o] = PiResting]
\* A warning: the launch goes on without what failed.
Warns(o, what, pc) == op' = [op EXCEPT ![o].pc = pc, ![o].warned = @ \cup {what}]
Fault == faults < MaxFaults /\ faults' = faults + 1
Works == UNCHANGED faults

(* pi_code_accept_disclaimer *)
Accept ==
    /\ ~accepted /\ accepted' = TRUE
    /\ UNCHANGED <<pkg, stamp, shim, zip, extract, bundle, tree, treeStamp, home, consoles, op, commands, faults, historyVars>>

(* A command starts: pi_code_install (of any version), pi_code_launch or, in *)
(* a debug build, pi_code_update_latest, which refuses while a console runs. *)
PiBegins(o, kind) ==
    /\ At(o, "rest") /\ \A p \in PiOps : At(p, "rest") => o <= p    \* the slots are interchangeable
    /\ accepted /\ commands < MaxCommands /\ commands' = commands + 1
    /\ kind = "launch" => Installed
    /\ kind = "update" => consoles = {}
    /\ LET alone == \A p \in PiOps : op[p].pc = "rest"
           pc == IF kind = "launch" THEN "ensure" ELSE "fetch"
       IN  \E v \in IF kind = "install" THEN {Pinned, Old} ELSE IF kind = "update" THEN {Latest} ELSE {Pinned} :
             op' = [p \in PiOps |->
                     IF p = o THEN [pc |-> pc, kind |-> kind, id |-> commands + 1, ver |-> v, alone |-> alone, warned |-> {}]
                     ELSE [op[p] EXCEPT !.alone = @ /\ op[p].pc = "rest"]]
    /\ UNCHANGED <<diskVars, consoles, faults, historyVars>>

(* variant: the reinstall does not ask for consoles that run *)
EnsurePinnedAnyway(o) ==
    /\ At(o, "ensure")
    /\ GoesTo(o, IF stamp \in {0, Pinned} THEN "prepare" ELSE "fetch")
    /\ UNCHANGED <<diskVars, consoles, commands, faults, historyVars>>

(* ensure_pinned_pi_version: a stamp of another version means a reinstall,   *)
(* refused while a console runs.                                             *)
EnsurePinned(o) ==
    /\ At(o, "ensure")
    /\ \/ stamp \in {0, Pinned} /\ GoesTo(o, "prepare")
       \/ stamp \notin {0, Pinned} /\ consoles # {} /\ Returns(o)
       \/ stamp \notin {0, Pinned} /\ consoles = {} /\ GoesTo(o, "fetch")
    /\ UNCHANGED <<diskVars, consoles, commands, faults, historyVars>>

(* install_pi_version, up to the archive: downloaded, compared with its      *)
(* published digest and written.  A failure before the write changes nothing. *)
Fetch(o) ==
    /\ At(o, "fetch")
    /\ \/ zip' = op[o].ver /\ GoesTo(o, "extract") /\ Works
       \/ zip' \in {0, zip} /\ Returns(o) /\ Fault
    /\ UNCHANGED <<accepted, pkg, stamp, shim, extract, bundle, tree, treeStamp, home, consoles, commands, historyVars>>

(* The old _extract is removed, a failure of which is ignored, and the       *)
(* archive is unpacked; the result must hold pi.exe.                         *)
Unpack(o) ==
    /\ At(o, "extract")
    /\ \/ /\ zip # 0 /\ GoesTo(o, "clear")
          /\ \/ extract' = [ver |-> zip, state |-> "all"] /\ Works
             \/ extract.state # "none" /\ extract' = [ver |-> zip, state |-> "mixed"] /\ Fault
       \/ extract' \in {[ver |-> zip, state |-> "part"], Nothing} /\ Returns(o) /\ Fault
    /\ UNCHANGED <<accepted, pkg, stamp, shim, zip, bundle, tree, treeStamp, home, consoles, commands, historyVars>>

(* The old package is removed; files of a console that runs cannot be, and   *)
(* the install ends with what is left.                                       *)
ClearPackage(o) ==
    /\ At(o, "clear")
    /\ broken' = (broken \/ op[o].kind # "launch" \/ ~op[o].alone)
    /\ \/ pkg.state = "none" /\ pkg' = pkg /\ GoesTo(o, "move") /\ Works /\ UNCHANGED doubt
       \/ /\ pkg.state # "none" /\ consoles = {} /\ pkg' = Nothing /\ GoesTo(o, "move") /\ Works
          /\ doubt' = TRUE
       \/ /\ pkg.state # "none" /\ Returns(o) /\ doubt' = TRUE
          /\ \/ consoles # {} /\ pkg' = [pkg EXCEPT !.state = IF @ = "bare" THEN "bare" ELSE "part"] /\ Works
             \/ pkg' \in {[pkg EXCEPT !.state = "bare"], [pkg EXCEPT !.state = IF @ = "bare" THEN "bare" ELSE "part"]} /\ Fault
    /\ UNCHANGED <<accepted, stamp, shim, zip, extract, bundle, tree, treeStamp, home, consoles, commands, mixed, latest>>

(* What was unpacked is renamed to the package or, if that fails, copied.    *)
MovePackage(o) ==
    /\ At(o, "move")
    /\ doubt' = TRUE /\ broken' = (broken \/ op[o].kind # "launch" \/ ~op[o].alone)
    /\ \/ extract.state # "none" /\ pkg.state = "none" /\ pkg' = extract /\ extract' = Nothing /\ GoesTo(o, "shim") /\ Works
       \/ /\ Fault /\ UNCHANGED extract
          /\ \/ extract.state # "none" /\ pkg' = extract /\ GoesTo(o, "shim")
             \/ pkg' \in {[ver |-> extract.ver, state |-> s] : s \in {"bare", "part"}} /\ Returns(o)
    /\ UNCHANGED <<accepted, stamp, shim, zip, bundle, tree, treeStamp, home, consoles, commands, mixed, latest>>

(* write_outer_shim, the version stamp, and the archive is removed.          *)
FinishInstall(o) ==
    /\ At(o, "shim")
    /\ \/ /\ shim' = TRUE /\ stamp' = op[o].ver /\ zip' = 0 /\ Works
          /\ doubt' = (~op[o].alone \/ pkg.state # "all")
          /\ \/ op[o].kind = "install" /\ Returns(o)
             \/ op[o].kind = "launch" /\ GoesTo(o, "prepare")
             \/ op[o].kind = "update" /\ GoesTo(o, "bundle")
       \/ /\ shim' \in BOOLEAN /\ stamp' \in (IF shim' THEN {0, stamp} ELSE {stamp}) /\ zip' = zip /\ Fault /\ Returns(o)
          /\ doubt' = TRUE
    /\ UNCHANGED <<accepted, pkg, extract, bundle, tree, treeStamp, home, consoles, commands, mixed, broken, latest>>

(* refresh_pi_subagents_bundle and sync_dev_pi_ext: the bundle is fetched    *)
(* into the source tree, trimmed, and copied over the one the app reads.     *)
RefreshBundle(o) ==
    /\ At(o, "bundle")
    /\ \/ bundle' = "all" /\ Works /\ UNCHANGED mixed
       \/ bundle' \in {bundle, "none", "part"} /\ Fault /\ UNCHANGED mixed
    /\ Returns(o)
    /\ UNCHANGED <<accepted, pkg, stamp, shim, zip, extract, tree, treeStamp, home, consoles, commands, doubt, broken, latest>>

(* pi_code_launch, before the home: the project must be a directory, the     *)
(* bundle is put in place if it has no manifest (an incomplete one has), the *)
(* launcher is refreshed, and the request must name engines on two ports.    *)
PreparePi(o) ==
    /\ At(o, "prepare")
    /\ \/ Returns(o) /\ UNCHANGED <<bundle, shim, faults>>
       \/ /\ GoesTo(o, "models")
          /\ \/ bundle' = (IF bundle = "none" THEN "all" ELSE bundle) /\ shim' = TRUE /\ Works
             \/ bundle = "none" /\ bundle' \in {"none", "part"} /\ shim' = TRUE /\ Fault
             \/ bundle' = (IF bundle = "none" THEN "all" ELSE bundle) /\ shim' \in {shim, FALSE} /\ Fault
    /\ UNCHANGED <<accepted, pkg, stamp, zip, extract, tree, treeStamp, home, consoles, commands, historyVars>>

(* The files of the home.  models.json and settings.json are fatal, the      *)
(* others (PI.md and AGENTS.md, the extension's limits, the worker agent)    *)
(* are warnings.                                                             *)
WriteHome(o, file, next, fatal) ==
    /\ At(o, file)
    /\ \/ home' = [home EXCEPT ![file] = op[o].id] /\ GoesTo(o, next) /\ Works
       \/ /\ home' \in {home, [home EXCEPT ![file] = 0]} /\ Fault
          /\ IF fatal THEN Returns(o) ELSE Warns(o, file, next)
    /\ UNCHANGED <<accepted, pkg, stamp, shim, zip, extract, bundle, tree, treeStamp, consoles, commands, historyVars>>

(* sync_bundled_subagents: without a bundle an error, which the launch only  *)
(* logs; a tree with the bundle's stamp is kept, any other is removed.       *)
SyncTree(o) ==
    /\ At(o, "sync")
    /\ \/ bundle = "none" /\ Warns(o, "tree", "config") /\ Works /\ UNCHANGED <<tree, treeStamp>>
       \/ /\ bundle # "none" /\ tree.state # "none" /\ treeStamp = Pinned
          /\ GoesTo(o, "config") /\ Works /\ UNCHANGED <<tree, treeStamp>>
       \/ /\ bundle # "none" /\ ~(tree.state # "none" /\ treeStamp = Pinned)
          /\ \/ tree' = Nothing /\ treeStamp' = 0 /\ GoesTo(o, "copy") /\ Works
             \/ /\ tree.state # "none" /\ tree' = [tree EXCEPT !.state = "part"] /\ treeStamp' \in {0, treeStamp}
                /\ Warns(o, "tree", "config") /\ Fault
    /\ mixed' = (mixed \/ ~op[o].alone)
    /\ UNCHANGED <<accepted, pkg, stamp, shim, zip, extract, bundle, home, consoles, commands, doubt, broken, latest>>

(* The bundle is copied and trimmed, its dependencies completed, and last    *)
(* the stamp written, a failure of which is ignored.                         *)
CopyTree(o) ==
    /\ At(o, "copy")
    /\ \/ /\ bundle # "none" /\ tree' = [ver |-> Pinned, state |-> IF bundle = "all" THEN "all" ELSE "part"]
          /\ GoesTo(o, "stamp") /\ Works
       \/ tree' \in {tree, [ver |-> Pinned, state |-> "part"]} /\ Warns(o, "tree", "config") /\ Fault
    /\ mixed' = (mixed \/ bundle # "all" \/ ~op[o].alone)
    /\ UNCHANGED <<accepted, pkg, stamp, shim, zip, extract, bundle, treeStamp, home, consoles, commands, doubt, broken, latest>>
StampTree(o) ==
    /\ At(o, "stamp")
    /\ \/ treeStamp' = Pinned /\ Works
       \/ treeStamp' = 0 /\ Fault
    /\ GoesTo(o, "config")
    /\ UNCHANGED <<accepted, pkg, stamp, shim, zip, extract, bundle, tree, home, consoles, commands, historyVars>>

(* spawn_pi_console, plain or elevated: it may fail, or the user may decline. *)
OpenConsole(o) ==
    /\ At(o, "spawn")
    /\ Returns(o)
    /\ \/ UNCHANGED <<consoles, latest>>
       \/ /\ Installed /\ consoles' = consoles \cup {op[o].id}
          /\ latest' = [id |-> op[o].id, ver |-> pkg.ver, whole |-> pkg.state = "all", sure |-> ~doubt /\ stamp # 0,
                      home |-> home, tree |-> tree, warned |-> op[o].warned, alone |-> op[o].alone]
    /\ UNCHANGED <<diskVars, commands, faults, doubt, mixed, broken>>

(* A console ends.                                                           *)
ConsoleEnds(c) ==
    /\ c \in consoles /\ consoles' = consoles \ {c}
    /\ broken' = (broken /\ consoles' # {})
    /\ latest' = IF c = latest.id THEN NoConsole ELSE latest
    /\ UNCHANGED <<diskVars, op, commands, faults, doubt, mixed>>

(* The app dies: the commands end where they are; a copy that was under way  *)
(* leaves part of a tree.                                                    *)
PiCrashes ==
    /\ \E o \in PiOps : op[o].pc # "rest" /\ Fault
    /\ op' = [o \in PiOps |-> PiResting]
    /\ extract' = IF \E o \in PiOps : At(o, "extract") THEN [ver |-> zip, state |-> "part"] ELSE extract
    /\ pkg' \in {pkg} \cup {[pkg EXCEPT !.state = s] : s \in
                IF pkg.state = "all" /\ \E o \in PiOps : At(o, "clear") THEN {"bare", "part"} ELSE {}}
    /\ doubt' = (doubt \/ pkg' # pkg) /\ broken' = (broken \/ pkg' # pkg)
    /\ tree' \in {tree} \cup (IF \E o \in PiOps : At(o, "copy") THEN {[ver |-> Pinned, state |-> "part"]} ELSE {})
                      \cup (IF treeStamp = Old /\ \E o \in PiOps : At(o, "sync") THEN {[tree EXCEPT !.state = "part"]} ELSE {})
    /\ bundle' \in IF \E o \in PiOps : At(o, "bundle") THEN {"none", "part"} ELSE {bundle}
    /\ UNCHANGED <<accepted, stamp, shim, zip, treeStamp, home, consoles, commands, mixed, latest>>

PiNext ==
    \/ Accept
    \/ \E o \in PiOps :
         \/ \E kind \in {"install", "launch", "update"} : PiBegins(o, kind)
         \/ EnsurePinned(o) \/ Fetch(o) \/ Unpack(o) \/ ClearPackage(o) \/ MovePackage(o) \/ FinishInstall(o)
         \/ RefreshBundle(o) \/ PreparePi(o)
         \/ WriteHome(o, "models", "settings", TRUE) \/ WriteHome(o, "settings", "context", TRUE)
         \/ WriteHome(o, "context", "sync", FALSE) \/ WriteHome(o, "config", "worker", FALSE)
         \/ WriteHome(o, "worker", "spawn", FALSE)
         \/ SyncTree(o) \/ CopyTree(o) \/ StampTree(o) \/ OpenConsole(o)
    \/ \E c \in consoles : ConsoleEnds(c)
    \/ PiCrashes
PiSpec == PiInit /\ [][PiNext]_piVars

-----------------------------------------------------------------------------
PiTypeOK ==
    /\ accepted \in BOOLEAN /\ shim \in BOOLEAN /\ stamp \in 0..3 /\ zip \in 0..3 /\ treeStamp \in 0..2
    /\ pkg.state \in {"none", "bare", "part", "all", "mixed"} /\ bundle \in {"none", "part", "all"}
    /\ tree.state \in {"none", "part", "all"} /\ home \in [HomeFiles -> 0..MaxCommands]
    /\ consoles \subseteq 0..MaxCommands

(* The stamp names the version of a whole package unless an install failed   *)
(* or was cut off after the old package was touched; an install that         *)
(* succeeds, alone, ends the doubt whatever earlier ones left behind.        *)
StampNamesThePackage == ~doubt /\ stamp # 0 => pkg = [ver |-> stamp, state |-> "all"]

(* A console runs the pinned package when nothing put it in doubt, and reads *)
(* models and settings of its own launch; what else is of another launch,    *)
(* and a tree that is not the bundle's, was warned of, unless two commands   *)
(* met.                                                                      *)
ConsoleGetsItsLaunch ==
    latest.id > 0 /\ latest.alone =>
        /\ latest.sure => latest.ver = Pinned /\ latest.whole
        /\ latest.home["models"] = latest.id /\ latest.home["settings"] = latest.id
        /\ \A f \in HomeFiles \ latest.warned : latest.home[f] = latest.id
        /\ "tree" \notin latest.warned => latest.tree.ver = Pinned

(* A tree with the bundle's stamp is a whole copy of it, crashes and failed  *)
(* copies included, unless the bundle was incomplete or two commands met.    *)
StampedTreeIsWhole ==
    treeStamp = Pinned /\ ~mixed => tree = [ver |-> Pinned, state |-> "all"]

(* The package of a console that runs stays: a launch that must reinstall it *)
(* waits for the console to be closed.                                       *)
ConsoleKeepsItsPackage ==
    consoles # {} /\ ~broken /\ latest.id >= 0 /\ latest.whole => pkg.state = "all" /\ pkg.ver = latest.ver

PiInv == PiTypeOK /\ StampNamesThePackage /\ ConsoleGetsItsLaunch /\ StampedTreeIsWhole /\ ConsoleKeepsItsPackage
=============================================================================

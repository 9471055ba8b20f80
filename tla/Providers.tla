----------------------------- MODULE Providers -----------------------------
(***************************************************************************)
(* One provider of engines: its record in the shared configuration, its    *)
(* user file, the engine binaries of one profile on disk, the copy the     *)
(* window shows, and the commands that change them.  A step is what a      *)
(* command does under one hold of the configuration's lock, one write of a *)
(* file, or one change of a directory.                                     *)
(***************************************************************************)
EXTENDS Naturals, FiniteSets, Sequences

CONSTANTS
    EngineBuilds,  \* bound: engine builds put on disk, each once; also their file times
    FirstBuild,    \* the one of an earlier session
    Settings,      \* contents of the user's settings, 0: the factory's
    MaxWriters,    \* bound: copies on their way to the file
    MaxBusy        \* bound: commands under way

ASSUME ProvidersAssumption == EngineBuilds \subseteq Nat \ {0} /\ FirstBuild \in EngineBuilds /\ 0 \in Settings

VARIABLES
    core,     \* the provider is the core one, not a plugin
    exe,      \* tree -> build of its llama-server.exe, 0: none
    prevExe,  \* build in Release.prev, 0: none
    used,     \* builds that have been on disk
    mem,      \* the record in cfg.providers
    file,     \* <id>-user-config.json
    ui,       \* the window's copy of the record, its inventory left out
    writer,   \* copies to be written after the lock was released
    refresh, publish, pack, remover, reset,   \* commands of several steps
    choice,   \* history: the source last activated
    lost,     \* history: a copy replaced a record that had changed since
    late      \* history: an older copy reached the file after a newer one

providerVars == <<core, exe, prevExe, used, mem, file, ui, writer, refresh, publish, pack, remover, reset,
                  choice, lost, late>>

Sources == {"bundled", "foundry", "catalog"}
NoEntry == [ver |-> 0, date |-> 0, tree |-> "none"]   \* ver 0: a placeholder
NoRecord == [here |-> FALSE, params |-> 0, pref |-> "none", tag |-> FALSE,
             inv |-> [s \in Sources |-> NoEntry], active |-> "none", info |-> NoEntry]
Kept(r) == [here |-> r.here, params |-> r.params, pref |-> r.pref, tag |-> r.tag]   \* what a reload takes

(***************************************************************************)
(* resolve_provider_binaries: scan the trees, keep versions probed before, *)
(* pick the active source.  A plugin's pack lies in the runtime tree.      *)
(***************************************************************************)
TreeOf(r, s, disk) ==
    LET stamped == r.tag /\ disk["bundled"] # 0
        packed == IF disk["catalog"] # 0 THEN "catalog" ELSE IF stamped THEN "bundled" ELSE "none" IN
    CASE s = "catalog" -> packed
      [] s = "bundled" -> IF disk["bundled"] = 0 \/ (~core /\ r.tag /\ packed # "none") THEN "none" ELSE "bundled"
      [] s = "foundry" -> IF disk["foundry"] = 0 THEN "none" ELSE "foundry"

(* merge_probed_version compares paths, not file times; without an entry of *)
(* its own a source inherits the version of the active one                  *)
Entry(r, s, disk) ==
    LET tree == TreeOf(r, s, disk)
        prev == r.inv[s]
        ver == IF prev.date = 0 THEN r.info.ver ELSE IF prev.tree = tree THEN prev.ver ELSE 0 IN
    IF tree = "none" THEN NoEntry ELSE [ver |-> ver, date |-> disk[tree], tree |-> tree]

(* auto_pick_source is given the labels of the scan, never a build number *)
PickSource(pref, found) ==
    IF pref \in found THEN pref
    ELSE CHOOSE s \in Sources \cup {"none"} :
            \/ s = "catalog" /\ s \in found
            \/ s = "foundry" /\ s \in found /\ "catalog" \notin found
            \/ s = "bundled" /\ s \in found /\ found \cap {"catalog", "foundry"} = {}
            \/ s = "none" /\ found = {}

ResolveOn(r, disk) ==
    LET inv == [s \in Sources |-> Entry(r, s, disk)]
        source == PickSource(r.pref, {s \in Sources : inv[s].date # 0}) IN
    [r EXCEPT !.inv = inv, !.active = source, !.info = IF source = "none" THEN NoEntry ELSE inv[source]]
Activate(r, source, disk) == ResolveOn([r EXCEPT !.pref = source], disk)

(* discover_providers, then the user files; a provider that has only a file *)
(* is a custom one                                                          *)
Discovered(disk) == core \/ disk["bundled"] # 0
Load(kept, disk) ==
    IF Discovered(disk) \/ kept.here
    THEN ResolveOn([NoRecord EXCEPT !.here = TRUE, !.params = kept.params, !.pref = kept.pref, !.tag = kept.tag], disk)
    ELSE NoRecord

ProvidersInit ==
    /\ core \in BOOLEAN /\ prevExe = 0
    /\ used = {FirstBuild}
    /\ exe = [s \in Sources |-> IF s = (IF core THEN "foundry" ELSE "bundled") THEN FirstBuild ELSE 0]
    /\ file = Kept(NoRecord) /\ mem = Load(file, exe) /\ ui = Kept(mem)
    /\ writer = << >>
    /\ refresh = [pc |-> "idle", copy |-> NoRecord, active |-> "none"]
    /\ publish = [pc |-> "idle", build |-> 0, tag |-> FALSE] /\ pack = [pc |-> "idle"]
    /\ remover = "idle" /\ reset = [pc |-> "idle", copy |-> NoRecord]
    /\ choice = "none" /\ lost = FALSE /\ late = FALSE

(***************************************************************************)
(* Writing a copy after the lock was released.                             *)
(***************************************************************************)
Queue(r) == Len(writer) < MaxWriters /\ writer' = Append(writer, [rec |-> Kept(r), old |-> FALSE])
Outdated(pending) == [w \in DOMAIN pending |-> [pending[w] EXCEPT !.old = TRUE]]
WriteFile(w) ==
    /\ w \in DOMAIN writer /\ file' = writer[w].rec
    /\ writer' = Outdated(SubSeq(writer, 1, w - 1)) \o SubSeq(writer, w + 1, Len(writer))
    /\ late' = (late \/ writer[w].old)
    /\ UNCHANGED <<core, exe, prevExe, used, mem, ui, refresh, publish, pack, remover, reset, choice, lost>>
(* written before the lock is released *)
WriteNow(kept) == file' = kept /\ writer' = Outdated(writer)

(* the window lists the providers again *)
Reload ==
    /\ ui # Kept(mem) /\ ui' = Kept(mem)
    /\ UNCHANGED <<core, exe, prevExe, used, mem, file, writer, refresh, publish, pack, remover, reset, choice, lost, late>>

(***************************************************************************)
(* Commands of the settings window.                                        *)
(***************************************************************************)
Toggle(v) ==   \* toggle_group_hidden, set_group_hidden
    /\ mem.here /\ mem' = [mem EXCEPT !.params = v] /\ Queue(mem')
    /\ UNCHANGED <<core, exe, prevExe, used, file, ui, refresh, publish, pack, remover, reset, choice, lost, late>>
SaveProvider(v) ==   \* the record is replaced by the window's
    /\ ui.here /\ mem' = [mem EXCEPT !.here = TRUE, !.params = v, !.pref = ui.pref, !.tag = ui.tag]
    /\ ui' = Kept(mem') /\ Queue(mem') /\ lost' = (lost \/ Kept(mem) # ui)
    /\ UNCHANGED <<core, exe, prevExe, used, file, refresh, publish, pack, remover, reset, choice, late>>
(* variant: the copy to be written is taken before the source is activated *)
SetSourceCopiesFirst(s) ==
    /\ mem.here /\ mem.inv[s].date # 0 /\ mem' = Activate(mem, s, exe) /\ ui' = Kept(mem') /\ choice' = s /\ Queue(mem)
    /\ UNCHANGED <<core, exe, prevExe, used, file, refresh, publish, pack, remover, reset, lost, late>>
SetSource(s) ==   \* of the sources the inventory lists
    /\ mem.here /\ mem.inv[s].date # 0 /\ mem' = Activate(mem, s, exe) /\ ui' = Kept(mem') /\ choice' = s /\ Queue(mem')
    /\ UNCHANGED <<core, exe, prevExe, used, file, refresh, publish, pack, remover, reset, lost, late>>
RevertToBundled ==
    /\ mem.here /\ mem' = Activate(mem, "bundled", exe) /\ choice' = "bundled" /\ WriteNow(Kept(mem'))
    /\ UNCHANGED <<core, exe, prevExe, used, ui, refresh, publish, pack, remover, reset, lost, late>>

(***************************************************************************)
(* refresh_build_info: clone, probe what has no version, write back.       *)
(***************************************************************************)
RefreshStart ==
    /\ refresh.pc = "idle" /\ mem.here
    /\ refresh' = [pc |-> "probe", copy |-> ResolveOn(mem, exe), active |-> mem.active]
    /\ UNCHANGED <<core, exe, prevExe, used, mem, file, ui, writer, publish, pack, remover, reset, choice, lost, late>>
Probed(entry, answers) ==
    IF entry.date = 0 \/ entry.ver # 0 \/ ~answers \/ exe[entry.tree] = 0 THEN entry
    ELSE [entry EXCEPT !.ver = exe[entry.tree], !.date = exe[entry.tree]]
RefreshWriteBack(answers) ==
    LET c == refresh.copy
        r == [c EXCEPT !.inv = [s \in Sources |-> Probed(c.inv[s], answers)], !.info = Probed(c.info, answers)] IN
    /\ refresh.pc = "probe" /\ refresh' = [pc |-> "idle", copy |-> NoRecord, active |-> "none"]
    /\ mem' = (IF mem.here THEN r ELSE mem) /\ ui' = Kept(mem')
    /\ IF r # c \/ r.active # refresh.active THEN Queue(r) ELSE UNCHANGED writer
    /\ lost' = (lost \/ (Kept(mem) # Kept(r) /\ (mem.here \/ writer' # writer)))
    /\ UNCHANGED <<core, exe, prevExe, used, file, publish, pack, remover, reset, choice, late>>

(***************************************************************************)
(* The foundry puts a build in place, or the previous one back, and        *)
(* activates it.                                                           *)
(***************************************************************************)
PublishArtifacts ==
    /\ publish.pc = "idle"
    /\ \E b \in EngineBuilds \ used :
         /\ exe' = [exe EXCEPT !["foundry"] = b] /\ prevExe' = exe["foundry"] /\ used' = used \cup {b}
         /\ publish' = [pc |-> "probe", build |-> b, tag |-> FALSE]
    /\ UNCHANGED <<core, mem, file, ui, writer, refresh, pack, remover, reset, choice, lost, late>>
RestorePrevious ==
    /\ publish.pc = "idle" /\ prevExe # 0
    /\ exe' = [exe EXCEPT !["foundry"] = prevExe] /\ prevExe' = 0
    /\ \/ publish' = [pc |-> "probe", build |-> prevExe, tag |-> TRUE]
       \/ UNCHANGED publish   \* the probe failed: the command returns
    /\ UNCHANGED <<core, used, mem, file, ui, writer, refresh, pack, remover, reset, choice, lost, late>>
ActivateBuild(answers) ==
    LET b == publish.build
        r == Activate([mem EXCEPT !.tag = @ /\ publish.tag], "foundry", exe)
        info == [ver |-> b, date |-> b, tree |-> "foundry"] IN
    /\ publish.pc = "probe" /\ (publish.tag => answers)
    /\ publish' = [publish EXCEPT !.pc = "persist"]
    /\ IF mem.here
       THEN mem' = (IF answers THEN [r EXCEPT !.inv["foundry"] = info, !.info = info] ELSE r) /\ choice' = "foundry"
       ELSE UNCHANGED <<mem, choice>>
    /\ UNCHANGED <<core, exe, prevExe, used, file, ui, writer, refresh, pack, remover, reset, lost, late>>
PersistBuild ==   \* persist_providers_atomic clones again
    /\ publish.pc = "persist" /\ publish' = [pc |-> "idle", build |-> 0, tag |-> FALSE]
    /\ IF mem.here THEN Queue(mem) ELSE UNCHANGED writer
    /\ UNCHANGED <<core, exe, prevExe, used, mem, file, ui, refresh, pack, remover, reset, choice, lost, late>>

(***************************************************************************)
(* A downloaded pack: the core's catalog tree is cleared and copied anew,  *)
(* a plugin's runtime tree is overwritten; then it is registered.          *)
(***************************************************************************)
PackTree == IF core THEN "catalog" ELSE "bundled"
PackClear ==
    /\ pack.pc = "idle" /\ EngineBuilds \ used # {} /\ pack' = [pc |-> "copy"]
    /\ exe' = IF core THEN [exe EXCEPT !["catalog"] = 0] ELSE exe
    /\ UNCHANGED <<core, prevExe, used, mem, file, ui, writer, refresh, publish, remover, reset, choice, lost, late>>
PackCopy ==
    /\ pack.pc = "copy"
    /\ \/ /\ \E b \in EngineBuilds \ used : exe' = [exe EXCEPT ![PackTree] = b] /\ used' = used \cup {b}
          /\ pack' = [pc |-> "register"]
       \/ pack' = [pc |-> "idle"] /\ UNCHANGED <<exe, used>>   \* the archive cannot be copied
    /\ UNCHANGED <<core, prevExe, mem, file, ui, writer, refresh, publish, remover, reset, choice, lost, late>>
PackRegister ==
    LET found == IF mem.here THEN mem ELSE Load(file, exe)
        blank == [found.inv["catalog"] EXCEPT !.ver = 0, !.date = exe[PackTree]]
        tagged == IF found.inv["catalog"].date = 0 THEN [found EXCEPT !.tag = TRUE]
                  ELSE [found EXCEPT !.tag = TRUE, !.inv["catalog"] = blank, !.info = blank] IN
    /\ pack.pc = "register" /\ pack' = [pc |-> "idle"]
    /\ IF found.here
       THEN mem' = ResolveOn(tagged, exe) /\ WriteNow(Kept(mem')) /\ choice' = IF mem.here THEN choice ELSE found.pref
       ELSE UNCHANGED <<mem, file, writer, choice>>
    /\ UNCHANGED <<core, exe, prevExe, used, ui, refresh, publish, remover, reset, lost, late>>

(***************************************************************************)
(* remove_provider and reset_app_config.                                   *)
(***************************************************************************)
RemoveStep(from, to) == remover = from /\ remover' = to
RemoveRecord ==
    /\ ~core /\ mem.here /\ RemoveStep("idle", "file") /\ mem' = NoRecord
    /\ UNCHANGED <<core, exe, prevExe, used, file, ui, writer, refresh, publish, pack, reset, choice, lost, late>>
RemoveFile ==
    /\ RemoveStep("file", "tree") /\ WriteNow(Kept(NoRecord))
    /\ UNCHANGED <<core, exe, prevExe, used, mem, ui, refresh, publish, pack, reset, choice, lost, late>>
RemoveTree ==
    /\ RemoveStep("tree", "rediscover") /\ exe' = [exe EXCEPT !["bundled"] = 0]
    /\ UNCHANGED <<core, prevExe, used, mem, file, ui, writer, refresh, publish, pack, reset, choice, lost, late>>
Rediscover ==
    /\ RemoveStep("rediscover", "idle")
    /\ mem' = Load(file, exe) /\ choice' = mem'.pref
    /\ WriteNow(IF mem'.here THEN Kept(mem') ELSE file)
    /\ UNCHANGED <<core, exe, prevExe, used, ui, refresh, publish, pack, reset, lost, late>>

ResetFiles ==
    /\ reset.pc = "idle" /\ reset' = [reset EXCEPT !.pc = "load"] /\ WriteNow(Kept(NoRecord))
    /\ UNCHANGED <<core, exe, prevExe, used, mem, ui, refresh, publish, pack, remover, choice, lost, late>>
ResetLoads ==
    /\ reset.pc = "load" /\ reset' = [pc |-> "assign", copy |-> Load(file, exe)]
    /\ UNCHANGED <<core, exe, prevExe, used, mem, file, ui, writer, refresh, publish, pack, remover, choice, lost, late>>
ResetAssigns ==
    /\ reset.pc = "assign" /\ reset' = [pc |-> "idle", copy |-> NoRecord]
    /\ mem' = reset.copy /\ ui' = Kept(mem') /\ choice' = mem'.pref
    /\ writer' = Outdated(writer) /\ late' = (late \/ Kept(Load(file, exe)) # Kept(mem'))
    /\ UNCHANGED <<core, exe, prevExe, used, file, refresh, publish, pack, remover, lost>>

(* the app ends, whatever it was at, and starts again *)
Restart ==
    /\ mem' = Load(file, exe) /\ ui' = Kept(mem') /\ choice' = mem'.pref
    /\ writer' = << >> /\ lost' = FALSE /\ late' = FALSE
    /\ refresh' = [pc |-> "idle", copy |-> NoRecord, active |-> "none"]
    /\ publish' = [pc |-> "idle", build |-> 0, tag |-> FALSE] /\ pack' = [pc |-> "idle"]
    /\ remover' = "idle" /\ reset' = [pc |-> "idle", copy |-> NoRecord]
    /\ UNCHANGED <<core, exe, prevExe, used, file>>

ProvidersStep ==
    \/ \E w \in 1..MaxWriters : WriteFile(w)
    \/ \E v \in Settings : Toggle(v) \/ SaveProvider(v)
    \/ \E s \in Sources : SetSource(s)
    \/ \E answers \in BOOLEAN : RefreshWriteBack(answers) \/ ActivateBuild(answers)
    \/ Reload \/ RevertToBundled \/ RefreshStart
    \/ PublishArtifacts \/ RestorePrevious \/ PersistBuild \/ PackClear \/ PackCopy \/ PackRegister
    \/ RemoveRecord \/ RemoveFile \/ RemoveTree \/ Rediscover \/ ResetFiles \/ ResetLoads \/ ResetAssigns
(* bounds: MaxBusy, and a behaviour is followed until a change was lost or a *)
(* copy came late: then the app restarts                                     *)
Busy == Len(writer) + Cardinality({c \in {<<"refresh", refresh.pc>>, <<"publish", publish.pc>>, <<"pack", pack.pc>>,
                                                     <<"remove", remover>>, <<"reset", reset.pc>>} : c[2] # "idle"})
ProvidersNext ==
    \/ Restart
    \/ ~lost /\ ~late /\ ProvidersStep /\ Busy' <= MaxBusy
ProvidersSpec == ProvidersInit /\ [][ProvidersNext]_providerVars

(***************************************************************************)
(* Properties.                                                             *)
(***************************************************************************)
ProvidersTypeOK ==
    /\ exe \in [Sources -> used \cup {0}] /\ used \subseteq EngineBuilds /\ prevExe \in used \cup {0}
    /\ mem.params \in Settings /\ mem.pref \in Sources \cup {"none"} /\ choice \in Sources \cup {"none"}

(* The source last activated by the user or by the foundry stays the one   *)
(* preferred, whatever is scanned, installed, removed or probed meanwhile, *)
(* unless a copy taken before a change was put back over it.               *)
ChoiceStands == ~lost /\ mem.here => mem.pref = choice

(* When no command is under way, a restart of the app finds the record the *)
(* window shows: nothing was left unwritten and a provider that was removed *)
(* does not come back, unless a copy was put back over a change or an older *)
(* copy reached the file last.                                              *)
SettledSurvivesRestart == Busy = 0 /\ ~lost /\ ~late => Kept(Load(file, exe)) = Kept(mem)

ProvidersInv == ProvidersTypeOK /\ ChoiceStands /\ SettledSurvivesRestart

(* An older pack does not become the active binary over a newer build just *)
(* because it arrived later.                                               *)
OlderPackDoesNotHijack ==
    [][pack.pc = "register" /\ mem.here /\ mem.pref = "none" /\ mem.active # "none" /\ mem.info.ver > exe[PackTree]
        => mem'.active # "catalog"]_providerVars
=============================================================================

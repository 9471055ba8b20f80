----------------------------- MODULE Toolchain -----------------------------
(***************************************************************************)
(* The portable toolchain of foundry_toolchain.rs: one directory tree that *)
(* three archives are extracted into, the CUDA runtimes the engines load   *)
(* their libraries from and the compilers of the foundry.  Extraction jobs *)
(* (finalize_toolchain_install, started by a finished download or by the   *)
(* page), launches, builds and the page's questions share the packTree, the    *)
(* manifest beside it and the kept archives without a lock.  Readiness is  *)
(* asked of names, not of contents.                                        *)
(*                                                                         *)
(* A pack's files are "none", "some" (an extraction is under way or was    *)
(* cut off) or "whole"; the manifest on disk is 0 (none), 1 (an older      *)
(* app's) or 2 (the embedded one).                                         *)
(***************************************************************************)
EXTENDS Naturals, FiniteSets

CONSTANTS TcJobs,        \* extraction jobs that may run at once
          MaxTcJobs,     \* bound: downloads and re-extractions of a run
          MaxTcFaults    \* bound: failed steps and crashes of a run
ASSUME ToolchainBounds == MaxTcJobs \in Nat /\ MaxTcFaults \in Nat /\ IsFiniteSet(TcJobs)

Runtimes == {"rt13", "rt12"}
TcPacks == Runtimes \cup {"build"}
\* the pack whose libraries a binary profile needs
CudaOf == [edge |-> "rt13", stable |-> "rt12"]
MinDriver == [edge |-> 2, stable |-> 1]
NoJob == [pc |-> "idle", pack |-> "build", from |-> "download"]

VARIABLES
    packTree,       \* what is on disk of each pack
    older,      \* the build tools of an older app are still there
    manifest,   \* toolchain/manifest.json
    carried,    \* the build archive holds a manifest.json
    staged,     \* archives in .toolchain-download
    cache,      \* archives in its cache directory: none, part, whole
    tcJob,      \* the extraction jobs
    tcRow,      \* packs whose newest task is listed as active
    engines,    \* runtimes that running engines have loaded
    ninja,      \* ninja.exe beside cmake.exe
    tcJobs, tcFaults,
    \* history: packs downloaded once; packs whose last extraction ended well
    \* and alone; packs whose running extractions overlapped; packs that two
    \* jobs ever worked on at once
    had, sound, spoilt, tcMixed

treeVars == <<packTree, older, manifest>>
archiveVars == <<carried, staged, cache, had>>
tcJobVars == <<tcJob, tcRow, tcJobs>>
tcHistory == <<sound, spoilt, tcMixed>>
tcVars == <<treeVars, archiveVars, tcJobVars, tcHistory, engines, ninja, tcFaults>>

ToolchainInit ==
    /\ older \in BOOLEAN /\ carried \in BOOLEAN
    /\ manifest = IF older THEN 1 ELSE 0
    /\ packTree = [p \in TcPacks |-> "none"] /\ staged = {} /\ cache = [p \in TcPacks |-> "none"]
    /\ tcJob = [j \in TcJobs |-> NoJob] /\ tcRow = {} /\ engines = {} /\ ninja = FALSE
    /\ tcJobs = 0 /\ tcFaults = 0 /\ had = {} /\ sound = {} /\ spoilt = {} /\ tcMixed = {}

-----------------------------------------------------------------------------
(* Names, not contents *)

\* cuda_runtime_ready_for_version and ResolvedProfile::check see the names of
\* files: part of a pack may look like all of it
Looks(p) == CASE packTree[p] = "none" -> {FALSE} [] packTree[p] = "whole" -> {TRUE} [] OTHER -> BOOLEAN

\* profile_checks_for_manifest: the paths that the manifest on disk names
ProfilesLook == IF manifest = 1 THEN {older} ELSE Looks("build")

\* load_manifest writes the embedded manifest where there is none
EnsureManifest == manifest' = IF manifest = 0 THEN 2 ELSE manifest

TcFault == tcFaults < MaxTcFaults /\ tcFaults' = tcFaults + 1

TcHolds(p, from) == \E j \in TcJobs : tcJob[j].pc = "extract" /\ tcJob[j].pack = p /\ tcJob[j].from = from
Extracting(p) == {j \in TcJobs : tcJob[j].pc = "extract" /\ tcJob[j].pack = p}
TcActive == tcRow # {}

TcGo(j, pc) == tcJob' = [tcJob EXCEPT ![j].pc = pc]
\* finalize_toolchain_extract_worker: Completed or Failed, the row is no
\* longer active either way
TcEnds(j) == /\ tcJob' = [tcJob EXCEPT ![j] = NoJob]
             /\ tcRow' = tcRow \ {tcJob[j].pack}

-----------------------------------------------------------------------------
(* Jobs *)

TcStart(p, from) ==
    /\ tcJobs < MaxTcJobs /\ tcJobs' = tcJobs + 1
    /\ \E j \in TcJobs : /\ tcJob[j] = NoJob
                         /\ tcJob' = [tcJob EXCEPT ![j] = [pc |-> "begun", pack |-> p, from |-> from]]
    /\ tcRow' = tcRow \cup {p}
    /\ tcMixed' = IF \E j \in TcJobs : tcJob[j].pc # "idle" /\ tcJob[j].pack = p THEN tcMixed \cup {p} ELSE tcMixed

\* A download has been verified: it replaces the staged archive, unless that
\* is being read, and its extraction is spawned.  A failed task of another
\* pack may have been resumed meanwhile, or the same pack's cancelled, so
\* this need not be the only job.
TcDownloaded(p) ==
    /\ p \notin tcRow /\ TcStart(p, "download") /\ ~TcHolds(p, "download")
    /\ staged' = staged \cup {p} /\ had' = had \cup {p}
    /\ UNCHANGED <<treeVars, carried, cache, sound, spoilt, engines, ninja, tcFaults>>

\* retry_toolchain_extract: no toolchain task is active; the cached archive
\* is preferred
Reextracts(p) ==
    /\ ~TcActive /\ (cache[p] # "none" \/ p \in staged)
    /\ TcStart(p, IF cache[p] # "none" THEN "cache" ELSE "download")
    /\ UNCHANGED <<treeVars, archiveVars, sound, spoilt, engines, ninja, tcFaults>>

\* cancel_task takes the row; the job goes on
TcCancel(p) ==
    /\ p \in tcRow /\ tcRow' = tcRow \ {p}
    /\ UNCHANGED <<treeVars, archiveVars, tcJob, tcJobs, tcHistory, engines, ninja, tcFaults>>

Present(j) == LET p == tcJob[j].pack IN
    IF tcJob[j].from = "cache" THEN cache[p] = "whole" ELSE p \in staged

ClearsTree(p, now) == [q \in TcPacks |-> IF q = p THEN now ELSE "none"]  \* variant: as a full pack
MergesTree(p, now) == [packTree EXCEPT ![p] = now]

\* finalize_toolchain_install up to 7z's first file: a runtime or build pack
\* merges into the tree.  A broken or missing archive cannot be listed.
BeginExtract(j) ==
    LET p == tcJob[j].pack IN
    /\ tcJob[j].pc = "begun"
    /\ IF Present(j)
       THEN /\ TcGo(j, "extract") /\ UNCHANGED tcRow
            /\ packTree' = IF p \in engines THEN packTree ELSE MergesTree(p, "some")
            /\ sound' = sound \ {p}
            /\ spoilt' = IF Extracting(p) # {} THEN spoilt \cup {p} ELSE spoilt
       ELSE TcEnds(j) /\ UNCHANGED <<packTree, sound, spoilt>>
    /\ UNCHANGED <<older, manifest, archiveVars, tcJobs, tcMixed, engines, ninja, tcFaults>>

\* extract_toolchain_archive returns.  Libraries an engine has loaded cannot
\* be overwritten, and 7z then fails; jobs of one pack that overlap may have
\* cut each other's files.
EndExtract(j) ==
    LET p == tcJob[j].pack
        alone == Extracting(p) = {j} /\ p \notin spoilt
        brings == carried /\ p = "build"
    IN  /\ tcJob[j].pc = "extract"
        /\ \/ /\ p \notin engines /\ TcGo(j, "verify") /\ UNCHANGED <<tcRow, tcFaults>>
              /\ IF alone THEN packTree' = MergesTree(p, "whole") /\ sound' = sound \cup {p} /\ UNCHANGED spoilt
                 ELSE /\ \E now \in {"some", "whole"} :
                            packTree' = IF Extracting(p) = {j} THEN MergesTree(p, now) ELSE packTree
                      /\ spoilt' = IF Extracting(p) = {j} THEN spoilt \ {p} ELSE spoilt
                      /\ UNCHANGED sound
              /\ manifest' = IF brings THEN 2 ELSE manifest
           \/ /\ TcEnds(j) /\ IF p \in engines THEN UNCHANGED tcFaults ELSE TcFault
              /\ manifest' \in {manifest, IF brings THEN 2 ELSE manifest}
              /\ spoilt' = IF Extracting(p) = {j} THEN spoilt \ {p} ELSE spoilt \cup {p}
              /\ UNCHANGED <<packTree, sound>>
        /\ UNCHANGED <<older, archiveVars, tcJobs, tcMixed, engines, ninja>>

\* verify_toolchain_install: a runtime by its own libraries, the build pack by
\* the profiles of the manifest on disk, which must be there; then the
\* embedded manifest replaces it
VerifyInstall(j) ==
    LET p == tcJob[j].pack IN
    /\ tcJob[j].pc = "verify"
    /\ \E ready \in IF p \in Runtimes THEN Looks(p)
                    ELSE IF manifest = 0 THEN {FALSE} ELSE ProfilesLook :
          IF ready THEN TcGo(j, "verified") /\ manifest' = 2 /\ UNCHANGED tcRow
          ELSE TcEnds(j) /\ UNCHANGED manifest
    /\ UNCHANGED <<packTree, older, archiveVars, tcJobs, tcHistory, engines, ninja, tcFaults>>

\* a runtime's archive is removed if it can be
DropArchive(j) ==
    LET p == tcJob[j].pack IN
    /\ tcJob[j].pc = "verified" /\ p \in Runtimes
    /\ staged' = IF TcHolds(p, "download") THEN staged ELSE staged \ {p}
    /\ TcEnds(j)
    /\ UNCHANGED <<treeVars, carried, cache, had, tcJobs, tcHistory, engines, ninja, tcFaults>>

\* promote_archive_to_cache: nothing to do for the cached one; else the old
\* copy is removed first, which fails while it is read
PromoteBegins(j) ==
    /\ tcJob[j].pc = "verified" /\ tcJob[j].pack = "build"
    /\ IF tcJob[j].from = "cache" \/ TcHolds("build", "cache")
       THEN TcEnds(j) /\ UNCHANGED cache
       ELSE /\ TcGo(j, "promote") /\ UNCHANGED tcRow
            /\ cache' = [cache EXCEPT !["build"] = "none"]
    /\ UNCHANGED <<treeVars, carried, staged, had, tcJobs, tcHistory, engines, ninja, tcFaults>>

\* the rename; where it fails (the archive is being read) a copy is begun
PromoteMoves(j) ==
    /\ tcJob[j].pc = "promote"
    /\ IF "build" \notin staged THEN TcEnds(j) /\ UNCHANGED <<staged, cache>>
       ELSE IF TcHolds("build", "download")
            THEN TcGo(j, "copy") /\ cache' = [cache EXCEPT !["build"] = "part"] /\ UNCHANGED <<staged, tcRow>>
            ELSE TcEnds(j) /\ cache' = [cache EXCEPT !["build"] = "whole"] /\ staged' = staged \ {"build"}
    /\ UNCHANGED <<treeVars, carried, had, tcJobs, tcHistory, engines, ninja, tcFaults>>

PromoteCopies(j) ==
    /\ tcJob[j].pc = "copy" /\ TcEnds(j)
    /\ cache' = [cache EXCEPT !["build"] = IF @ = "part" /\ "build" \in staged THEN "whole" ELSE @]
    /\ staged' = IF TcHolds("build", "download") \/ cache'["build"] # "whole" THEN staged ELSE staged \ {"build"}
    /\ UNCHANGED <<treeVars, carried, had, tcJobs, tcHistory, engines, ninja, tcFaults>>

-----------------------------------------------------------------------------
(* Those who use the tree *)

\* ensure_driver_supports_profile compares the driver that nvidia-smi tells
\* (0: none) with what the embedded manifest asks for; then the
\* profile's libraries must be there by name.  Broken ones end the engine.
TcLaunch(profile) ==
    LET p == CudaOf[profile] IN
    /\ \E driver \in 0 .. 2 : driver >= MinDriver[profile]
    /\ TRUE \in Looks(p)
    /\ EnsureManifest
    /\ engines' = IF packTree[p] = "whole" THEN engines \cup {p} ELSE engines
    /\ UNCHANGED <<packTree, older, archiveVars, tcJobVars, tcHistory, ninja, tcFaults>>
TcStops(p) ==
    /\ p \in engines /\ engines' = engines \ {p}
    /\ UNCHANGED <<treeVars, archiveVars, tcJobVars, tcHistory, ninja, tcFaults>>

\* install_info and validate_profile_ready: both leave a manifest behind
TcAsked ==
    /\ manifest = 0 /\ EnsureManifest
    /\ UNCHANGED <<packTree, older, archiveVars, tcJobVars, tcHistory, engines, ninja, tcFaults>>

\* ensure_ninja_available before a build: downloaded, its digest compared,
\* unpacked beside the archive and renamed into place
EnsureNinja ==
    /\ ~ninja /\ TRUE \in ProfilesLook /\ ninja' = TRUE
    /\ EnsureManifest
    /\ UNCHANGED <<packTree, older, archiveVars, tcJobVars, tcHistory, engines, tcFaults>>

\* The app is closed or dies: jobs end where they are, engines with it
TcCrash ==
    /\ TcFault
    /\ tcJob' = [j \in TcJobs |-> NoJob] /\ tcRow' = {} /\ engines' = {}
    /\ spoilt' = {}
    /\ UNCHANGED <<treeVars, archiveVars, tcJobs, sound, tcMixed, ninja>>

ToolchainNext ==
    \/ \E p \in TcPacks : TcDownloaded(p) \/ Reextracts(p) \/ TcCancel(p) \/ TcStops(p)
    \/ \E j \in TcJobs : \/ BeginExtract(j) \/ EndExtract(j) \/ VerifyInstall(j) \/ DropArchive(j)
                         \/ PromoteBegins(j) \/ PromoteMoves(j) \/ PromoteCopies(j)
    \/ \E profile \in DOMAIN CudaOf : TcLaunch(profile)
    \/ TcAsked \/ EnsureNinja \/ TcCrash
ToolchainSpec == ToolchainInit /\ [][ToolchainNext]_tcVars

-----------------------------------------------------------------------------
(* Properties *)

ToolchainTypeOK ==
    /\ packTree \in [TcPacks -> {"none", "some", "whole"}] /\ manifest \in 0 .. 2
    /\ cache \in [TcPacks -> {"none", "part", "whole"}]
    /\ staged \subseteq TcPacks /\ tcRow \subseteq TcPacks /\ engines \subseteq Runtimes
    /\ \A j \in TcJobs : tcJob[j].pack \in TcPacks

\* A pack that one extraction unpacked to its end stays whole until that pack
\* is extracted again: installing another pack, whatever the order or the
\* overlap, never takes its files (foundry_toolchain.rs:1815, "installing
\* runtime-12.9 after runtime-13.4 must not delete 13.4").
PacksKeepTheirFiles == \A p \in sound : packTree[p] = "whole"

\* An engine's libraries are not cut under it by an extraction that started
\* meanwhile.
EnginesKeepTheirLibraries == \A p \in engines : packTree[p] = "whole"

\* A pack that was downloaded once and never had two jobs at a time does not
\* have to be downloaded again when an extraction fails: either it is whole on disk or a
\* whole archive of it is kept, at every step of the promotion to the cache.
NothingIsDownloadedTwice ==
    \A p \in had \ tcMixed : packTree[p] = "whole" \/ p \in staged \/ cache[p] = "whole"

\* The build archive itself is then never lost, whatever step fails.
BuildArchiveIsKept == "build" \in had \ tcMixed => "build" \in staged \/ cache["build"] = "whole"

\* Once an install has been verified the manifest is the embedded one: the
\* page stops calling the toolchain outdated.
VerifiedInstallIsCurrent ==
    \A j \in TcJobs : tcJob[j].pc \in {"verified", "promote", "copy"} => manifest = 2

ToolchainInv ==
    /\ ToolchainTypeOK /\ PacksKeepTheirFiles /\ EnginesKeepTheirLibraries
    /\ NothingIsDownloadedTwice /\ BuildArchiveIsKept /\ VerifiedInstallIsCurrent
=============================================================================

---------------------------- MODULE HeaderPatch ----------------------------
(***************************************************************************)
(* Updating a model by its header alone: gguf_patch.rs, the check of one   *)
(* model against the Hub in hf_api.rs, and patch_model_metadata.  A patch  *)
(* reads the local header, fetches the start of the Hub's file, and writes *)
(* the new header in front of the old weights, in place or by a copy.  A   *)
(* file is a sequence of cells of its header and of its weights; meanwhile *)
(* the Hub may move on, the file may be replaced, a second patch may run.  *)
(***************************************************************************)
EXTENDS Integers, Sequences, SequencesExt

CONSTANTS Revisions,     \* revisions of the Hub's file, published in order
          HeaderLen,     \* [revision -> cells of its header, the last padding]
          WeightsOf,     \* [revision -> its weights]
          WeightsLen,    \* [weights -> cells]
          Patchers,      \* calls of patch_model_metadata
          MaxDelta,      \* MAX_METADATA_SIZE_DELTA
          MaxProbe,      \* MAX_HEADER_PROBE
          ProbeSlack,    \* what a probe reads beyond the difference in size
          MaxGgufFiles, MaxChecks   \* bounds: versions of the file, checks
ASSUME PatchBounds ==
    /\ Revisions \subseteq Nat \ {0} /\ 1 \in Revisions /\ HeaderLen \in [Revisions -> Nat \ {0}]
    /\ WeightsLen \in [DOMAIN WeightsLen -> Nat] /\ WeightsOf \in [Revisions -> DOMAIN WeightsLen]
    /\ {MaxDelta, ProbeSlack} \subseteq Nat /\ {MaxProbe, MaxGgufFiles} \subseteq Nat \ {0}

VARIABLES
    gguf,         \* the local file
    ggufVersion,  \* its time stamp
    hubRevision,  \* what the Hub serves
    pairedOid,    \* the oid in the model cache: the revision downloaded
    kindFile,     \* gguf_update_kind.json: the entry of this file
    listing,      \* the revision of which the page has url and size
    patchers, updateCheck,
    checksMade,
    \* history: weights downloaded last; a write that nothing vouches for
    weights, tainted

hubVars == <<hubRevision, listing, pairedOid>>
checkVars == <<updateCheck, kindFile, checksMade>>
ggufVars == <<gguf, ggufVersion, weights, tainted>>
patchVars == <<hubVars, checkVars, ggufVars, patchers>>

HeaderCells(r) == [i \in 1..HeaderLen[r] |-> <<"header", r, i>>]
WeightCells(w) == [i \in 1..WeightsLen[w] |-> <<"weights", w, i>>]
HubFile(r) == HeaderCells(r) \o WeightCells(WeightsOf[r])

NoKind == [version |-> 0, oid |-> 0, kind |-> "none", mixed |-> FALSE]
NoPatch == [pc |-> "idle", size |-> 0, len |-> 0, end |-> 0, base |-> 0, bytes |-> <<>>, at |-> 0]
NoCheck == [pc |-> "idle", oid |-> 0, size |-> 0, len |-> 0, end |-> 0, base |-> 0, bytes |-> <<>>]

PatchInit ==
    /\ hubRevision = 1 /\ listing = 1 /\ pairedOid = 1
    /\ gguf = HubFile(1) /\ ggufVersion = 1 /\ weights = WeightsOf[1] /\ tainted = FALSE
    /\ kindFile = NoKind /\ patchers = [p \in Patchers |-> NoPatch]
    /\ updateCheck = NoCheck /\ checksMade = 0

-----------------------------------------------------------------------------
(* The header of a file *)

Smaller(a, b) == IF a < b THEN a ELSE b
Start(bytes, n) == SubSeq(bytes, 1, Smaller(n, Len(bytes)))

\* parse_header: where the header ends, by its own counts and padding; 0 when
\* it is cut off or is no header.
HeaderEnd(bytes) ==
    IF bytes = <<>> \/ bytes[1][1] # "header" THEN 0
    ELSE LET r == bytes[1][2] IN
         IF IsPrefix(Start(HeaderCells(r), HeaderLen[r] - 1), bytes) THEN HeaderLen[r] ELSE 0

Delta(a, b) == IF a > b THEN a - b ELSE b - a

\* header_probe_end; 0 for None
ProbeEnd(localSize, hubSize, end) ==
    LET reach == IF hubSize = localSize THEN end ELSE end + Delta(localSize, hubSize) + ProbeSlack IN
    IF hubSize = 0 \/ end = 0 \/ Delta(localSize, hubSize) > MaxDelta THEN 0
    ELSE Smaller(Smaller(reach, hubSize), MaxProbe)

ClassifyFromHeaders(localSize, hubSize, localEnd, hubEnd, equal) ==
    IF localEnd >= localSize \/ hubEnd >= hubSize \/ localSize - localEnd # hubSize - hubEnd THEN "full"
    ELSE IF equal /\ localSize = hubSize THEN "current" ELSE "header"

-----------------------------------------------------------------------------
(* check_local_model_update and classify_update *)

CheckAsks ==   \* the Hub's listing, then the oid and the cached kind
    /\ updateCheck = NoCheck /\ checksMade < MaxChecks /\ checksMade' = checksMade + 1
    /\ listing' = hubRevision
    /\ LET size == Len(HubFile(hubRevision)) IN
       IF \/ pairedOid = hubRevision
          \/ kindFile.version = ggufVersion /\ kindFile.oid = hubRevision
          \/ Delta(Len(gguf), size) > MaxDelta
          \/ HeaderEnd(gguf) = 0 \/ HeaderEnd(gguf) >= Len(gguf)
          \/ ProbeEnd(Len(gguf), size, HeaderEnd(gguf)) = 0
       THEN UNCHANGED updateCheck
       ELSE updateCheck' = [NoCheck EXCEPT !.pc = "probe", !.oid = hubRevision, !.size = size,
                               !.len = Len(gguf), !.end = HeaderEnd(gguf), !.base = ggufVersion]
    /\ UNCHANGED <<hubRevision, pairedOid, kindFile, ggufVars, patchers>>

\* The probe, and a longer one when the header is cut off.
CheckProbes ==
    /\ updateCheck.pc = "probe"
    /\ LET probe == ProbeEnd(updateCheck.len, updateCheck.size, updateCheck.end)
           first == Start(HubFile(hubRevision), probe) IN
       updateCheck' = [updateCheck EXCEPT !.pc = "classify",
           !.bytes = IF HeaderEnd(first) = 0 /\ probe < updateCheck.size /\ probe < MaxProbe
                     THEN Start(HubFile(hubRevision), Smaller(updateCheck.size, MaxProbe)) ELSE first]
    /\ UNCHANGED <<hubVars, kindFile, checksMade, ggufVars, patchers>>

CheckFails ==
    /\ updateCheck # NoCheck /\ updateCheck' = NoCheck
    /\ UNCHANGED <<hubVars, kindFile, checksMade, ggufVars, patchers>>

\* write_kind_cache stamps the entry with the time the file has now.
CheckStores ==
    /\ updateCheck.pc = "classify"
    /\ LET c      == updateCheck
           hubEnd == IF HeaderEnd(c.bytes) = 0 THEN c.end ELSE HeaderEnd(c.bytes)
           equal  == Len(c.bytes) >= c.end /\ IsPrefix(Start(gguf, c.end), c.bytes) IN
       kindFile' = [version |-> ggufVersion, oid |-> c.oid,
                    kind |-> ClassifyFromHeaders(c.len, c.size, c.end, hubEnd, equal),
                    mixed |-> c.base # ggufVersion \/ c.oid # hubRevision \/ \E p \in Patchers : patchers[p].pc = "splice"]
    /\ updateCheck' = NoCheck
    /\ UNCHANGED <<hubVars, checksMade, ggufVars, patchers>>

-----------------------------------------------------------------------------
(* patch_metadata *)

PatchLooks(p) ==   \* sizes and the local header
    /\ patchers[p] = NoPatch /\ ggufVersion < MaxGgufFiles
    /\ LET end == HeaderEnd(gguf)
           size == Len(HubFile(listing)) IN
       /\ end # 0 /\ end < Len(gguf) /\ ProbeEnd(Len(gguf), size, end) # 0
       /\ patchers' = [patchers EXCEPT ![p] = [NoPatch EXCEPT !.pc = "probe", !.size = size,
                               !.len = Len(gguf), !.end = end, !.base = ggufVersion]]
    /\ UNCHANGED <<hubVars, checkVars, ggufVars>>

PatchFails(p) ==   \* an error of the network or the disk before any write
    /\ patchers[p].pc \in {"probe", "compare", "extend", "copy", "rename"}
    /\ patchers' = [patchers EXCEPT ![p] = NoPatch]
    /\ UNCHANGED <<hubVars, checkVars, ggufVars>>

PatchProbes(p) ==   \* download_range
    /\ patchers[p].pc = "probe"
    /\ patchers' = [patchers EXCEPT ![p].pc = "compare",
           ![p].bytes = Start(HubFile(hubRevision), ProbeEnd(patchers[p].len, patchers[p].size, patchers[p].end))]
    /\ UNCHANGED <<hubVars, checkVars, ggufVars>>

\* The verdict: nothing to do, a download of the whole file, or a write.  A
\* Hub header that cannot be read is spliced as it is.
PatchCompares(p) ==
    /\ patchers[p].pc = "compare"
    /\ LET c      == patchers[p]
           same   == Start(gguf, c.end) = Start(c.bytes, c.end) /\ c.len = c.size
           hubEnd == HeaderEnd(c.bytes)
           becomes(pc, bytes) == [c EXCEPT !.pc = pc, !.bytes = bytes, !.at = hubEnd] IN
       patchers' = [patchers EXCEPT ![p] =
           CASE same -> NoPatch
             [] ~same /\ hubEnd = 0 -> becomes("splice", c.bytes)
             [] ~same /\ hubEnd = c.end /\ c.len # c.size -> NoPatch
             [] ~same /\ hubEnd = c.end /\ c.len = c.size -> becomes("splice", Start(c.bytes, c.end))
             [] ~same /\ hubEnd \notin {0, c.end} ->
                    IF ClassifyFromHeaders(c.len, c.size, c.end, hubEnd, FALSE) = "full" THEN NoPatch
                    ELSE becomes(IF hubEnd > Len(c.bytes) THEN "extend" ELSE "copy", Start(c.bytes, hubEnd))]
    /\ UNCHANGED <<hubVars, checkVars, ggufVars>>

PatchExtends(p) ==   \* the rest of a header longer than the probe
    /\ patchers[p].pc = "extend"
    /\ LET c == patchers[p]
           hub == HubFile(hubRevision) IN   \* a range beyond its end is an error
       /\ Len(c.bytes) < Len(hub)
       /\ patchers' = [patchers EXCEPT ![p].pc = "copy",
              ![p].bytes = c.bytes \o SubSeq(hub, Len(c.bytes) + 1, Smaller(c.at, Len(hub)))]
    /\ UNCHANGED <<hubVars, checkVars, ggufVars>>

\* Another write came in between, or what is written is no whole header.
Suspect(p, bytes) == ggufVersion # patchers[p].base \/ HeaderEnd(bytes) # Len(bytes)
                     \/ (Len(bytes) > 0 /\ bytes[Len(bytes)][1] # "header")
                     \/ \E q \in Patchers \ {p} : patchers[q].pc = "splice"

\* patch_in_place: the write begins, and ends; a crash may come in between.
PatchBeginsSplice(p) ==
    /\ patchers[p].pc = "splice" /\ patchers[p].at >= 0 /\ ggufVersion < MaxGgufFiles
    /\ LET c == patchers[p] IN
       /\ gguf' = Start(c.bytes, 1) \o SubSeq(gguf, 2, Len(gguf))
       /\ tainted' = (tainted \/ Suspect(p, c.bytes))
       /\ ggufVersion' = ggufVersion + 1
       /\ patchers' = [patchers EXCEPT ![p].at = -1, ![p].base = ggufVersion']
    /\ UNCHANGED <<hubVars, checkVars, weights>>
PatchSplices(p) ==
    /\ patchers[p].pc = "splice" /\ patchers[p].at = -1
    /\ LET c == patchers[p] IN
       /\ gguf' = c.bytes \o SubSeq(gguf, Len(c.bytes) + 1, Len(gguf))
       /\ tainted' = (tainted \/ Suspect(p, c.bytes))
    /\ patchers' = [patchers EXCEPT ![p] = NoPatch]
    /\ UNCHANGED <<hubVars, checkVars, ggufVersion, weights>>

\* patch_with_shift: the new header and what follows the old one, in a file
\* of its own, which then takes the model's name.
Shifted(c) == c.bytes \o SubSeq(gguf, c.end + 1, Smaller(Len(gguf), c.len))
PatchCopies(p) ==
    /\ patchers[p].pc = "copy"
    /\ patchers' = [patchers EXCEPT ![p].pc = "rename", ![p].bytes = Shifted(patchers[p])]
    /\ UNCHANGED <<hubVars, checkVars, ggufVars>>
PatchRenames(p) ==
    /\ patchers[p].pc = "rename" /\ ggufVersion < MaxGgufFiles
    /\ LET c == patchers[p] IN
       /\ gguf' = c.bytes /\ ggufVersion' = ggufVersion + 1
       /\ tainted' = (tainted \/ Suspect(p, Start(c.bytes, c.at)))
    /\ patchers' = [patchers EXCEPT ![p] = NoPatch]
    /\ UNCHANGED <<hubVars, checkVars, weights>>

-----------------------------------------------------------------------------
(* The surroundings *)

HubPublishes ==
    /\ \E r \in Revisions : r > hubRevision /\ hubRevision' = r
    /\ UNCHANGED <<listing, pairedOid, checkVars, ggufVars, patchers>>

ListRepository ==   \* get_model_info of the Hub page
    /\ listing' = hubRevision /\ listing # hubRevision
    /\ UNCHANGED <<hubRevision, pairedOid, checkVars, ggufVars, patchers>>

DownloadReplaces ==   \* a whole download takes the file's place
    /\ gguf # HubFile(hubRevision) /\ ggufVersion < MaxGgufFiles
    /\ gguf' = HubFile(hubRevision) /\ ggufVersion' = ggufVersion + 1
    /\ weights' = WeightsOf[hubRevision] /\ pairedOid' = hubRevision
    /\ tainted' = \E p \in Patchers : patchers[p].pc = "splice" /\ patchers[p].at = -1
    /\ UNCHANGED <<hubRevision, listing, checkVars, patchers>>

UpdaterCrashes ==
    /\ \E p \in Patchers : patchers[p] # NoPatch
    /\ tainted' = (tainted \/ \E p \in Patchers : patchers[p].pc = "splice" /\ patchers[p].at = -1)
    /\ patchers' = [p \in Patchers |-> NoPatch] /\ updateCheck' = NoCheck
    /\ UNCHANGED <<hubVars, kindFile, checksMade, gguf, ggufVersion, weights>>

PatchStep(p) == \/ PatchLooks(p) \/ PatchFails(p) \/ PatchProbes(p) \/ PatchCompares(p) \/ PatchExtends(p)
                \/ PatchBeginsSplice(p) \/ PatchSplices(p) \/ PatchCopies(p) \/ PatchRenames(p)
PatchNext == \/ CheckAsks \/ CheckProbes \/ CheckFails \/ CheckStores
             \/ \E p \in Patchers : PatchStep(p)
             \/ HubPublishes \/ ListRepository \/ DownloadReplaces \/ UpdaterCrashes
PatchSpec == PatchInit /\ [][PatchNext]_patchVars

-----------------------------------------------------------------------------
(* Types and promises *)

PatchTypeOK == /\ hubRevision \in Revisions /\ listing \in 1..hubRevision /\ pairedOid \in 1..hubRevision
               /\ ggufVersion \in 1..MaxGgufFiles /\ kindFile.kind \in {"none", "current", "header", "full"}

Splicing == \E p \in Patchers : patchers[p].pc = "splice" /\ patchers[p].at = -1

\* Whatever the Hub publishes in between, a patch leaves the weights that were
\* downloaded behind a whole header: it never moves, cuts or repeats a cell.
\* Not covered are a file written by someone else during the patch, a crash
\* during the write in place, and a Hub header that could not be read.
WeightsAreKept ==
    ~tainted /\ ~Splicing => /\ HeaderEnd(gguf) # 0
                             /\ SubSeq(gguf, HeaderEnd(gguf) + 1, Len(gguf)) = WeightCells(weights)

\* A kind that is remembered as "current" is that of the file it names.
CurrentIsCurrent ==
    kindFile.kind = "current" /\ ~kindFile.mixed /\ kindFile.version = ggufVersion /\ ~tainted /\ ~Splicing =>
        HeaderEnd(gguf) = HeaderLen[kindFile.oid] /\ IsPrefix(HeaderCells(kindFile.oid), gguf)

PatchInv == PatchTypeOK /\ WeightsAreKept /\ CurrentIsCurrent
=============================================================================

---------------------------- MODULE GatewayStore ----------------------------
(***************************************************************************)
(* What the remote gateway keeps on disk and starts: devices.json, written *)
(* from snapshots taken under the lock and saved after it is released,     *)
(* invites.json, loaded, changed and saved without one, and the server     *)
(* task that is started and stopped.  The two share nothing but the        *)
(* process, so a behaviour looks at one of them (side).  The sockets and   *)
(* sessions are GatewayLink's.                                             *)
(***************************************************************************)
EXTENDS Integers, FiniteSets

CONSTANTS
    GwDevices,   \* devices that may be paired, in this order
    Pairers,     \* pairing requests served at a time
    MaxSaves,    \* bound: snapshots of the devices
    MaxStarts    \* bound: starts of the server

ASSUME GatewayStoreAssumption ==
    /\ GwDevices = 1 .. Cardinality(GwDevices) /\ MaxSaves \in Nat /\ MaxStarts \in Nat

VARIABLES
    side,       \* "files" or "server"
    record,     \* device -> "new", "plain", "named" or "gone" (in memory)
    saves,      \* snapshots still to be written: [seq, snap]
    seqNo,      \* snapshots taken so far
    devFile,    \* devices.json: [seq, snap]
    invFile,    \* invites.json: the invite's state: "none", "unused", "used", "revoked"
    pairer,     \* request -> [pc, copy]
    editor,     \* the page's own command on the invites: [pc, copy]
    revoked,    \* history: devices whose removal reached the file
    redeemed,   \* history: times the invite was redeemed, up to 2
    lateSave,   \* history: an older snapshot was written over a newer one, or a write
                \* failed or was cut off
    invCrossed  \* history: a change of the invites was made to a copy that was out of date

VARIABLES
    server,     \* start -> its task: "bind", "serve", "over", "clear" or "gone"
    handle,     \* gateway_runtime: the start it holds, 0 = none
    running,    \* gateway_running
    starter,    \* start_gateway between the spawn and the handle: a start, 0 = none
    stopper,    \* stop_gateway: [pc, of]
    overtaken   \* history: a start came before the last task had ended or its stop had
                \* returned, or a task ended before its start had

fileVars == <<record, saves, seqNo, devFile, invFile, pairer, editor, revoked, redeemed, lateSave, invCrossed>>
serverVars == <<server, handle, running, starter, stopper, overtaken>>
storeVars == <<side, fileVars, serverVars>>

Quiet == [pc |-> "rest", copy |-> "none"]
NoStop == [pc |-> "rest", of |-> 0]

StoreInit ==
    /\ side \in {"files", "server"}
    /\ record = [d \in GwDevices |-> "new"] /\ saves = {} /\ seqNo = 0
    /\ devFile = [seq |-> 0, snap |-> record] /\ invFile = "none"
    /\ pairer = [p \in Pairers |-> Quiet] /\ editor = Quiet
    /\ revoked = {} /\ redeemed = 0 /\ lateSave = FALSE /\ invCrossed = FALSE
    /\ server = <<>> /\ handle = 0 /\ running = FALSE /\ starter = 0 /\ stopper = NoStop /\ overtaken = FALSE

Known(d) == record[d] \in {"plain", "named"}

-----------------------------------------------------------------------------
(* devices.json *)

(* the change and its snapshot, under one hold of the lock *)
Change(new) ==
    /\ seqNo < MaxSaves /\ record' = new /\ seqNo' = seqNo + 1
    /\ saves' = saves \cup {[seq |-> seqNo + 1, snap |-> new]}

\* variant: a rename is saved only when the next device connects
RenameUnsaved(d, name) ==
    /\ Known(d) /\ seqNo < MaxSaves /\ record' = [record EXCEPT ![d] = name] /\ seqNo' = seqNo + 1
    /\ UNCHANGED <<saves, devFile, invFile, pairer, editor, revoked, redeemed, lateSave, invCrossed>>

Rename(d, name) ==
    /\ Known(d) /\ Change([record EXCEPT ![d] = name])
    /\ UNCHANGED <<devFile, invFile, pairer, editor, revoked, redeemed, lateSave, invCrossed>>
Revoke(d) ==
    /\ Known(d) /\ Change([record EXCEPT ![d] = "gone"])
    /\ UNCHANGED <<devFile, invFile, pairer, editor, revoked, redeemed, lateSave, invCrossed>>

(* authenticate and on_hello save what has changed in nothing told apart here *)
Seen(d) ==
    /\ Known(d) /\ Change(record)
    /\ UNCHANGED <<devFile, invFile, pairer, editor, revoked, redeemed, lateSave, invCrossed>>

SaveDevices(s) ==
    /\ s \in saves /\ saves' = saves \ {s}
    /\ \/ /\ devFile' = s /\ lateSave' = (lateSave \/ s.seq < devFile.seq)
          /\ revoked' = revoked \cup {d \in GwDevices : s.snap[d] = "gone"}
       \/ lateSave' = TRUE /\ UNCHANGED <<devFile, revoked>>
    /\ UNCHANGED <<record, seqNo, invFile, pairer, editor, redeemed, invCrossed>>

(* The gateway's process ends and loads the files again.  A write that is    *)
(* cut off leaves a file that is read as empty.                              *)
GatewayRestarts ==
    /\ \/ devFile' = devFile /\ invFile' = invFile /\ lateSave' = (lateSave \/ saves # {}) /\ UNCHANGED invCrossed
       \/ /\ saves # {} /\ devFile' = [seq |-> seqNo, snap |-> [d \in GwDevices |-> IF record[d] = "new" THEN "new" ELSE "gone"]]
          /\ lateSave' = TRUE /\ UNCHANGED <<invFile, invCrossed>>
       \/ /\ "save" \in {editor.pc} \cup {pairer[p].pc : p \in Pairers}
          /\ invFile' = "none" /\ invCrossed' = TRUE /\ devFile' = devFile /\ lateSave' = (lateSave \/ saves # {})
    /\ record' = [d \in GwDevices |-> IF devFile'.snap[d] = "new" /\ record[d] # "new" THEN "gone" ELSE devFile'.snap[d]]
    /\ saves' = {} /\ pairer' = [p \in Pairers |-> Quiet] /\ editor' = Quiet
    /\ UNCHANGED <<seqNo, revoked, redeemed>>

-----------------------------------------------------------------------------
(* invites.json, and a pairing, with an invite or with a code *)

SaveInvites(copy, new) == invFile' = new /\ invCrossed' = (invCrossed \/ copy # invFile)

EditLoad ==
    /\ editor.pc = "rest" /\ editor' = [pc |-> "save", copy |-> invFile]
    /\ UNCHANGED <<record, saves, seqNo, devFile, invFile, pairer, revoked, redeemed, lateSave, invCrossed>>
(* create, revoke and cleanup; one invite is told apart *)
EditSave ==
    /\ editor.pc = "save" /\ editor' = Quiet
    /\ \E new \in {"unused", "revoked", "none"} :
          /\ new = "unused" => editor.copy = "none" /\ redeemed = 0
          /\ new = "revoked" => editor.copy # "none"
          /\ SaveInvites(editor.copy, new)
    /\ UNCHANGED <<record, saves, seqNo, devFile, pairer, revoked, redeemed, lateSave>>

RedeemLoad(p) ==
    /\ pairer[p].pc = "rest" /\ invFile = "unused"
    /\ pairer' = [pairer EXCEPT ![p] = [pc |-> "save", copy |-> invFile]]
    /\ UNCHANGED <<record, saves, seqNo, devFile, invFile, editor, revoked, redeemed, lateSave, invCrossed>>
RedeemSave(p) ==
    /\ pairer[p].pc = "save" /\ SaveInvites(pairer[p].copy, "used")
    /\ redeemed' = IF redeemed = 2 THEN 2 ELSE redeemed + 1
    /\ pairer' = [pairer EXCEPT ![p] = [pc |-> "insert", copy |-> "none"]]
    /\ UNCHANGED <<record, saves, seqNo, devFile, editor, revoked, lateSave>>

(* a pairing code is taken out under the lock *)
PairByCode(p) ==
    /\ pairer[p].pc = "rest" /\ pairer' = [pairer EXCEPT ![p].pc = "insert"]
    /\ UNCHANGED <<record, saves, seqNo, devFile, invFile, editor, revoked, redeemed, lateSave, invCrossed>>
Insert(p, d) ==
    /\ pairer[p].pc = "insert" /\ record[d] = "new" /\ \A e \in GwDevices : e < d => record[e] # "new"
    /\ Change([record EXCEPT ![d] = "plain"]) /\ pairer' = [pairer EXCEPT ![p] = Quiet]
    /\ UNCHANGED <<devFile, invFile, editor, revoked, redeemed, lateSave, invCrossed>>

FilesNext ==
    \/ \E d \in GwDevices : \/ \E name \in {"plain", "named"} : Rename(d, name)
                            \/ Revoke(d) \/ Seen(d)
    \/ \E s \in saves : SaveDevices(s)
    \/ GatewayRestarts \/ EditLoad \/ EditSave
    \/ \E p \in Pairers : RedeemLoad(p) \/ RedeemSave(p) \/ PairByCode(p) \/ \E d \in GwDevices : Insert(p, d)

-----------------------------------------------------------------------------
(* start_gateway, stop_gateway and the server task *)

ServerTasks == DOMAIN server
Bound == {k \in ServerTasks : server[k] = "serve"}
LockFree == starter = 0    \* start_gateway holds the lock of the handle while it runs
TaskTo(k, st) == server' = [server EXCEPT ![k] = st]

StartSpawns ==
    /\ LockFree /\ handle = 0 /\ Cardinality(ServerTasks) < MaxStarts
    /\ LET k == Cardinality(ServerTasks) + 1 IN
       /\ server' = [j \in ServerTasks \cup {k} |-> IF j = k THEN "bind" ELSE server[j]]
       /\ starter' = k
    /\ overtaken' = (overtaken \/ stopper # NoStop \/ \E j \in ServerTasks : server[j] # "gone")
    /\ UNCHANGED <<handle, running, stopper>>
(* the flag is set, the handle stored *)
StartReturns ==
    /\ starter # 0 /\ running' = TRUE /\ handle' = starter /\ starter' = 0
    /\ overtaken' = (overtaken \/ server[starter] = "clear")
    /\ UNCHANGED <<server, stopper>>

(* the port is bound unless another task has it, or a foreign program *)
ServerBinds(k) ==
    /\ server[k] = "bind"
    /\ \/ Bound = {} /\ TaskTo(k, "serve")
       \/ TaskTo(k, "over")
    /\ UNCHANGED <<handle, running, starter, stopper, overtaken>>
(* the listener dies *)
ServerFails(k) ==
    /\ server[k] = "serve" /\ TaskTo(k, "over") /\ UNCHANGED <<handle, running, starter, stopper, overtaken>>
TaskLowersFlag(k) ==
    /\ server[k] = "over" /\ running' = FALSE /\ TaskTo(k, "clear")
    /\ UNCHANGED <<handle, starter, stopper, overtaken>>
(* whatever start the handle belongs to by now *)
TaskClearsHandle(k) ==
    /\ server[k] = "clear" /\ LockFree /\ handle' = 0 /\ TaskTo(k, "gone")
    /\ UNCHANGED <<running, starter, stopper, overtaken>>

StopTakes ==
    /\ stopper.pc = "rest" /\ LockFree
    /\ IF handle = 0 THEN running' = FALSE /\ UNCHANGED <<handle, stopper>>
       ELSE handle' = 0 /\ stopper' = [pc |-> "cancel", of |-> handle] /\ UNCHANGED running
    /\ UNCHANGED <<server, starter, overtaken>>
(* the task notices the shutdown when its connections have ended; a task     *)
(* that has not bound yet serves until then                                  *)
StopCancels ==
    /\ stopper.pc = "cancel" /\ stopper' = [stopper EXCEPT !.pc = "wait"]
    /\ server' = IF server[stopper.of] \in {"serve", "bind"} THEN [server EXCEPT ![stopper.of] = "over"] ELSE server
    /\ UNCHANGED <<handle, running, starter, overtaken>>
StopReturns ==
    /\ stopper.pc = "wait" /\ server[stopper.of] = "gone" /\ stopper' = NoStop /\ running' = FALSE
    /\ UNCHANGED <<server, handle, starter, overtaken>>

ServerNext ==
    \/ StartSpawns \/ StartReturns \/ StopTakes \/ StopCancels \/ StopReturns
    \/ \E k \in ServerTasks : ServerBinds(k) \/ ServerFails(k) \/ TaskLowersFlag(k) \/ TaskClearsHandle(k)

StoreNext ==
    \/ side = "files" /\ FilesNext /\ UNCHANGED <<side, serverVars>>
    \/ side = "server" /\ ServerNext /\ UNCHANGED <<side, fileVars>>
StoreSpec == StoreInit /\ [][StoreNext]_storeVars

-----------------------------------------------------------------------------
(* Properties *)

StoreTypeOK ==
    /\ record \in [GwDevices -> {"new", "plain", "named", "gone"}] /\ seqNo \in 0 .. MaxSaves
    /\ devFile.snap \in [GwDevices -> {"new", "plain", "named", "gone"}]
    /\ invFile \in {"none", "unused", "used", "revoked"} /\ redeemed \in 0 .. 2
    /\ handle \in 0 .. MaxStarts /\ starter \in 0 .. MaxStarts

(* When no write is pending the file holds the devices of the memory, unless *)
(* one came late, failed or was cut off.                                     *)
FileHoldsTheDevices == saves = {} /\ ~lateSave => devFile.snap = record

(* A device whose removal reached the file is never known again, restarts    *)
(* included, unless an older snapshot was written after it.                  *)
RevokedStaysRevoked == ~lateSave => \A d \in revoked : record[d] = "gone"

(* An invite is redeemed at most once and is spent from then on, unless two  *)
(* changes of the file crossed.                                              *)
InviteIsRedeemedOnce == ~invCrossed => redeemed < 2 /\ (redeemed = 1 => invFile # "unused")

(* A server that listens can be stopped, and the status says that it runs    *)
(* unless it is being stopped; one task at a time does.  The exceptions are  *)
(* a start that overtakes the last task or its stop, and a task that ends    *)
(* before its start.                                                         *)
AServerCanBeStopped ==
    /\ Cardinality(Bound) <= 1
    /\ ~overtaken => \A k \in Bound : \/ handle = k /\ running
                                      \/ k = starter \/ k = stopper.of
    /\ ~overtaken /\ running => handle # 0 \/ stopper.pc # "rest" \/ \E k \in ServerTasks : server[k] \in {"over", "clear"}

StoreInv == StoreTypeOK /\ FileHoldsTheDevices /\ RevokedStaysRevoked /\ InviteIsRedeemedOnce /\ AServerCanBeStopped
=============================================================================

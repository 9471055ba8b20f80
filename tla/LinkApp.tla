------------------------------ MODULE LinkApp ------------------------------
(***************************************************************************)
(* The OYM Link desktop app: its settings file, the paired identity, the   *)
(* link client it starts (the helper) and the assistant's console.  A      *)
(* synchronous command is one step (they run one after the other on the    *)
(* main thread); the two asynchronous ones, invite_bootstrap and link_pair,*)
(* are one step per look at a file and run between them.  The page runs    *)
(* the asynchronous ones one at a time.  The service is LinkService.       *)
(***************************************************************************)
EXTENDS Naturals

CONSTANTS MaxPairings  \* bound: pairings over the run

ASSUME LinkAppAssumption == MaxPairings \in Nat

VARIABLES
    linkUp,   \* the app runs
    asHelper, \* it was started as the helper (helper_requested)
    linkCfg,  \* settings.json: [off, stopped] = networkDisabled, helperStopped
    identity, \* the pairing whose identity and token are stored, 0 = none
    invite,   \* an invite file is there
    helper,   \* the link client the app holds: "none", "alive" or "dead"
    stray,    \* a crash left a link client running
    seat,     \* the assistant's session: "none", "local", "cloud" or "ended"
    hosted,   \* OymLink.xml: the service is installed
    boot,     \* the asynchronous command under way: [pc, copy, stopped]
    excused   \* history: since the network was switched off, something the code lets
              \* through may have started the client again

appVars == <<linkUp, asHelper, linkCfg, identity, invite, helper, stray, seat, hosted, boot, excused>>

AtRest == [pc |-> "rest", copy |-> [off |-> FALSE, stopped |-> FALSE], stopped |-> FALSE]
GoTo(pc) == boot' = [boot EXCEPT !.pc = pc]

AppInit ==
    /\ linkUp = FALSE /\ asHelper \in BOOLEAN /\ linkCfg = [off |-> FALSE, stopped |-> FALSE]
    /\ identity = 0 /\ invite \in BOOLEAN /\ helper = "none" /\ stray = FALSE /\ seat = "none"
    /\ hosted = FALSE /\ boot = AtRest /\ excused = FALSE

(* start_helper_client: a client that runs is kept; the tools may be missing *)
StartHelper == helper' \in IF helper = "alive" THEN {"alive"} ELSE {helper, "alive"}

-----------------------------------------------------------------------------
(* The processes *)

AppOpens ==
    /\ ~linkUp /\ linkUp' = TRUE
    /\ UNCHANGED <<asHelper, linkCfg, identity, invite, helper, stray, seat, hosted, boot, excused>>

(* RunEvent::Exit: quit, close, a restart with other rights, an update.  A    *)
(* bootstrap may start a client after the last one is stopped.               *)
AppExits ==
    /\ linkUp /\ linkUp' = FALSE /\ helper' = "none" /\ seat' = "none" /\ boot' = AtRest
    /\ stray' \in {stray, stray \/ boot.pc = "start"}
    /\ UNCHANGED <<asHelper, linkCfg, identity, invite, hosted, excused>>

(* no job object holds the client *)
LinkAppCrashes ==
    /\ linkUp /\ linkUp' = FALSE /\ helper' = "none" /\ seat' = "none" /\ boot' = AtRest
    /\ stray' = (stray \/ helper = "alive")
    /\ UNCHANGED <<asHelper, linkCfg, identity, invite, hosted, excused>>

ClientEnds ==
    /\ \/ helper = "alive" /\ helper' = "dead" /\ UNCHANGED stray
       \/ stray /\ stray' = FALSE /\ UNCHANGED helper
    /\ UNCHANGED <<linkUp, asHelper, linkCfg, identity, invite, seat, hosted, boot, excused>>

(* the elevated scripts, and the user who brings an invite *)
ServiceFilesChange ==
    /\ hosted' = ~hosted
    /\ UNCHANGED <<linkUp, asHelper, linkCfg, identity, invite, helper, stray, seat, boot, excused>>
InviteArrives ==
    /\ ~invite /\ invite' = TRUE
    /\ UNCHANGED <<linkUp, asHelper, linkCfg, identity, helper, stray, seat, hosted, boot, excused>>

-----------------------------------------------------------------------------
(* The synchronous commands *)

(* link_network_set.  A bootstrap that has looked at the setting already     *)
(* starts the client still.                                                  *)
NetworkSet(on) ==
    /\ linkUp /\ linkCfg' = [linkCfg EXCEPT !.off = ~on]
    /\ IF ~on THEN helper' = "none" /\ seat' = "none" /\ excused' = (boot.pc = "start")
       ELSE /\ UNCHANGED <<seat, excused>>
            /\ IF hosted THEN UNCHANGED helper ELSE StartHelper
    /\ UNCHANGED <<linkUp, asHelper, identity, invite, stray, hosted, boot>>

(* link_settings_set: the page writes its whole copy, of whatever age *)
SettingsSet(off, stopped) ==
    /\ linkUp /\ linkCfg' = [off |-> off, stopped |-> stopped]
    /\ excused' = (excused \/ off # linkCfg.off)
    /\ UNCHANGED <<linkUp, asHelper, identity, invite, helper, stray, seat, hosted, boot>>

(* link_portable_start and helper_reconnect do not ask for the network *)
PortableStart ==
    /\ linkUp /\ StartHelper /\ excused' = TRUE
    /\ UNCHANGED <<linkUp, asHelper, linkCfg, identity, invite, stray, seat, hosted, boot>>
HelperReconnect ==
    /\ linkUp /\ linkCfg' = [linkCfg EXCEPT !.stopped = FALSE] /\ StartHelper /\ excused' = TRUE
    /\ UNCHANGED <<linkUp, asHelper, identity, invite, stray, seat, hosted, boot>>
HelperStop ==
    /\ linkUp /\ helper' = "none" /\ linkCfg' = [linkCfg EXCEPT !.stopped = TRUE]
    /\ UNCHANGED <<linkUp, asHelper, identity, invite, stray, seat, hosted, boot, excused>>
HelperForget ==
    /\ linkUp /\ helper' = "none" /\ identity' = 0 /\ invite' = FALSE
    /\ linkCfg' = [linkCfg EXCEPT !.stopped = TRUE]
    /\ UNCHANGED <<linkUp, asHelper, stray, seat, hosted, boot, excused>>

(* service_install stops the client, then asks for the identity *)
ServiceInstall ==
    /\ linkUp /\ helper' = "none"
    /\ UNCHANGED <<linkUp, asHelper, linkCfg, identity, invite, stray, seat, hosted, boot, excused>>

(* assistant_start: a session is there until it is stopped, ended or not *)
AssistantStart(provider) ==
    /\ linkUp /\ seat = "none" /\ (provider = "cloud" => ~linkCfg.off)
    /\ seat' = provider
    /\ UNCHANGED <<linkUp, asHelper, linkCfg, identity, invite, helper, stray, hosted, boot, excused>>
AssistantEnds ==
    /\ seat \in {"local", "cloud"} /\ seat' = "ended"
    /\ UNCHANGED <<linkUp, asHelper, linkCfg, identity, invite, helper, stray, hosted, boot, excused>>
AssistantStop ==
    /\ linkUp /\ seat # "none" /\ seat' = "none"
    /\ UNCHANGED <<linkUp, asHelper, linkCfg, identity, invite, helper, stray, hosted, boot, excused>>

-----------------------------------------------------------------------------
(* invite_bootstrap and link_pair *)

BootBegin ==
    /\ linkUp /\ boot.pc = "rest" /\ (identity # 0 \/ invite)
    /\ boot' = [boot EXCEPT !.pc = IF identity # 0 THEN "ask" ELSE "pair", !.stopped = linkCfg.stopped]
    /\ UNCHANGED <<linkUp, asHelper, linkCfg, identity, invite, helper, stray, seat, hosted, excused>>

(* paired: the network, then a helper that was not stopped, or no service    *)
BootAsk ==
    /\ boot.pc = "ask"
    /\ GoTo(IF ~linkCfg.off /\ ((asHelper /\ ~boot.stopped) \/ ~hosted) THEN "start" ELSE "rest")
    /\ UNCHANGED <<linkUp, asHelper, linkCfg, identity, invite, helper, stray, seat, hosted, excused>>
BootStart ==
    /\ boot.pc = "start" /\ StartHelper /\ boot' = AtRest
    /\ UNCHANGED <<linkUp, asHelper, linkCfg, identity, invite, stray, seat, hosted, excused>>

(* link_pair begins with the gateway, too *)
PairBegin ==
    /\ linkUp /\ boot.pc = "rest" /\ GoTo("enter")
    /\ UNCHANGED <<linkUp, asHelper, linkCfg, identity, invite, helper, stray, seat, hosted, excused>>

(* The gateway answers, and the identity is stored; either may fail *)
Paired ==
    /\ boot.pc \in {"pair", "enter"}
    /\ \/ boot' = AtRest /\ UNCHANGED identity
       \/ identity < MaxPairings /\ identity' = identity + 1 /\ GoTo(IF boot.pc = "pair" THEN "load" ELSE "loadOwn")
    /\ UNCHANGED <<linkUp, asHelper, linkCfg, invite, helper, stray, seat, hosted, excused>>
LoadCopy ==
    /\ \/ boot.pc = "load" /\ boot' = [boot EXCEPT !.pc = "save", !.copy = [linkCfg EXCEPT !.stopped = FALSE]]
       \/ boot.pc = "loadOwn" /\ boot' = [boot EXCEPT !.pc = "saveOwn", !.copy = linkCfg]
    /\ UNCHANGED <<linkUp, asHelper, linkCfg, identity, invite, helper, stray, seat, hosted, excused>>

(* A settings command that ran in between is undone *)
SaveCopy ==
    /\ boot.pc \in {"save", "saveOwn"}
    /\ \/ linkCfg' = boot.copy /\ excused' = (excused \/ boot.copy.off # linkCfg.off)
       \/ UNCHANGED <<linkCfg, excused>>
    /\ boot' = IF boot.pc = "save" THEN [boot EXCEPT !.pc = "drop"] ELSE AtRest
    /\ UNCHANGED <<linkUp, asHelper, identity, invite, helper, stray, seat, hosted>>
DropInvite ==
    /\ boot.pc = "drop" /\ invite' = FALSE /\ GoTo("last")
    /\ UNCHANGED <<linkUp, asHelper, linkCfg, identity, helper, stray, seat, hosted, excused>>

(* the invite says whether this is a helper *)
BootLast ==
    /\ boot.pc = "last"
    /\ \E byInvite \in BOOLEAN : GoTo(IF ~linkCfg.off /\ (byInvite \/ ~hosted) THEN "start" ELSE "rest")
    /\ UNCHANGED <<linkUp, asHelper, linkCfg, identity, invite, helper, stray, seat, hosted, excused>>

AppNext ==
    \/ AppOpens \/ AppExits \/ LinkAppCrashes \/ ClientEnds \/ ServiceFilesChange \/ InviteArrives
    \/ \E on \in BOOLEAN : NetworkSet(on)
    \/ \E off, stopped \in BOOLEAN : SettingsSet(off, stopped)
    \/ PortableStart \/ HelperReconnect \/ HelperStop \/ HelperForget \/ ServiceInstall
    \/ \E provider \in {"local", "cloud"} : AssistantStart(provider)
    \/ AssistantEnds \/ AssistantStop
    \/ BootBegin \/ BootAsk \/ BootStart \/ PairBegin \/ Paired \/ LoadCopy \/ SaveCopy \/ DropInvite \/ BootLast
AppSpec == AppInit /\ [][AppNext]_appVars

-----------------------------------------------------------------------------
(* Properties *)

AppTypeOK ==
    /\ {linkUp, asHelper, invite, stray, hosted, excused} \subseteq BOOLEAN
    /\ linkCfg \in [off : BOOLEAN, stopped : BOOLEAN] /\ boot.copy \in [off : BOOLEAN, stopped : BOOLEAN]
    /\ identity \in 0 .. MaxPairings
    /\ helper \in {"none", "alive", "dead"} /\ seat \in {"none", "local", "cloud", "ended"}

(* With the network switched off neither a link client of the app nor a      *)
(* cloud session runs, restarts and pairings included, unless it was started *)
(* by one of the ways that do not ask: reconnect, a portable start, a        *)
(* bootstrap that had asked before, or a settings file overwritten by an     *)
(* older copy.                                                               *)
QuietWhenOff == linkCfg.off /\ ~excused => helper # "alive" /\ seat # "cloud"

LinkAppInv == AppTypeOK /\ QuietWhenOff
=============================================================================

---------------------------- MODULE LinkService ----------------------------
(***************************************************************************)
(* The OYM Link service: a loop that once a second looks at the network-off*)
(* flag, keeps one link client running with the identity the app handed    *)
(* over in a bootstrap file, and writes service-status.json.  Each look at *)
(* or write of a file is a step; the app, the elevated install scripts and *)
(* a kill of the service come in between.                                  *)
(***************************************************************************)
EXTENDS Naturals

CONSTANTS MaxHandOvers  \* bound: pairings handed to the service

ASSUME LinkServiceAssumption == MaxHandOvers \in Nat

VARIABLES
    flag,     \* control/network-off is there
    xml,      \* OymLink.xml is there
    script,   \* the elevated script under way: "none", "files" or "start"
    handed,   \* service-bootstrap.json in the app's directory: a pairing, 0 = none
    pairing,  \* the newest pairing of the app
    base,     \* the service's own files: [boot, id, token], each of a pairing
    svc,      \* the service process: [pc, off, carry]
    svcChild, \* its link client: [st, job, key], key the pairing it runs with
    status,   \* service-status.json: "none", "stopped", "running" or "starting"
    loose,    \* a link client outlived the service that had started it
    torn      \* history: a kill or a failed write came between the consumed
              \* bootstrap and the two files made of it

serviceVars == <<flag, xml, script, handed, pairing, base, svc, svcChild, status, torn, loose>>

Down == [pc |-> "down", off |-> FALSE, carry |-> 0]
NoClient == [st |-> "none", job |-> FALSE, key |-> 0]

ServiceInit ==
    /\ flag = FALSE /\ xml = FALSE /\ script = "none" /\ handed = 0 /\ pairing = 0
    /\ base = [boot |-> 0, id |-> 0, token |-> 0]
    /\ svc = Down /\ svcChild = NoClient /\ status = "none" /\ torn = FALSE /\ loose = FALSE

(* The process ends; the job takes the client along that was put into it *)
ServiceEnds(next) ==
    /\ svc' = next /\ svcChild' = NoClient
    /\ loose' = (loose \/ (svcChild.st = "alive" /\ ~svcChild.job))

Turn(pc) == svc' = [svc EXCEPT !.pc = pc]
Fails == svc' = [svc EXCEPT !.pc = "check", !.carry = 0]

-----------------------------------------------------------------------------
(* The app *)

(* link_network_set's part of the service: the flag is written only for an   *)
(* installed service, and removed always                                     *)
FlagSet(on) ==
    /\ flag' = (~on /\ (xml \/ flag)) /\ flag' # flag
    /\ UNCHANGED <<xml, script, handed, pairing, base, svc, svcChild, status, torn, loose>>

(* A pairing, then service_install: the script is asked for, or the          *)
(* bootstrap is removed again                                                *)
HandOver ==
    /\ script = "none"
    /\ pairing' \in {p \in {pairing, pairing + 1} : p \in 1 .. MaxHandOvers}
    /\ handed' = pairing' /\ script' = "files"
    /\ UNCHANGED <<flag, xml, base, svc, svcChild, status, torn, loose>>

-----------------------------------------------------------------------------
(* The elevated scripts *)

(* install: the old service is stopped, its identity removed, the bootstrap  *)
(* moved                                                                     *)
InstallFiles ==
    /\ script = "files" /\ script' = "start" /\ xml' = TRUE
    /\ base' = [boot |-> handed, id |-> 0, token |-> 0] /\ handed' = 0
    /\ ServiceEnds(Down) /\ torn' = FALSE
    /\ UNCHANGED <<flag, pairing, status>>
InstallStarts ==
    /\ script = "start" /\ script' = "none" /\ svc' = [Down EXCEPT !.pc = "look"]
    /\ UNCHANGED <<flag, xml, handed, pairing, base, svcChild, status, torn, loose>>
Uninstalled ==
    /\ xml /\ script = "none" /\ xml' = FALSE /\ ServiceEnds(Down)
    /\ torn' = (torn \/ svc.carry # 0)
    /\ UNCHANGED <<flag, script, handed, pairing, base, status>>

(* A kill of the service, or a restart of the machine: the job ends the      *)
(* client that was put into it, and the host starts the service again        *)
ServiceKilled ==
    /\ svc.pc # "down"
    /\ ServiceEnds([Down EXCEPT !.pc = "look"])
    /\ torn' = (torn \/ svc.carry # 0)
    /\ UNCHANGED <<flag, xml, script, handed, pairing, base, status>>

-----------------------------------------------------------------------------
(* A turn of the loop *)

Look ==
    /\ svc.pc = "look"
    /\ svc' = [svc EXCEPT !.off = flag,
                          !.pc = IF flag THEN "kill" ELSE IF svcChild.st = "none" THEN "prepare" ELSE "check"]
    /\ UNCHANGED <<flag, xml, script, handed, pairing, base, svcChild, status, torn, loose>>

KillClient ==
    /\ svc.pc = "kill" /\ svcChild' = NoClient /\ Turn("check")
    /\ UNCHANGED <<flag, xml, script, handed, pairing, base, status, torn, loose>>

(* consume_bootstrap: the file is removed before what it held is written *)
Prepare ==
    /\ svc.pc = "prepare"
    /\ IF base.boot # 0
       THEN /\ svc' = [svc EXCEPT !.pc = "ident", !.carry = base.boot]
            /\ base' = [base EXCEPT !.boot = 0]
       ELSE /\ Turn(IF base.id # 0 /\ base.token # 0 THEN "spawn" ELSE "check")
            /\ UNCHANGED base
    /\ UNCHANGED <<flag, xml, script, handed, pairing, svcChild, status, torn, loose>>

WriteIdentity ==
    /\ svc.pc = "ident"
    /\ \/ base' = [base EXCEPT !.id = svc.carry] /\ Turn("token") /\ UNCHANGED torn
       \/ Fails /\ torn' = TRUE /\ UNCHANGED base
    /\ UNCHANGED <<flag, xml, script, handed, pairing, svcChild, status, loose>>
WriteToken ==
    /\ svc.pc = "token"
    /\ \/ /\ base' = [base EXCEPT !.token = svc.carry]
          /\ svc' = [svc EXCEPT !.pc = "spawn", !.carry = 0] /\ UNCHANGED torn
       \/ Fails /\ torn' = TRUE /\ UNCHANGED base
    /\ UNCHANGED <<flag, xml, script, handed, pairing, svcChild, status, loose>>

SpawnLink ==
    /\ svc.pc = "spawn"
    /\ \/ svcChild' = [st |-> "alive", job |-> FALSE, key |-> base.token] /\ Turn("assign")
       \/ Turn("check") /\ UNCHANGED svcChild
    /\ UNCHANGED <<flag, xml, script, handed, pairing, base, status, torn, loose>>
AssignJob ==
    /\ svc.pc = "assign" /\ \E done \in BOOLEAN : svcChild' = [svcChild EXCEPT !.job = done]
    /\ Turn("check")
    /\ UNCHANGED <<flag, xml, script, handed, pairing, base, status, torn, loose>>

LinkEnds ==
    /\ \/ svcChild.st = "alive" /\ svcChild' = [svcChild EXCEPT !.st = "dead"] /\ UNCHANGED loose
       \/ loose /\ loose' = FALSE /\ UNCHANGED svcChild
    /\ UNCHANGED <<flag, xml, script, handed, pairing, base, svc, status, torn>>
TryWait ==
    /\ svc.pc = "check" /\ Turn("write")
    /\ svcChild' = IF svcChild.st = "dead" THEN NoClient ELSE svcChild
    /\ UNCHANGED <<flag, xml, script, handed, pairing, base, status, torn, loose>>
WriteStatus ==
    /\ svc.pc = "write" /\ Turn("look")
    /\ status' = IF svc.off THEN "stopped" ELSE IF svcChild.st # "none" THEN "running" ELSE "starting"
    /\ UNCHANGED <<flag, xml, script, handed, pairing, base, svcChild, torn, loose>>

ServiceNext ==
    \/ \E on \in BOOLEAN : FlagSet(on)
    \/ HandOver \/ InstallFiles \/ InstallStarts \/ Uninstalled \/ ServiceKilled
    \/ Look \/ KillClient \/ Prepare \/ WriteIdentity \/ WriteToken \/ SpawnLink \/ AssignJob
    \/ LinkEnds \/ TryWait \/ WriteStatus
ServiceSpec == ServiceInit /\ [][ServiceNext]_serviceVars

-----------------------------------------------------------------------------
(* Properties *)

ServiceTypeOK ==
    /\ {flag, xml, torn, loose} \subseteq BOOLEAN /\ script \in {"none", "files", "start"}
    /\ {handed, pairing, base.boot, base.id, base.token, svc.carry, svcChild.key} \subseteq 0 .. MaxHandOvers
    /\ svcChild.st \in {"none", "alive", "dead"} /\ status \in {"none", "stopped", "running", "starting"}

(* A status that says "stopped" tells the truth until a turn begins that     *)
(* finds the flag gone: no link client of the service runs.                  *)
StoppedMeansStopped ==
    status = "stopped" /\ (svc.off \/ svc.pc \in {"look", "down"}) /\ svc.pc # "kill" => svcChild.st = "none"

(* The client never runs with an identity of one pairing and the token of    *)
(* another, nor without a pairing, and one handed over is not lost, unless   *)
(* the service was killed, or a write failed, between bootstrap and files.   *)
CredentialsAreOnePairing ==
    /\ svcChild.st = "alive" /\ ~torn => base.id = base.token /\ svcChild.key = base.token /\ base.token # 0
    /\ svc.pc = "look" /\ status = "running" /\ ~torn /\ svcChild.st # "none" => base.id # 0
    /\ base.boot = 0 /\ svc.carry = 0 /\ xml /\ pairing # 0 /\ handed = 0 /\ ~torn => base.token = pairing

ServiceInv == ServiceTypeOK /\ StoppedMeansStopped /\ CredentialsAreOnePairing
=============================================================================

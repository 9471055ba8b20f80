----------------------------- MODULE LogReader -----------------------------
(***************************************************************************)
(* The task that reads what an engine prints: drain_engine_pipe_lines and  *)
(* process_lines of log_hub, the slot's stream file of session_log, and    *)
(* what they tell the slot, the page and the store of learned memory.      *)
(*                                                                         *)
(* Launches follow one another in one slot under one alias.  A reader is   *)
(* keyed by its launch, but the slot's last stderr line, its stream file   *)
(* and its memory figure are keyed by the slot, so a reader that has not   *)
(* ended when the next launch begins may write there, too.  A stretch      *)
(* between two awaits is one step.  The store itself is VramLearn, the     *)
(* slot's life EngineStack.                                                *)
(***************************************************************************)
EXTENDS Naturals, Sequences, FiniteSetsExt

CONSTANTS Turns,      \* the launches, numbered in order
          Outputs,    \* what each engine may print: [kind, out], out = on stdout
          PipeCap,    \* STDERR_LINE_CHANNEL_CAP
          BatchCap,   \* MAX_BATCH_SIZE
          MaxPrinted  \* bound: lines of all engines

Kinds == {"plain", "noise", "loaded", "idle", "table", "hollow", "fatal", "oom", "assert", "fault"}
ASSUME LogAssumption == /\ Turns \subseteq Nat \ {0} /\ PipeCap \in Nat \ {0} /\ BatchCap \in Nat \ {0}
                        /\ Outputs \in [Turns -> SUBSET [kind : Kinds, out : BOOLEAN]]

(* The classifiers: one line may be of several classes *)
SaysReady(line) == line.kind \in {"loaded", "idle"}
IdleChatter(line) == line.kind = "idle"
TailNoise(line) == line.kind \in {"idle", "noise"}
IsAssertion(line) == line.kind = "assert"
FatalLoadError(line) == line.kind \in {"fatal", "oom", "assert"}
RuntimeFault(line) == line.kind \in {"oom", "assert", "fault"}
\* stdout is not searched for errors, but an assertion counts wherever it is printed
Searched(line) == ~line.out \/ IsAssertion(line)
\* the end of a memory table; a hollow one names no memory
EndsTable(line) == ~line.out /\ line.kind \in {"table", "hollow"}

VARIABLES
    seat,     \* the slot: [turn, mib] = its launch (0 none) and the engine whose figure it
              \* shows (0 = none or the estimate)
    process,  \* the engine: "none", "up" or "gone" (its pipes are closed)
    printed,  \* what each engine has printed
    reader,   \* the task of each launch
    tail,     \* slot_stderr_tails: the engine of the slot's last stderr line, 0 none
    stream,   \* the engines with lines in the slot's stderr.log
    taught,  \* the tables of each launch the store was given, in order
    snapshot, \* the engines whose lines the launch's memory snapshot was read from
    paged,    \* the lines of each launch the page was given, by number
    reported, \* the engine faults of each launch
    told,     \* the engine whose line was given as the reason of a failed load
    logging,  \* session_log::is_active
    overlaps, \* history: <<older, newer>>: the older reader had not ended when the newer launch began
    unlogged, \* history: launches recorded while no session was logged
    logFaults \* history: the launches a write of the store failed for

logVars == <<seat, process, printed, reader, tail, stream, taught, snapshot, paged, reported,
             told, logging, overlaps, unlogged, logFaults>>

Unread == [pc |-> "none", at |-> 0, ready |-> FALSE, faulted |-> FALSE, live |-> FALSE,
           seen |-> 0, stored |-> 0, batch |-> <<>>]
NoSeat == [turn |-> 0, mib |-> 0]

LogInit ==
    /\ seat = NoSeat /\ process = [t \in Turns |-> "none"] /\ printed = [t \in Turns |-> <<>>]
    /\ reader = [t \in Turns |-> Unread] /\ tail = 0 /\ stream = {}
    /\ taught = [t \in Turns |-> <<>>] /\ snapshot = [t \in Turns |-> {}]
    /\ paged = [t \in Turns |-> <<>>] /\ reported = [t \in Turns |-> 0] /\ told = [t \in Turns |-> 0]
    /\ logging = TRUE /\ overlaps = {} /\ unlogged = {} /\ logFaults = {}

Line(t) == printed[t][reader[t].at]
Waiting(t) == Len(printed[t]) > reader[t].at
PrintedLines == MapThenSumSet(LAMBDA t : Len(printed[t]), Turns)
Reading(t) == reader[t].pc \notin {"none", "ended", "left", "closed"}
\* the tables in vram_learn_buf: whether each names memory
Tables(t) == LET lines == SelectSeq(SubSeq(printed[t], 1, reader[t].at), EndsTable)
             IN [i \in DOMAIN lines |-> lines[i].kind = "table"]
ReaderAt(t, pc) == [reader EXCEPT ![t].pc = pc]

(* update_slot_vram asks only that the slot is not idle *)
MibOf(t) == IF seat.turn = 0 THEN seat ELSE [seat EXCEPT !.mib = t]

-----------------------------------------------------------------------------
(* The engine and the slot *)

\* variant: the slot's stream file is not moved aside
RecordSlotLaunchKeepsStream(t) ==
    /\ seat.turn = 0 /\ process[t] = "none" /\ \A s \in Turns : s < t => process[s] # "none"
    /\ seat' = [NoSeat EXCEPT !.turn = t] /\ process' = [process EXCEPT ![t] = "up"]
    /\ reader' = ReaderAt(t, "read") /\ tail' = 0
    /\ unlogged' = IF logging THEN unlogged ELSE unlogged \cup {t}
    /\ overlaps' = overlaps \cup {<<s, t>> : s \in {s \in Turns : Reading(s)}}
    /\ UNCHANGED <<printed, stream, taught, snapshot, paged, reported, told, logging, logFaults>>

(* load_slot spawns, records the launch, which moves the slot's stream file    *)
(* aside while a session is logged, clears the tail and starts the reader     *)
RecordSlotLaunch(t) ==
    /\ seat.turn = 0 /\ process[t] = "none" /\ \A s \in Turns : s < t => process[s] # "none"
    /\ seat' = [NoSeat EXCEPT !.turn = t] /\ process' = [process EXCEPT ![t] = "up"]
    /\ reader' = ReaderAt(t, "read") /\ tail' = 0
    /\ stream' = IF logging THEN {} ELSE stream
    /\ unlogged' = IF logging THEN unlogged ELSE unlogged \cup {t}
    /\ overlaps' = overlaps \cup {<<s, t>> : s \in {s \in Turns : Reading(s)}}
    /\ UNCHANGED <<printed, taught, snapshot, paged, reported, told, logging, logFaults>>

(* drain_engine_pipe_lines: a full channel holds the engine up.  What comes    *)
(* after its reader has ended is thrown away.                                *)
Prints(t) ==
    /\ process[t] = "up" /\ Reading(t) /\ Len(printed[t]) - reader[t].at < PipeCap
    /\ PrintedLines < MaxPrinted
    /\ \E line \in Outputs[t] : printed' = [printed EXCEPT ![t] = Append(@, line)]
    /\ UNCHANGED <<seat, process, reader, tail, stream, taught, snapshot, paged, reported, told,
                   logging, overlaps, unlogged, logFaults>>

PipesEnd(t) ==
    /\ process[t] = "up" /\ Reading(t) /\ process' = [process EXCEPT ![t] = "gone"]
    /\ UNCHANGED <<seat, printed, reader, tail, stream, taught, snapshot, paged, reported, told,
                   logging, overlaps, unlogged, logFaults>>

(* clear_slot, of a stop or of the reaper; the engine is killed afterwards *)
ClearSeat ==
    /\ seat.turn # 0 /\ seat' = NoSeat
    /\ UNCHANGED <<process, printed, reader, tail, stream, taught, snapshot, paged, reported, told,
                   logging, overlaps, unlogged, logFaults>>

(* the HTTP probe's fire_ready, for its own reservation; nobody asks for the  *)
(* flag once the reader has ended                                            *)
ProbeFires(t) ==
    /\ seat.turn = t /\ Reading(t) /\ ~reader[t].ready
    /\ reader' = [reader EXCEPT ![t].ready = TRUE]
    /\ UNCHANGED <<seat, process, printed, tail, stream, taught, snapshot, paged, reported, told,
                   logging, overlaps, unlogged, logFaults>>

(* bound: the sessions are switched off once *)
SetLogging ==
    /\ logging /\ logging' = FALSE
    /\ UNCHANGED <<seat, process, printed, reader, tail, stream, taught, snapshot, paged, reported,
                   told, overlaps, unlogged, logFaults>>

-----------------------------------------------------------------------------
(* process_lines *)

(* Where a line goes once readiness has been looked at.  live is the answer   *)
(* this line's table is stored by.                                            *)
SortLine(t, line, ready) ==
    CASE ~ready /\ Searched(line) /\ FatalLoadError(line) -> "fatal"
      [] ready /\ Searched(line) /\ RuntimeFault(line) /\ ~reader[t].faulted -> "fault"
      [] EndsTable(line) -> "record"
      [] OTHER -> "batch"

(* recv: the line goes to the session's file and the slot's tail first *)
TakeLine(t) ==
    /\ reader[t].pc = "read" /\ Waiting(t)
    /\ LET line == printed[t][reader[t].at + 1]
           ready == reader[t].ready
       IN /\ stream' = IF logging /\ ~line.out /\ ~IdleChatter(line) THEN stream \cup {t} ELSE stream
          /\ tail' = IF ~line.out /\ ~TailNoise(line) THEN t ELSE tail
          /\ reader' = [reader EXCEPT ![t].at = @ + 1, ![t].live = ready,
                        ![t].pc = IF ~ready /\ SaysReady(line) THEN "check" ELSE SortLine(t, line, ready)]
    /\ UNCHANGED <<seat, process, printed, taught, snapshot, paged, reported, told, logging,
                   overlaps, unlogged, logFaults>>

(* The batch goes to the page, at the end of a turn or, what is left of it,    *)
(* when the loop ends                                                        *)
Over(t, why) == [Unread EXCEPT !.pc = why, !.at = reader[t].at]
Leave(t, why, batch) ==
    /\ reader' = [reader EXCEPT ![t] = IF why = "read" THEN [@ EXCEPT !.pc = why, !.batch = <<>>] ELSE Over(t, why)]
    /\ paged' = [paged EXCEPT ![t] = @ \o batch]

(* The line says the model is ready: fire_ready while the slot is this launch's *)
CheckReady(t) ==
    /\ reader[t].pc = "check"
    /\ IF seat.turn = t
       THEN reader' = [reader EXCEPT ![t].ready = TRUE, ![t].pc = "snap"] /\ UNCHANGED paged
       ELSE Leave(t, "left", reader[t].batch)
    /\ UNCHANGED <<seat, process, printed, tail, stream, taught, snapshot, reported, told, logging,
                   overlaps, unlogged, logFaults>>

(* persist_launch_memory_snapshot reads the slot's stream file, whoever wrote *)
(* it and whether or not a session is logged now; it may find nothing in it   *)
TakeSnapshot(t) ==
    /\ reader[t].pc = "snap" /\ reader' = ReaderAt(t, "pending")
    /\ \/ UNCHANGED <<seat, snapshot, logFaults>>
       \/ /\ seat' = MibOf(t)
          /\ \/ snapshot' = [snapshot EXCEPT ![t] = IF stream = {} THEN {t} ELSE stream] /\ UNCHANGED logFaults
             \/ logFaults' = logFaults \cup {t} /\ UNCHANGED snapshot
    /\ UNCHANGED <<process, printed, tail, stream, taught, paged, reported, told, logging,
                   overlaps, unlogged>>

\* the tables the store has not been given
NewTables(t) == [i \in 1 .. (Len(Tables(t)) - reader[t].stored) |-> reader[t].stored + i]
NamesMemory(t) == LET tables == Tables(t) IN tables # <<>> /\ tables[Len(tables)]

(* append_fit_breakdown_tables: what is new goes to the store in one write,   *)
(* which may fail; done and missed are the reader after either               *)
GiveTables(t, done, missed) ==
    \/ /\ taught' = [taught EXCEPT ![t] = @ \o NewTables(t)] /\ UNCHANGED logFaults
       /\ reader' = [reader EXCEPT ![t] = [done EXCEPT !.stored = Len(Tables(t))]]
    \/ /\ logFaults' = logFaults \cup {t} /\ UNCHANGED taught
       /\ reader' = [reader EXCEPT ![t] = missed]

(* persist_pending_fit_tables: a table that was not stored stays pending *)
GivePending(t, next) ==
    IF NewTables(t) = <<>> \/ ~NamesMemory(t)
    THEN reader' = [reader EXCEPT ![t] = next] /\ UNCHANGED <<taught, logFaults>>
    ELSE GiveTables(t, next, next)

(* ready: the tables seen while the model was loading *)
StorePending(t) ==
    /\ reader[t].pc = "pending"
    /\ LET next == [reader[t] EXCEPT !.pc = SortLine(t, Line(t), TRUE), !.live = TRUE]
       IN IF reader[t].seen > reader[t].stored THEN GivePending(t, next)
          ELSE reader' = [reader EXCEPT ![t] = next] /\ UNCHANGED <<taught, logFaults>>
    /\ UNCHANGED <<seat, process, printed, tail, stream, snapshot, paged, reported, told, logging,
                   overlaps, unlogged>>

(* fail_loading_slot claims the attempt unless it is over or already claimed *)
FatalLine(t) ==
    /\ reader[t].pc = "fatal"
    /\ \/ seat.turn = t /\ reader' = ReaderAt(t, "failing") /\ UNCHANGED paged
       \/ Leave(t, "left", Append(reader[t].batch, reader[t].at))
    /\ UNCHANGED <<seat, process, printed, tail, stream, taught, snapshot, reported, told, logging,
                   overlaps, unlogged, logFaults>>
(* After its pauses it takes the slot's tail for the reason, clears it, and   *)
(* retires the attempt if it is still there                                   *)
FailLoad(t) ==
    /\ reader[t].pc \in {"failing", "lost"}
    /\ told' = [told EXCEPT ![t] = tail] /\ tail' = 0
    /\ seat' = IF seat.turn = t THEN NoSeat ELSE seat
    /\ IF reader[t].pc = "lost" THEN Leave(t, "ended", reader[t].batch)
       ELSE Leave(t, "left", Append(reader[t].batch, reader[t].at))
    /\ UNCHANGED <<process, printed, stream, taught, snapshot, reported, logging, overlaps,
                   unlogged, logFaults>>

(* The first fault of a running engine is reported, if the slot is its own *)
FaultLine(t) ==
    /\ reader[t].pc = "fault"
    /\ IF seat.turn = t THEN /\ reported' = [reported EXCEPT ![t] = @ + 1] /\ UNCHANGED paged
                             /\ reader' = [reader EXCEPT ![t].pc = "batch", ![t].faulted = TRUE]
       ELSE Leave(t, "left", reader[t].batch) /\ UNCHANGED reported
    /\ UNCHANGED <<seat, process, printed, tail, stream, taught, snapshot, told, logging,
                   overlaps, unlogged, logFaults>>

(* try_record_fit_tables: a table of a ready model is stored at once, and     *)
(* marked as stored even when the write fails                                 *)
RecordTable(t) ==
    /\ reader[t].pc = "record"
    /\ LET total == Len(Tables(t))
           next == [reader[t] EXCEPT !.pc = "batch", !.seen = total]
       IN IF ~NamesMemory(t)
          THEN reader' = ReaderAt(t, "batch") /\ UNCHANGED <<seat, taught, logFaults>>
          ELSE /\ seat' = MibOf(t)
               /\ IF reader[t].live THEN GiveTables(t, next, [next EXCEPT !.stored = total])
                  ELSE reader' = [reader EXCEPT ![t] = next] /\ UNCHANGED <<taught, logFaults>>
    /\ UNCHANGED <<process, printed, tail, stream, snapshot, paged, reported, told, logging,
                   overlaps, unlogged>>

(* The end of a turn: idle chatter and stdout are not for the page; flush_batch *)
(* gives it a full batch, or any once the interval has passed                 *)
BatchLine(t) ==
    /\ reader[t].pc = "batch"
    /\ LET batch == IF IdleChatter(Line(t)) \/ Line(t).out THEN reader[t].batch
                    ELSE Append(reader[t].batch, reader[t].at)
       IN \/ Leave(t, "read", batch)
          \/ /\ batch = reader[t].batch \/ Len(batch) < BatchCap
             /\ reader' = [reader EXCEPT ![t].pc = "read", ![t].batch = batch] /\ UNCHANGED paged
    /\ UNCHANGED <<seat, process, printed, tail, stream, taught, snapshot, reported, told, logging,
                   overlaps, unlogged, logFaults>>
(* the interval's turn comes when no line waits (select! is biased) *)
FlushTick(t) ==
    /\ reader[t].pc = "read" /\ ~Waiting(t) /\ reader[t].batch # <<>> /\ Leave(t, "read", reader[t].batch)
    /\ UNCHANGED <<seat, process, printed, tail, stream, taught, snapshot, reported, told, logging,
                   overlaps, unlogged, logFaults>>

(* Both pipes are closed.  A ready model's tables are stored; one that was    *)
(* still loading is failed, unless its process is still there; nothing of     *)
(* that when the app is shutting down.                                       *)
PipesClosed(t) ==
    /\ reader[t].pc = "read" /\ ~Waiting(t) /\ process[t] = "gone"
    /\ \/ Leave(t, "closed", reader[t].batch) /\ UNCHANGED <<taught, logFaults>>
       \/ /\ ~reader[t].ready /\ seat.turn = t /\ reader' = ReaderAt(t, "lost")
          /\ UNCHANGED <<paged, taught, logFaults>>
       \/ /\ paged' = [paged EXCEPT ![t] = @ \o reader[t].batch]
          /\ LET next == [Over(t, "ended") EXCEPT !.live = reader[t].ready]
             IN IF reader[t].ready THEN GivePending(t, next)
                ELSE reader' = [reader EXCEPT ![t] = next] /\ UNCHANGED <<taught, logFaults>>
    /\ UNCHANGED <<seat, process, printed, tail, stream, snapshot, reported, told, logging, overlaps,
                   unlogged>>

LogNext ==
    \/ ClearSeat \/ SetLogging
    \/ \E t \in Turns :
          \/ RecordSlotLaunch(t) \/ Prints(t) \/ PipesEnd(t) \/ ProbeFires(t)
          \/ TakeLine(t) \/ CheckReady(t) \/ TakeSnapshot(t) \/ StorePending(t) \/ FatalLine(t)
          \/ FailLoad(t) \/ FaultLine(t) \/ RecordTable(t) \/ BatchLine(t) \/ FlushTick(t) \/ PipesClosed(t)
LogSpec == LogInit /\ [][LogNext]_logVars

-----------------------------------------------------------------------------
(* Properties *)

LogTypeOK ==
    /\ seat \in [turn : Turns \cup {0}, mib : Turns \cup {0}]
    /\ process \in [Turns -> {"none", "up", "gone"}] /\ tail \in Turns \cup {0}
    /\ stream \subseteq Turns /\ snapshot \in [Turns -> SUBSET Turns] /\ told \in [Turns -> Turns \cup {0}]
    /\ logging \in BOOLEAN

(* What a launch is told of another one comes only from readers that lived at *)
(* the same time: the memory snapshot, unless no session was logged when it   *)
(* was recorded (the stream file is then the last launch's), the reason of a  *)
(* failed load, and the figure its slot shows.                                *)
Together(s, t) == s = t \/ <<s, t>> \in overlaps \/ <<t, s>> \in overlaps
LaunchesStayApart ==
    /\ \A t \in Turns \ unlogged : \A s \in snapshot[t] : Together(s, t)
    /\ \A t \in Turns : told[t] # 0 => Together(told[t], t)
    /\ seat.mib # 0 => Together(seat.mib, seat.turn)

(* A memory table is taught once and in its order, and when the pipes of a   *)
(* ready engine close all are, unless the app is closing, if no write failed *)
(* and the last one names memory.                                             *)
TablesAreLearnedOnce ==
    \A t \in Turns :
      /\ \A i, j \in DOMAIN taught[t] : i < j => taught[t][i] < taught[t][j]
      /\ reader[t].pc = "ended" /\ reader[t].live /\ t \notin logFaults /\ NamesMemory(t)
         => Len(taught[t]) = Len(Tables(t))

(* The page is given every stderr line but idle chatter, once and in order,   *)
(* and an assertion that ends a load even from stdout; only a reader whose    *)
(* slot was taken away leaves its last line out.                              *)
ForThePage(t, n) == SelectSeq([i \in 1 .. n |-> i], LAMBDA i : ~printed[t][i].out /\ ~IdleChatter(printed[t][i]))
LinesReachThePage ==
    \A t \in Turns : LET n == reader[t].at IN
      /\ reader[t].pc = "read" => paged[t] \o reader[t].batch = ForThePage(t, n)
      /\ reader[t].pc \in {"ended", "closed"} => paged[t] = ForThePage(t, n)
      /\ reader[t].pc = "left" => paged[t] \in {ForThePage(t, n - 1), Append(ForThePage(t, n - 1), n)}

(* At most one fault of an engine is reported. *)
OneFaultIsReported == \A t \in Turns : reported[t] <= 1

LogInv == LogTypeOK /\ LaunchesStayApart /\ TablesAreLearnedOnce /\ LinesReachThePage /\ OneFaultIsReported
=============================================================================

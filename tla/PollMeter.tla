----------------------------- MODULE PollMeter -----------------------------
(***************************************************************************)
(* The polling fusion brain: which phase of which request is on display.   *)
(* It merges three views of the engine that never agree exactly: the       *)
(* log lines of the engine's stderr, the /slots rows and the /metrics      *)
(* counters of a poll, each read at its own moment, and the commands of a  *)
(* benchmark that knows when its HTTP request has returned.  Rates and     *)
(* token counts are reduced to zero or not zero; clocks to running or not. *)
(***************************************************************************)
EXTENDS Integers, Sequences, FiniteSets

CONSTANTS
    Tasks,      \* bound: requests served
    MaxTokens,  \* bound: tokens generated per request
    MaxLines,   \* bound: log lines on their way
    MaxEvents   \* bound: progress lines, lost lines, failed reads, benchmark commands

ASSUME PollMeterAssumption == {Tasks, MaxTokens, MaxLines, MaxEvents} \subseteq Nat

NoMetrics == [rp |-> -1, prompts |-> 0]

VARIABLES
    slotm,   \* the engine's slot: phase, task, n_decoded of the task
    prompts, \* prompt evaluations the engine has finished (prompt_tokens_total)
    lines,   \* log lines not yet handled
    display, \* the brain
    poll,    \* a poll under way: its reads
    events,  \* counts what MaxEvents bounds
    calm     \* history: complete polls since the engine and its log fell silent

pollVars == <<slotm, prompts, lines, display, poll, events, calm>>
NoPoll == [slots |-> <<>>, metrics |-> <<>>]
Event == events < MaxEvents /\ events' = events + 1

PollInit ==
    /\ slotm = [phase |-> "idle", task |-> 0, decoded |-> 0] /\ prompts = 0 /\ lines = <<>>
    /\ display = [state |-> "Loading", phase |-> "Idle", lpPhase |-> "Idle",
                  open |-> FALSE, done |-> FALSE,            \* log_request_open, log_prefill_done
                  closed |-> FALSE, clock |-> FALSE,         \* request_closed, request_start
                  lpGen |-> FALSE, lpProg |-> 0, prog |-> 0, \* progress: 0 none, 1 some, 2 all
                  total |-> FALSE, fresh |-> FALSE,          \* prefill_tokens_total, lp_reset_prompt
                  touched |-> FALSE,                         \* last_slot_busy_at
                  was |-> FALSE, task |-> 0, base |-> 0, prev |-> 0, \* the slot's row in the bank
                  metrics |-> NoMetrics]
    /\ poll = NoPoll /\ events = 0 /\ calm = 0

(***************************************************************************)
(* The engine and its log.                                                 *)
(***************************************************************************)
Log(s) == Len(lines) + Len(s) <= MaxLines /\ lines' = lines \o s
Brain == <<display, poll, events>>
TaskStarts ==
    /\ slotm.phase = "idle" /\ slotm.task < Tasks
    /\ slotm' = [phase |-> "pp", task |-> slotm.task + 1, decoded |-> 0]
    /\ Log(<<"new">>) /\ UNCHANGED <<prompts, Brain>>
(* cached prompt, progress of either format, or a forced re-evaluation *)
PromptProgresses ==
    /\ slotm.phase = "pp" /\ Event
    /\ \E line \in {"cached", "pp", "belt", "force"} : Log(<<line>>)
    /\ UNCHANGED <<slotm, prompts, display, poll>>
PromptEnds ==
    /\ slotm.phase = "pp" /\ slotm' = [slotm EXCEPT !.phase = "tg"]
    /\ prompts' = prompts + 1 /\ Log(<<"sampler">>) /\ UNCHANGED Brain
TokenDecoded ==
    /\ slotm.phase = "tg" /\ slotm.decoded < MaxTokens
    /\ slotm' = [slotm EXCEPT !.decoded = @ + 1]
    /\ (Log(<<"gen">>) \/ Log(<<>>)) /\ UNCHANGED <<prompts, Brain>>
(* the final print_timing repeats the prompt evaluation after the decode lines *)
TaskEnds ==
    /\ slotm.phase = "tg" /\ slotm' = [slotm EXCEPT !.phase = "idle"]
    /\ Log(<<"eval", "stop">>) /\ UNCHANGED <<prompts, Brain>>
(* the channel to the brain is full *)
LineLost ==
    /\ lines # <<>> /\ Event /\ lines' = Tail(lines)
    /\ UNCHANGED <<slotm, prompts, display, poll>>

(***************************************************************************)
(* The request lifecycle.                                                  *)
(***************************************************************************)
Begin(x) == [x EXCEPT !.closed = FALSE, !.clock = TRUE]
Ensure(x) == IF ~x.closed /\ ~x.clock THEN Begin(x) ELSE x
Close(x) == [x EXCEPT !.clock = FALSE, !.closed = TRUE]
NoCounters(x) == [x EXCEPT !.prog = 0, !.lpProg = 0, !.total = FALSE]
Finalize(x) ==
    IF x.closed THEN x
    ELSE [Close(x) EXCEPT !.open = FALSE, !.lpGen = FALSE, !.done = FALSE, !.phase = "Idle", !.lpPhase = "Idle"]
OnSlot(x, base) == [x EXCEPT !.base = base]
InPrompt(x) == [x EXCEPT !.open = TRUE, !.done = FALSE, !.phase = "PP", !.lpPhase = "PP"]
IdleReady(x) == x.phase = "Idle" /\ x.state = "Ready"

(***************************************************************************)
(* The handlers of the log lines.                                          *)
(***************************************************************************)
NewPrompt(x) ==
    [Begin([OnSlot(InPrompt(x), x.prev) EXCEPT !.lpProg = 0, !.lpGen = FALSE, !.fresh = TRUE, !.total = TRUE,
                                               !.prog = 0, !.task = slotm.task])
        EXCEPT !.state = "Active", !.touched = TRUE]
ForceReprocess(x) ==
    [Ensure([OnSlot(InPrompt(x), x.prev) EXCEPT !.lpProg = 0, !.lpGen = FALSE, !.prog = 0]) EXCEPT !.touched = TRUE]
BeltProgress(x) ==
    [Begin([InPrompt(x) EXCEPT !.closed = FALSE, !.lpProg = 1, !.prog = IF @ = 0 THEN 1 ELSE @, !.total = TRUE])
        EXCEPT !.state = "Active", !.touched = TRUE]
TimingPP(x) ==
    [x EXCEPT !.lpPhase = "PP", !.phase = "PP", !.lpProg = 1, !.prog = IF @ = 0 THEN 1 ELSE @, !.total = TRUE]
Cached(x) ==
    IF x.state # "Active" /\ ~x.open THEN x
    ELSE [x EXCEPT !.open = TRUE, !.done = FALSE, !.phase = "PP", !.prog = IF x.total /\ @ = 0 THEN 1 ELSE @]
Sampler(x) == [x EXCEPT !.done = TRUE, !.lpPhase = "PP", !.total = TRUE, !.prog = 2]
TimingGen(x) == [x EXCEPT !.done = TRUE, !.lpPhase = "Tg", !.phase = "Tg", !.lpGen = TRUE]
EvalComplete(x) ==
    IF x.done \/ x.lpPhase = "Tg" \/ x.lpGen THEN x
    ELSE [x EXCEPT !.total = TRUE, !.prog = 2, !.lpProg = 2]
StopProcessing(x) == [x EXCEPT !.was = FALSE, !.fresh = FALSE, !.lpProg = 0]

Handled(x, line) ==
    CASE line = "new" -> NewPrompt(x)     [] line = "cached" -> Cached(x)   [] line = "belt" -> BeltProgress(x)
      [] line = "pp" -> TimingPP(x)       [] line = "force" -> ForceReprocess(x)
      [] line = "sampler" -> Sampler(x)   [] line = "gen" -> TimingGen(x)
      [] line = "eval" -> EvalComplete(x) [] line = "stop" -> StopProcessing(x)

(* a line may wake a poll at once, which is a poll like any other *)
HandleLine ==
    /\ lines # <<>> /\ poll = NoPoll
    /\ display' = Handled(display, Head(lines)) /\ lines' = Tail(lines)
    /\ UNCHANGED <<slotm, prompts, poll, events>>

(***************************************************************************)
(* A poll.  /slots and /metrics answer at moments of their own; an idle    *)
(* engine is not asked for metrics.  From the first answer on the brain    *)
(* handles nothing else.                                                   *)
(***************************************************************************)
SlotsAnswer ==
    /\ poll.slots = <<>>
    /\ \E eval \in BOOLEAN :
         /\ eval => slotm.phase = "pp"
         /\ poll' = [slots |-> <<[proc |-> slotm.phase # "idle", task |-> slotm.task,
                                 decoded |-> slotm.decoded, eval |-> eval]>>,
                     metrics |-> IF IdleReady(display) THEN <<NoMetrics>> ELSE poll.metrics]
    /\ UNCHANGED <<slotm, prompts, lines, display, events>>
MetricsAnswer ==
    /\ poll.metrics = <<>> /\ ~IdleReady(display)
    /\ poll' = [poll EXCEPT !.metrics = <<[rp |-> IF slotm.phase = "idle" THEN 0 ELSE 1, prompts |-> prompts]>>]
    /\ UNCHANGED <<slotm, prompts, lines, display, events>>
(* no answer within 1.5 s: without rows the poll is given up *)
PollFails ==
    /\ poll # NoPoll /\ Event
    /\ \/ poll.slots = <<>> /\ poll' = NoPoll
       \/ poll.metrics = <<>> /\ poll' = [poll EXCEPT !.metrics = <<NoMetrics>>]
    /\ UNCHANGED <<slotm, prompts, lines, display>>

Rebaselined(x, r) == IF r.proc /\ r.decoded < x.base THEN [x EXCEPT !.base = r.decoded] ELSE x
IsNew(x, r) == r.proc /\ (r.task # x.task \/ (~x.was /\ ~x.open))
HasEnded(x, r) == ~r.proc /\ x.was /\ ~x.open

Restarted(x, r) ==
    LET y == [Ensure([OnSlot(x, r.decoded) EXCEPT !.closed = FALSE, !.phase = "PP", !.open = TRUE, !.done = FALSE])
                 EXCEPT !.state = "Active"] IN
    IF x.fresh /\ x.total THEN y ELSE NoCounters(y)
Ended(x, hold) ==
    IF hold THEN Close(x) ELSE NoCounters([Close(x) EXCEPT !.done = FALSE, !.phase = "Idle"])
RowKept(x, r) == [x EXCEPT !.prev = r.decoded, !.was = r.proc, !.task = IF r.task = 0 THEN @ ELSE r.task]
BeltClosed(x, r) ==
    IF r.proc THEN [x EXCEPT !.touched = TRUE] ELSE IF x.open THEN Finalize(x) ELSE x

Decoding(x, r) == r.proc /\ r.decoded > x.base
Evaluating(x, r) == ~x.done /\ ((x.open /\ x.lpProg = 1) \/ r.eval)
Reconciled(x, r, hold) ==
    LET reopens == x.open /\ ~x.done /\ (x.phase = "PP" \/ x.lpProg > 0 \/ x.prog > 0)
        inFlight == r.proc \/ x.metrics.rp > 0 \/ x.open \/ x.state = "Active" \/ hold
        y == [x EXCEPT !.closed = FALSE] IN
    IF x.closed /\ ~reopens THEN [x EXCEPT !.phase = "Idle", !.lpPhase = "Idle"]
    ELSE IF ~inFlight THEN NoCounters([Close(y) EXCEPT !.open = FALSE, !.done = FALSE, !.phase = "Idle"])
    ELSE IF Decoding(y, r) THEN [y EXCEPT !.done = @ \/ y.open, !.phase = "Tg"]
    ELSE IF Evaluating(y, r) THEN [y EXCEPT !.phase = "PP"]
    ELSE [y EXCEPT !.phase = IF y.done \/ y.lpGen THEN "Tg" ELSE "PP"]

(* variant: only the counters take an engine back to Ready *)
StateFromCounters(x, r) ==
    IF x.state = "Loading" /\ ~r.proc THEN [x EXCEPT !.state = "Ready"]
    ELSE IF r.proc THEN [x EXCEPT !.state = "Active"] ELSE x
StateFrom(x, r) ==
    IF x.state = "Loading" /\ ~r.proc THEN [x EXCEPT !.state = "Ready"]
    ELSE IF r.proc THEN [x EXCEPT !.state = "Active"]
    ELSE IF x.state = "Active" /\ x.metrics.rp = 0 THEN [x EXCEPT !.state = "Ready"] ELSE x
IdleTail(x, r, hold) == IF ~r.proc /\ ~x.closed /\ x.clock /\ x.done /\ ~hold THEN Finalize(x) ELSE x

(* hold: less than the inter-request gap since a slot was last seen busy *)
SlotsProcessed(x, r, hold) ==
    LET stay == hold \/ r.proc
        base == Rebaselined(x, r)
        turn == IF IsNew(x, r) THEN Restarted(base, r) ELSE IF HasEnded(x, r) THEN Ended(base, hold) ELSE base
        kept == BeltClosed(RowKept(turn, r), r)
        seen == [kept EXCEPT !.prog = IF @ = 0 /\ r.eval THEN 1 ELSE @] IN
    IdleTail(StateFrom(Reconciled(seen, r, stay), r), r, stay)

MetricsProcessed(x, m, r, hold) ==
    LET starts == x.metrics.rp = 0 /\ m.rp > 0
        ends   == x.metrics.rp > 0 /\ m.rp = 0
        begun  == [Ensure([x EXCEPT !.closed = FALSE, !.phase = "PP", !.open = TRUE, !.done = FALSE])
                      EXCEPT !.state = "Active"]
        over   == NoCounters(Close([x EXCEPT !.done = FALSE, !.state = "Ready", !.phase = "Idle"]))
        y == IF starts THEN begun ELSE IF ends /\ ~r.proc /\ ~x.open /\ ~hold THEN over ELSE x
        z == IF x.metrics.rp >= 0 /\ m.prompts > x.metrics.prompts
             THEN [y EXCEPT !.open = TRUE, !.phase = IF @ = "Idle" THEN "PP" ELSE @] ELSE y IN
    [z EXCEPT !.metrics = m]

EngineQuiet == slotm.phase = "idle" /\ lines = <<>>
PollFolds(hold) ==
    LET r == poll.slots[1]  m == poll.metrics[1]
        x == SlotsProcessed(display, r, hold) IN
    /\ poll.slots # <<>> /\ poll.metrics # <<>>
    /\ hold => display.touched
    /\ display' = IF m = NoMetrics THEN x ELSE MetricsProcessed(x, m, r, hold \/ r.proc)
    /\ poll' = NoPoll
    /\ calm' = IF ~EngineQuiet THEN 0
               ELSE IF hold \/ (m = NoMetrics /\ ~IdleReady(display)) THEN calm
               ELSE IF calm < 5 THEN calm + 1 ELSE calm
    /\ UNCHANGED <<slotm, prompts, lines, events>>

(***************************************************************************)
(* The benchmark: its request has returned, or its next phase begins.      *)
(***************************************************************************)
BenchFreeze ==
    /\ poll = NoPoll /\ Event
    /\ display' = Finalize(display) /\ UNCHANGED <<slotm, prompts, lines, poll>>
BenchReset ==
    /\ poll = NoPoll /\ Event
    /\ display' = [NoCounters(display) EXCEPT !.phase = "PP", !.lpPhase = "PP", !.open = FALSE, !.done = FALSE, !.clock = FALSE,
                !.closed = FALSE, !.lpGen = FALSE, !.was = FALSE, !.base = display.prev]
    /\ UNCHANGED <<slotm, prompts, lines, poll>>

EngineStep == TaskStarts \/ PromptProgresses \/ PromptEnds \/ TokenDecoded \/ TaskEnds
PollNext ==
    \/ (EngineStep \/ LineLost \/ HandleLine \/ BenchFreeze \/ BenchReset) /\ calm' = 0
    \/ (SlotsAnswer \/ MetricsAnswer \/ PollFails) /\ UNCHANGED calm
    \/ \E hold \in BOOLEAN : PollFolds(hold)
PollSpec == PollInit /\ [][PollNext]_pollVars

(***************************************************************************)
(* Properties.                                                             *)
(***************************************************************************)
(* Every variable keeps its type; the clock of a closed request does not run. *)
PollTypeOK ==
    /\ display.state \in {"Loading", "Ready", "Active"} /\ display.phase \in {"Idle", "PP", "Tg"}
    /\ display.lpProg \in 0..2 /\ display.prog \in 0..2 /\ Len(lines) <= MaxLines
    /\ (display.closed => ~display.clock)

(* An engine that has fallen silent is shown idle, its request closed, by   *)
(* the fourth complete poll, in whatever order lines, rows, counters and   *)
(* benchmark commands arrived before, and whatever was lost.               *)
QuietEngineIsShownIdle == calm >= 4 => IdleReady(display) /\ ~display.clock
PollInv == PollTypeOK /\ QuietEngineIsShownIdle
=============================================================================

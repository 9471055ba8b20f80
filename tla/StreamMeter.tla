---------------------------- MODULE StreamMeter ----------------------------
(***************************************************************************)
(* The stream-only fusion brain.  The engine pushes state, progress and    *)
(* end events of its lanes over one SSE connection; a reader task folds    *)
(* them into a record per lane and counts waves of requests; the brain     *)
(* looks at the records every 25 ms and keeps the request the display      *)
(* shows.  A tick reads the records first and the wave counter afterwards, *)
(* under different locks, so events may be applied in between.  One port;  *)
(* times are left out except that a gap of 1.2 s passes.                   *)
(***************************************************************************)
EXTENDS Integers, Sequences, FiniteSets, FiniteSetsExt

CONSTANTS
    Lanes,        \* slots of the engine
    MaxRequests,  \* bound: requests served
    MaxDecode,    \* bound: tokens generated per request
    MaxUnread,    \* bound: events sent and not yet applied
    MaxDrops      \* bound: lost connections

ASSUME StreamMeterAssumption ==
    /\ MaxRequests \in Nat /\ MaxDecode \in Nat \ {0} /\ MaxUnread \in Nat /\ MaxDrops \in Nat

BusyPhases == {"PP", "TG"}
Unseen == [phase |-> "", decoded |-> 0, closed |-> FALSE]
NoView == [taken |-> FALSE, phase |-> "IDLE", decoded |-> 0, ended |-> FALSE]

VARIABLES
    lane,      \* the engine: lane -> phase and tokens of its request
    served,    \* requests begun
    unread,    \* events on the connection
    attached,  \* the reader's connection is up
    rec,       \* snapshots(): the lanes the reader has a record of
    epoch,     \* request_epochs(): waves the reader has seen begin
    shown,     \* the brain: request open, its tokens, session total, epoch seen, boundaries
    view,      \* the records a tick has fetched and not yet folded
    drops,     \* connections lost
    overtaken, \* history: a wave began between the two reads of a tick
    torn       \* history: the connection came up or was lost in a request

streamVars == <<lane, served, unread, attached, rec, epoch, shown, view, drops, overtaken, torn>>

StreamInit ==
    /\ lane = [l \in Lanes |-> [phase |-> "IDLE", decoded |-> 0]] /\ served = 0
    /\ unread = <<>> /\ attached = FALSE /\ rec = <<>> /\ epoch = 0
    /\ shown = [open |-> FALSE, tokens |-> 0, total |-> 0, epoch |-> 0, begun |-> 0]
    /\ view = NoView /\ drops = 0 /\ overtaken = FALSE /\ torn = FALSE

(***************************************************************************)
(* The engine.  What it sends while nobody is attached is lost.            *)
(***************************************************************************)
Send(evts) ==
    /\ Len(unread) + Len(evts) <= MaxUnread
    /\ unread' = IF attached THEN unread \o evts ELSE unread
Becomes(l, phase, n) == lane' = [lane EXCEPT ![l] = [phase |-> phase, decoded |-> n]]
State(l, phase) == [k |-> "state", lane |-> l, phase |-> phase, n |-> 0]
GenProgress(l, n) == [k |-> "gen", lane |-> l, phase |-> "", n |-> n]
RequestEnd(l) == [k |-> "end", lane |-> l, phase |-> "", n |-> 0]
Readers == <<attached, rec, epoch, shown, view, drops, overtaken, torn>>

EngineBegins(l) ==
    /\ lane[l].phase = "IDLE" /\ served < MaxRequests /\ served' = served + 1
    /\ Becomes(l, "PP", 0) /\ Send(<<State(l, "PP")>>)
    /\ UNCHANGED Readers
EngineDecodes(l) ==
    LET n == lane[l].decoded + 1 IN
    /\ lane[l].phase \in BusyPhases /\ n <= MaxDecode
    /\ Becomes(l, "TG", n)
    /\ Send((IF n = 1 THEN <<State(l, "TG")>> ELSE <<>>) \o <<GenProgress(l, n)>>)
    /\ UNCHANGED <<served, Readers>>
EngineEnds(l) ==
    /\ lane[l].phase \in BusyPhases
    /\ Becomes(l, "IDLE", 0)
    /\ \/ Send(<<RequestEnd(l), State(l, "IDLE")>>)
       \/ Send(<<State(l, "IDLE"), RequestEnd(l)>>)
    /\ UNCHANGED <<served, Readers>>

(***************************************************************************)
(* The reader.                                                             *)
(***************************************************************************)
InRequest == \E l \in Lanes : lane[l].phase # "IDLE"
Attach ==
    /\ ~attached /\ attached' = TRUE /\ rec' = <<>> /\ unread' = <<>>
    /\ torn' = (torn \/ InRequest)
    /\ UNCHANGED <<lane, served, epoch, shown, view, drops, overtaken>>
Lose ==
    /\ attached /\ drops < MaxDrops /\ drops' = drops + 1
    /\ attached' = FALSE /\ rec' = <<>> /\ unread' = <<>>
    /\ torn' = (torn \/ InRequest)
    /\ UNCHANGED <<lane, served, epoch, shown, view, overtaken>>

Folded(r, e) ==
    CASE e.k = "state" /\ e.phase = "PP"   -> [r EXCEPT !.phase = "PP", !.closed = IF r.phase = "PP" THEN @ ELSE FALSE]
      [] e.k = "state" /\ e.phase = "IDLE" -> [r EXCEPT !.phase = "IDLE", !.decoded = 0]
      [] e.k = "state" /\ e.phase = "TG"   -> [r EXCEPT !.phase = "TG"]
      [] e.k = "gen" -> [r EXCEPT !.decoded = e.n]
      [] e.k = "end" -> [r EXCEPT !.closed = TRUE]

(* one boundary per wave: only its first busy lane advances the counter *)
OpensWave(e, before, after) ==
    e.k = "state" /\ e.phase = "PP" /\ before.phase # "PP"
    /\ Cardinality({l \in DOMAIN after : after[l].phase \in BusyPhases}) = 1

Apply ==
    /\ unread # <<>>
    /\ LET e == Head(unread)
           before == IF e.lane \in DOMAIN rec THEN rec[e.lane] ELSE Unseen
           after == [l \in DOMAIN rec \cup {e.lane} |-> IF l = e.lane THEN Folded(before, e) ELSE rec[l]] IN
       /\ rec' = after
       /\ epoch' = epoch + (IF OpensWave(e, before, after) THEN 1 ELSE 0)
       /\ overtaken' = (overtaken \/ (view.taken /\ epoch' # epoch))
    /\ unread' = Tail(unread)
    /\ UNCHANGED <<lane, served, attached, shown, view, drops, torn>>

(***************************************************************************)
(* The brain's tick.  The aggregate over the lanes stands for the single   *)
(* record of a one-lane engine as well.                                    *)
(***************************************************************************)
Aggregate ==
    LET phases == {rec[l].phase : l \in DOMAIN rec} IN
    [taken   |-> TRUE,
     phase   |-> IF "PP" \in phases THEN "PP" ELSE IF "TG" \in phases THEN "TG" ELSE "IDLE",
     decoded |-> MapThenSumSet(LAMBDA l : rec[l].decoded, DOMAIN rec),
     ended   |-> \E l \in DOMAIN rec : rec[l].closed]

(* without a record the tick holds what is displayed *)
TickReads ==
    /\ ~view.taken /\ rec # <<>> /\ view' = Aggregate
    /\ UNCHANGED <<lane, served, unread, attached, rec, epoch, shown, drops, overtaken, torn>>

CloseRequest(b) == [b EXCEPT !.open = FALSE, !.total = @ + b.tokens, !.tokens = 0]
BeginRequest(b) == [b EXCEPT !.open = TRUE, !.tokens = 0, !.begun = @ + 1]
Boundary(b) == IF b.epoch # epoch /\ b.open THEN CloseRequest(b) ELSE b
Opened(b) == IF ~b.open /\ view.phase # "IDLE" THEN BeginRequest(b) ELSE b
CountStream(b) == IF b.open /\ view.phase # "IDLE" /\ view.decoded > b.tokens
              THEN [b EXCEPT !.tokens = view.decoded] ELSE b
ClosedWhenIdle(b, late) ==
    IF b.open /\ view.phase = "IDLE" /\ (view.ended \/ late) THEN CloseRequest(b) ELSE b

(* observe; late: more than the inter-request gap has passed since the last busy tick *)
TickFolds(late) ==
    /\ view.taken /\ view' = NoView
    /\ LET b == [Boundary(shown) EXCEPT !.epoch = epoch] IN
       shown' = ClosedWhenIdle(CountStream(Opened(b)), late)
    /\ UNCHANGED <<lane, served, unread, attached, rec, epoch, drops, overtaken, torn>>

StreamNext ==
    \/ \E l \in Lanes : EngineBegins(l) \/ EngineDecodes(l) \/ EngineEnds(l)
    \/ Attach \/ Lose \/ Apply \/ TickReads \/ \E late \in BOOLEAN : TickFolds(late)

StreamSpec == StreamInit /\ [][StreamNext]_streamVars

(***************************************************************************)
(* Properties.                                                             *)
(***************************************************************************)
(* Every variable keeps its type; a closed request holds no tokens and the *)
(* brain is never ahead of the reader's wave counter.                      *)
StreamTypeOK ==
    /\ DOMAIN rec \subseteq Lanes /\ \A l \in DOMAIN rec : rec[l].phase \in BusyPhases \cup {"", "IDLE"}
    /\ Len(unread) <= MaxUnread /\ (~attached => unread = <<>>)
    /\ shown.epoch <= epoch /\ (~shown.open => shown.tokens = 0)

(* The session total of generated tokens never counts a token twice: it is *)
(* at most what the engine can have generated in the requests it began,    *)
(* unless a wave began between the two reads of a tick (then the old       *)
(* request's count opens the new one) or a stream was lost in a request.   *)
SessionCountsOnce ==
    ~overtaken /\ ~torn => shown.total + shown.tokens <= MaxDecode * served

(* The meter boundary the frontend resets on is given once per wave, not   *)
(* per lane and not again for a request that was already closed.           *)
OneBoundaryPerWave == ~torn => shown.begun <= epoch

(* The display agrees with the stream it is fed from. *)
StreamInv == StreamTypeOK /\ SessionCountsOnce /\ OneBoundaryPerWave
=============================================================================

-------------------------- MODULE DownloadsProofs --------------------------
(***************************************************************************)
(* The download manager's safety properties for every set of files, every  *)
(* size in chunks, every number of tasks and workers and every pattern of  *)
(* disturbances.  None of the invariants the runs check is inductive: what *)
(* a worker may rely on at each of its steps (the length of its .part, who *)
(* else may write it, what the gate has seen) is the missing part.         *)
(***************************************************************************)
EXTENDS Downloads, TLAPS

Workers == 1 .. MaxWorkers
F(w)    == FileOf(worker[w].t)
Chunks  == {"ok", "bad"}
Parts   == Seq(Chunks) \cup {Absent}
WorkerRecord == [t : Nat, pc : Pcs, off : Nat, pos : Nat, fresh : Nat,
                 on : {"none", "part", "lost", "final"}, seen : {<<>>} \cup [Ids -> Int]]

(***************************************************************************)
(* The inductive invariant.                                                *)
(***************************************************************************)
Types ==
    /\ app \in {"up", "starting", "gathered"}
    /\ status \in [Ids -> Statuses] /\ prio \in [Ids -> 0 .. 1]
    /\ job \in [Ids -> [file : Files \cup {"none"}, batch : Nat]]
    /\ got \in [Ids -> Nat] /\ rows \in [Ids -> Int]
    /\ worker \in [Workers -> WorkerRecord]
    /\ part \in [Files -> Parts] /\ final \in [Files -> {"absent", "whole", "bad"}]
    /\ gathered \subseteq [t : Ids, off : Nat] /\ trash \subseteq Files
    /\ spent \in [Kinds -> Nat] /\ unvouched \subseteq Shards

\* who is there: no worker without a task, no task without a file
Assigned(w) ==
    /\ worker[w].pc = "gone" => worker[w] = Idle
    /\ worker[w].pc # "gone" => worker[w].t \in Ids /\ F(w) \in Files
    /\ worker[w].pc # "gone" /\ F(w) \in Shards => status[worker[w].t] # "none"
Known(t) ==
    /\ FileOf(t) = "none" => status[t] = "none" /\ rows[t] = NoRow
    /\ job[t].batch # 0 <=> FileOf(t) \in Shards
Census ==
    /\ \A w \in Workers : Assigned(w)
    /\ \A t \in Ids : Known(t)
    /\ \A r \in gathered : FileOf(r.t) \in Files
    /\ batches \subseteq 1 .. spent["start"]
    /\ trash # {} => spent["cancel"] > 0
    /\ app # "up" => spent["crash"] > 0

\* no number passes the size of the file it is about
Copied(w) == worker[w].seen # <<>> => \A t \in Ids :
    /\ worker[w].seen[t] \in -1 .. SizeOf(t)
    /\ worker[w].seen[t] # NoRow => FileOf(t) \in Files
Placed(w) ==
    /\ worker[w].off <= SizeOf(worker[w].t) /\ worker[w].pos <= SizeOf(worker[w].t)
    /\ worker[w].pc = "open" => worker[w].off < SizeOf(worker[w].t)
    /\ worker[w].pc = "request" => worker[w].pos < SizeOf(worker[w].t)
    /\ Writing(w) => worker[w].on # "none"
    /\ worker[w].pc \in {"unpack", "extract"} => F(w) \notin Shards
Sized ==
    /\ \A t \in Ids : got[t] <= SizeOf(t) /\ rows[t] \in -1 .. SizeOf(t)
    /\ \A r \in gathered : r.off <= SizeOf(r.t)
    /\ \A f \in Files : Len0(f) <= Size[f]
    /\ \A w \in Workers : worker[w].pc # "gone" => Copied(w) /\ Placed(w)

\* the worker that makes ActiveTaskHasWorker true, more sharply
Attends(w, st) ==
    \/ st = "Queued" /\ worker[w].pc \in {"wait", "claim"}
    \/ st = "Downloading" /\ worker[w].pc \in {"open", "request", "stream", "complete",
                                               "verify", "accept", "failing"}
    \/ st = "Downloading" /\ worker[w].pc = "place" /\ F(w) \in Packs \ Providers
    \/ st = "Scanning" /\ worker[w].pc \in {"unpack", "extract"}
Attended == \A t \in Ids : status[t] \in {"Queued", "Downloading", "Scanning"} =>
                \E w \in Workers : worker[w].t = t /\ Attends(w, status[t])

\* what a worker may rely on about its .part while it alone writes it
InHand(w) == worker[w].pc \in {"open", "request", "stream", "complete", "verify",
                               "accept", "unrow", "place"}
Late(w) == worker[w].pc \in {"accept", "unrow", "place"}
Relies(w) ==
    /\ worker[w].pc = "open" => Len0(F(w)) < Size[F(w)]
    /\ Writing(w) /\ worker[w].on = "part" => part[F(w)] # Absent /\ Len0(F(w)) = worker[w].pos
    /\ Writing(w) /\ worker[w].on # "part" => part[F(w)] = Absent
    /\ worker[w].pc \in {"complete", "verify"} => part[F(w)] = Absent \/ Len0(F(w)) = Size[F(w)]
    /\ Late(w) => F(w) \in Shards \/ part[F(w)] = Absent \/ Whole(F(w))
Alone(v, w) ==
    v # w /\ InHand(v) /\ InHand(w) /\ F(v) = F(w) =>
        /\ worker[v].pc \notin {"open", "request"}
        /\ worker[v].pc = "stream" => worker[v].pos = Size[F(v)]
Solo == ~shared => /\ \A w \in Workers : Relies(w)
                   /\ \A v, w \in Workers : Alone(v, w)

\* what the gate has let through stays whole, and nothing else is finished
Passed(f) == \/ \E t \in Ids : status[t] = "Completed" /\ FileOf(t) = f
             \/ \E w \in Workers : Late(w) /\ F(w) = f
Gate == ~shared =>
    /\ spent["cancel"] = 0 =>
          \A f \in Shards \ unvouched : Passed(f) => Whole(f) \/ final[f] = "whole"
    /\ \A f \in Files : final[f] = "bad" => f \in Shards /\ (f \in unvouched \/ spent["cancel"] > 0)

\* without faults and cancels every chunk is right
Quiet == ~shared /\ spent["fault"] = 0 /\ spent["cancel"] = 0
Right(f) == part[f] # Absent => \A i \in 1 .. Len(part[f]) : part[f][i] = "ok"
Clean == Quiet =>
    /\ \A f \in Files : final[f] # "bad" /\ Right(f)
    /\ \A w \in Workers : worker[w].pc = "open" => worker[w].off <= Len0(F(w))

\* a split batch has been left behind by a crash, and recovery will finish it
Split == \E f, g \in Shards : final[f] # "absent" /\ final[g] = "absent"
Forgotten(b) == \A t \in Ids : job[t].batch = b => status[t] = "none"
Together == Quiet /\ Split =>
    app # "up" /\ (\A g \in Shards : Ready(g)) /\ \E b \in batches : Forgotten(b)

\* a shard of a batch is shown or finished, or a crash explains why not
Shown(f) == \E t \in Ids : status[t] # "none" /\ FileOf(t) = f
Found(f) ==
    \/ Shown(f) \/ final[f] # "absent"
    \/ spent["crash"] > 0 /\ (app # "up" \/ spent["cancel"] > 0 \/ Ready(f))
Vanish == batches # {} => \A f \in Shards : Found(f)

Basis == Types /\ Census /\ Sized
DownloadsInd == Basis /\ Attended /\ Solo /\ Gate /\ Clean /\ Together /\ Vanish

(***************************************************************************)
(* Operators of the model.                                                 *)
(***************************************************************************)
LEMMA Facts ==
    /\ Files = Shards \cup Singles \cup Packs /\ Shards \cap (Singles \cup Packs) = {}
    /\ Singles \cap Packs = {} /\ Providers \subseteq Packs /\ "none" \notin Files
    /\ Size \in [Files -> Nat] /\ \A f \in Files : Size[f] > 0
    /\ MaxTasks \in Nat /\ MaxWorkers \in Nat /\ Absent \notin Seq(Chunks)
    /\ DOMAIN AfterRemoval = {"forget", "unrow", "unpack"}
    /\ AfterRemoval["forget"] = "gone" /\ AfterRemoval["unrow"] = "place"
    /\ AfterRemoval["unpack"] = "extract"
<1>1. Absent \notin Seq(Chunks)
  <2>1. Len(Absent) = 1 /\ Absent[1] \notin Chunks  BY DEF Absent, Chunks
  <2>. QED  BY <2>1
<1>2. /\ DOMAIN AfterRemoval = {"forget", "unrow", "unpack"}
      /\ AfterRemoval["forget"] = "gone" /\ AfterRemoval["unrow"] = "place"
      /\ AfterRemoval["unpack"] = "extract"
  BY DEF AfterRemoval
<1>. QED  BY <1>1, <1>2, DownloadsAssumption DEF Files

LEMMA SpentOnce ==
    ASSUME Types, NEW k \in Kinds, Spend(k)
    PROVE  spent' \in [Kinds -> Nat] /\ spent'[k] = spent[k] + 1
           /\ \A j \in Kinds \ {k} : spent'[j] = spent[j]
  BY DEF Types, Spend

\* a .part as a value
LEMMA PartLength ==
    ASSUME Types, NEW f \in Files
    PROVE  /\ Len0(f) \in Nat /\ part[f] \in Parts
           /\ part[f] = Absent => Len0(f) = 0
           /\ part[f] # Absent => part[f] \in Seq(Chunks) /\ Len0(f) = Len(part[f])
           /\ Whole(f) => part[f] # Absent
           /\ Whole(f) <=> Len0(f) = Size[f] /\ Right(f)
  BY Facts DEF Types, Len0, Parts, Whole, Right

\* the ids a request gets are fresh, and each of its jobs gets one
LEMMA NamedJobs ==
    ASSUME NEW jobs, Fit(jobs)
    PROVE  /\ DOMAIN Named(jobs) \subseteq FreshIds
           /\ \A t \in DOMAIN Named(jobs) : Named(jobs)[t] \in jobs
           /\ \A j \in jobs : \E t \in DOMAIN Named(jobs) : Named(jobs)[t] = j
<1> DEFINE id == CHOOSE h \in Injection(jobs, FreshIds) : TRUE
<1>1. id \in [jobs -> FreshIds] /\ IsInjective(id)
  BY DEF Fit, ExistsInjection, Injection
<1>2. Named(jobs) = [t \in {id[j] : j \in jobs} |-> CHOOSE j \in jobs : id[j] = t]
  BY DEF Named
<1>3. \A i, j \in jobs : id[i] = id[j] => i = j  BY <1>1 DEF IsInjective
<1> HIDE DEF id
<1>4. \A j \in jobs : (CHOOSE i \in jobs : id[i] = id[j]) = j  BY <1>3
<1> QED  BY <1>1, <1>2, <1>4

\* each new task gets a worker that was gone, and the others go on
LEMMA Spawned ==
    ASSUME Types, NEW ts \in SUBSET Ids, Spawn(ts)
    PROVE  /\ worker' \in [Workers -> WorkerRecord]
           /\ \A w \in Workers :
                 \/ worker'[w] = worker[w]
                 \/ /\ worker[w].pc = "gone" /\ worker'[w].t \in ts
                    /\ worker'[w] = [Idle EXCEPT !.t = worker'[w].t, !.pc = "wait"]
           /\ \A t \in ts : \E w \in Workers : worker'[w].t = t /\ worker'[w].pc = "wait"
<1> DEFINE at == CHOOSE h \in Injection(ts, FreeWorkers) : TRUE
           new(t) == [Idle EXCEPT !.t = t, !.pc = "wait"]
           who(w) == CHOOSE t \in ts : at[t] = w
<1>1. at \in [ts -> FreeWorkers] /\ IsInjective(at)
  BY DEF Spawn, ExistsInjection, Injection
<1>2. worker' = [w \in Workers |-> IF \E t \in ts : at[t] = w THEN new(who(w)) ELSE worker[w]]
  BY DEF Spawn, Workers
<1>3. FreeWorkers \subseteq Workers /\ \A w \in FreeWorkers : worker[w].pc = "gone"
  BY DEF FreeWorkers, Workers
<1>4. \A t \in Nat : new(t) \in WorkerRecord /\ new(t).t = t /\ new(t).pc = "wait"
  BY DEF WorkerRecord, Idle, Pcs
<1>5. ts \subseteq Nat  BY DEF Ids
<1>6. worker \in [Workers -> WorkerRecord]  BY DEF Types
<1>7. \A w \in Workers : (\E t \in ts : at[t] = w) => who(w) \in ts /\ at[who(w)] = w  OBVIOUS
<1>8. \A s, t \in ts : at[s] = at[t] => s = t  BY <1>1 DEF IsInjective
<1> HIDE DEF at, new, who
<1>9. worker' \in [Workers -> WorkerRecord]  BY <1>2, <1>4, <1>5, <1>6, <1>7
<1>10. \A w \in Workers : IF \E t \in ts : at[t] = w THEN worker'[w] = new(who(w)) ELSE worker'[w] = worker[w]
  BY <1>2
<1>11. \A w \in Workers : worker'[w] = worker[w] \/ (worker[w].pc = "gone" /\ worker'[w].t \in ts
                                                     /\ worker'[w] = new(worker'[w].t))
  BY <1>10, <1>1, <1>3, <1>4, <1>5, <1>7
<1>12. ASSUME NEW t \in ts PROVE \E w \in Workers : worker'[w].t = t /\ worker'[w].pc = "wait"
  <2>1. at[t] \in Workers /\ worker'[at[t]] = new(who(at[t]))  BY <1>10, <1>1, <1>3
  <2>2. who(at[t]) = t  BY <1>1, <1>3, <1>7, <1>8
  <2> QED  BY <2>1, <2>2, <1>4, <1>5
<1> QED  BY <1>9, <1>11, <1>12 DEF new

\* a .part cut or padded to a length, and a chunk written into one
LEMMA Cut ==
    ASSUME NEW old \in Seq(Chunks), NEW n \in Nat
    PROVE  LET p == [i \in 1 .. n |-> IF i <= Len(old) THEN old[i] ELSE "bad"] IN
           /\ p \in Seq(Chunks) /\ Len(p) = n
           /\ (n <= Len(old) /\ (\A i \in 1 .. Len(old) : old[i] = "ok")) => \A i \in 1 .. n : p[i] = "ok"
  BY DEF Chunks

LEMMA PutIn ==
    ASSUME NEW s \in Seq(Chunks), NEW i \in Nat, i > 0, NEW c \in Chunks
    PROVE  /\ Put(s, i, c) \in Seq(Chunks)
           /\ Len(Put(s, i, c)) = IF Len(s) < i THEN i ELSE Len(s)
           /\ (c = "ok" /\ i = Len(s) + 1 /\ \A j \in 1 .. Len(s) : s[j] = "ok")
                  => \A j \in 1 .. Len(Put(s, i, c)) : Put(s, i, c)[j] = "ok"
<1>1. PICK n \in Nat : n = IF Len(s) < i THEN i ELSE Len(s)  OBVIOUS
<1>2. Put(s, i, c) = [j \in 1 .. n |-> IF j = i THEN c ELSE IF j <= Len(s) THEN s[j] ELSE "bad"]
  BY <1>1 DEF Put
<1>3. \A j \in 1 .. n : Put(s, i, c)[j] \in Chunks  BY <1>2 DEF Chunks
<1>4. Put(s, i, c) \in Seq(Chunks) /\ Len(Put(s, i, c)) = n  BY <1>2, <1>3
<1> QED  BY <1>1, <1>2, <1>4

(***************************************************************************)
(* What a step of a worker does to the workers.                            *)
(***************************************************************************)
Others(w) == /\ worker' \in [Workers -> WorkerRecord]
             /\ \A v \in Workers \ {w} : worker'[v] = worker[v]
\* it goes to a stage
Goes(w, pc) ==
    /\ Others(w) /\ worker'[w].pc = pc /\ worker'[w].t = worker[w].t
    /\ worker'[w].off = worker[w].off /\ worker'[w].pos = worker[w].pos
    /\ worker'[w].on = worker[w].on /\ worker'[w].seen = worker[w].seen
\* another one only loses the name its handle was opened under
Stays(v) ==
    /\ worker'[v].pc = worker[v].pc /\ worker'[v].t = worker[v].t
    /\ worker'[v].off = worker[v].off /\ worker'[v].pos = worker[v].pos
    /\ worker'[v].seen = worker[v].seen
    /\ \/ worker'[v] = worker[v]
       \/ worker[v].pc # "gone" /\ worker[v].on = "part" /\ worker'[v].on \in {"lost", "final"}
Bystander(v, moved) ==
    /\ Stays(v) /\ (F(v) \notin moved => worker'[v] = worker[v])
    /\ Writing(v) /\ F(v) \in moved => worker'[v].on # "part"

LEMMA Rewritten ==
    ASSUME Types, NEW w \in Workers, NEW r \in WorkerRecord, worker' = [worker EXCEPT ![w] = r]
    PROVE  Others(w) /\ worker'[w] = r
  BY DEF Types, Others

LEMMA IdleTyped ==
    /\ Idle \in WorkerRecord /\ Idle.pc = "gone" /\ Idle.t = 0 /\ Idle.off = 0 /\ Idle.pos = 0
    /\ Idle.on = "none" /\ Idle.seen = <<>>
  BY DEF Idle, WorkerRecord, Pcs

LEMMA NewWorker ==
    ASSUME NEW t \in Nat, NEW pc \in Pcs
    PROVE  LET r == [Idle EXCEPT !.t = t, !.pc = pc] IN
           /\ r \in WorkerRecord /\ r.pc = pc /\ r.t = t /\ r.off = 0 /\ r.pos = 0
           /\ r.on = "none" /\ r.seen = <<>>
  BY DEF Idle, WorkerRecord

LEMMA Left ==
    ASSUME Types, NEW w \in Workers, Quit(w)
    PROVE  Others(w) /\ worker'[w] = Idle
  BY Rewritten, IdleTyped DEF Quit

LEMMA Went ==
    ASSUME Types, NEW w \in Workers, NEW pc \in Pcs, Goto(w, pc)
    PROVE  Goes(w, pc)
<1> DEFINE r == [worker[w] EXCEPT !.pc = pc]
<1>1. worker[w] \in WorkerRecord  BY DEF Types
<1>2. /\ r \in WorkerRecord /\ r.pc = pc /\ r.t = worker[w].t /\ r.off = worker[w].off
      /\ r.pos = worker[w].pos /\ r.on = worker[w].on /\ r.seen = worker[w].seen
  BY <1>1 DEF WorkerRecord
<1>3. worker' = [worker EXCEPT ![w] = r]  BY DEF Goto
<1> HIDE DEF r
<1> QED  BY <1>2, <1>3, Rewritten DEF Goes

LEMMA ClaimDoes ==
    ASSUME Types, NEW w \in Workers, Assigned(w), Claim(w)
    PROVE  /\ worker[w].pc = "claim" /\ worker[w].t \in Ids /\ F(w) \in Files
           /\ \/ /\ status[worker[w].t] = "Queued" /\ Others(w)
                 /\ worker'[w].t = worker[w].t /\ worker'[w].pos = worker[w].pos
                 /\ worker'[w].seen = worker[w].seen /\ worker'[w].off = Len0(F(w))
                 /\ worker'[w].pc = IF Len0(F(w)) >= Size[F(w)] THEN "complete" ELSE "open"
                 /\ status' = [status EXCEPT ![worker[w].t] = "Downloading"]
                 /\ got' = [got EXCEPT ![worker[w].t] = Len0(F(w))]
                 /\ shared' = (shared \/ (Len0(F(w)) < Size[F(w)] /\ Hands(F(w)) # {}))
              \/ /\ status[worker[w].t] # "Queued" /\ Others(w) /\ worker'[w] = Idle
                 /\ UNCHANGED <<status, got, shared>>
           /\ UNCHANGED <<app, job, prio, batches, gathered, disk, trash, spent, unvouched>>
<1>u. UNCHANGED <<app, job, prio, batches, gathered, disk, trash, spent, unvouched>>  BY DEF Claim
<1>1. worker[w].pc = "claim" /\ worker[w].t \in Ids /\ F(w) \in Files /\ worker[w] \in WorkerRecord
  BY DEF Claim, Assigned, Types
<1>2. Len0(F(w)) \in Nat  BY <1>1, PartLength
<1>3. CASE status[worker[w].t] = "Queued"
  <2> DEFINE pc == IF Len0(F(w)) >= Size[F(w)] THEN "complete" ELSE "open"
             r == [worker[w] EXCEPT !.off = Len0(F(w)), !.pc = pc]
  <2>1. pc \in Pcs  BY DEF Pcs
  <2>2. worker' = [worker EXCEPT ![w] = r]  BY <1>1, <1>3 DEF Claim, Offset, F
  <2>3. /\ r \in WorkerRecord /\ r.pc = pc /\ r.off = Len0(F(w)) /\ r.t = worker[w].t
        /\ r.pos = worker[w].pos /\ r.seen = worker[w].seen
    <3> HIDE DEF pc
    <3> QED  BY <1>1, <1>2, <2>1 DEF WorkerRecord
  <2>4. /\ status' = [status EXCEPT ![worker[w].t] = "Downloading"]
        /\ got' = [got EXCEPT ![worker[w].t] = Len0(F(w))]
        /\ shared' = (shared \/ (Len0(F(w)) < Size[F(w)] /\ Hands(F(w)) # {}))
    BY <1>1, <1>3 DEF Claim, Offset, F
  <2> HIDE DEF r
  <2> QED  BY <1>u, <1>1, <1>3, <2>2, <2>3, <2>4, Rewritten
<1>4. CASE status[worker[w].t] # "Queued"
  BY <1>u, <1>1, <1>4, Left DEF Claim
<1> QED  BY <1>u, <1>3, <1>4

LEMMA OpenDoes ==
    ASSUME Types, NEW w \in Workers, Assigned(w), Open(w)
    PROVE  /\ worker[w].pc = "open" /\ worker[w].t \in Ids /\ F(w) \in Files
           /\ Others(w) /\ worker'[w].t = worker[w].t /\ worker'[w].off = worker[w].off
           /\ worker'[w].seen = worker[w].seen
           /\ worker'[w].pc = "request" /\ worker'[w].pos = worker[w].off /\ worker'[w].on = "part"
           /\ part' \in [Files -> Parts] /\ part'[F(w)] \in Seq(Chunks)
           /\ Len(part'[F(w)]) = worker[w].off
           /\ worker[w].off <= Len0(F(w)) /\ Right(F(w)) => \A i \in 1 .. worker[w].off : part'[F(w)][i] = "ok"
           /\ \A f \in Files \ {F(w)} : part'[f] = part[f]
           /\ UNCHANGED <<memory, rows, final, trash, spent, history>>
<1>u. UNCHANGED <<memory, rows, final, trash, spent, history>>  BY DEF Open
<1>1. worker[w].pc = "open" /\ worker[w].t \in Ids /\ F(w) \in Files /\ worker[w] \in WorkerRecord
  BY DEF Open, Assigned, Types
<1> DEFINE r == [worker[w] EXCEPT !.pc = "request", !.pos = worker[w].off, !.on = "part"]
           old == IF part[F(w)] = Absent THEN <<>> ELSE part[F(w)]
           new == [i \in 1 .. worker[w].off |-> IF i <= Len(old) THEN old[i] ELSE "bad"]
<1>2. worker' = [worker EXCEPT ![w] = r] /\ part' = [part EXCEPT ![F(w)] = new]
  BY <1>1 DEF Open, F
<1>3. r \in WorkerRecord /\ r.pc = "request" /\ r.pos = worker[w].off /\ r.on = "part" /\ r.t = worker[w].t
      /\ r.off = worker[w].off /\ r.seen = worker[w].seen
  BY <1>1 DEF WorkerRecord, Pcs
<1>4. worker[w].off \in Nat  BY <1>1 DEF WorkerRecord
<1>5. <<>> \in Seq(Chunks) /\ Len(<<>>) = 0  OBVIOUS
<1>6. old \in Seq(Chunks) /\ Len(old) = Len0(F(w)) /\ (Right(F(w)) => \A i \in 1 .. Len(old) : old[i] = "ok")
  BY <1>1, <1>5, PartLength DEF Right
<1>7. new \in Seq(Chunks) /\ Len(new) = worker[w].off
      /\ (worker[w].off <= Len0(F(w)) /\ Right(F(w)) => \A i \in 1 .. worker[w].off : new[i] = "ok")
  <2> HIDE DEF old
  <2>1. /\ new \in Seq(Chunks) /\ Len(new) = worker[w].off
        /\ (worker[w].off <= Len(old) /\ (\A i \in 1 .. Len(old) : old[i] = "ok")) => \A i \in 1 .. worker[w].off : new[i] = "ok"
    BY <1>4, <1>6, Cut
  <2> QED  BY <2>1, <1>6
<1> HIDE DEF r, new
<1>8. Others(w) /\ worker'[w] = r  BY <1>2, <1>3, Rewritten
<1>9. part \in [Files -> Parts] /\ new \in Parts  BY <1>7 DEF Types, Parts
<1>10. part' \in [Files -> Parts] /\ part'[F(w)] = new /\ \A f \in Files \ {F(w)} : part'[f] = part[f]
  BY <1>1, <1>2, <1>9
<1> QED  BY <1>u, <1>1, <1>3, <1>7, <1>8, <1>10

LEMMA AnsweredWholeDoes ==
    ASSUME Types, NEW w \in Workers, Assigned(w), AnsweredWhole(w)
    PROVE  /\ worker[w].pc = "request" /\ worker[w].t \in Ids /\ F(w) \in Files
           /\ Others(w) /\ worker'[w].t = worker[w].t /\ worker'[w].off = worker[w].off
           /\ worker'[w].seen = worker[w].seen
           /\ worker'[w].pc = "stream" /\ worker'[w].pos = 0 /\ worker'[w].on = "part"
           /\ part' \in [Files -> Parts] /\ part'[F(w)] = <<>> /\ part'[F(w)] \in Seq(Chunks)
           /\ \A f \in Files \ {F(w)} : part'[f] = part[f]
           /\ UNCHANGED <<app, status, job, prio, batches, gathered, rows, final, trash, history>>
<1>u. UNCHANGED <<app, status, job, prio, batches, gathered, rows, final, trash, history>>  BY DEF AnsweredWhole
<1>1. worker[w].pc = "request" /\ worker[w].t \in Ids /\ F(w) \in Files /\ worker[w] \in WorkerRecord
  BY DEF AnsweredWhole, Assigned, Types
<1> DEFINE r == [worker[w] EXCEPT !.pc = "stream", !.pos = 0, !.on = "part"]
<1>2. worker' = [worker EXCEPT ![w] = r] /\ part' = [part EXCEPT ![F(w)] = <<>>]
  BY <1>1 DEF AnsweredWhole, F
<1>3. r \in WorkerRecord /\ r.pc = "stream" /\ r.pos = 0 /\ r.on = "part" /\ r.t = worker[w].t
      /\ r.off = worker[w].off /\ r.seen = worker[w].seen
  BY <1>1 DEF WorkerRecord, Pcs
<1> HIDE DEF r
<1>4. Others(w) /\ worker'[w] = r  BY <1>2, <1>3, Rewritten
<1>5. <<>> \in Seq(Chunks)  OBVIOUS
<1>6. part \in [Files -> Parts] /\ <<>> \in Parts  BY <1>5 DEF Types, Parts
<1> QED  BY <1>u, <1>1, <1>2, <1>3, <1>4, <1>5, <1>6

LEMMA ChunkDoes ==
    ASSUME Types, NEW w \in Workers, Assigned(w), NEW c \in Chunks, Chunk(w, c)
    PROVE  /\ worker[w].pc = "stream" /\ worker[w].t \in Ids /\ F(w) \in Files
           /\ worker[w].pos < Size[F(w)] /\ ~Stopped(worker[w].t)
           /\ Others(w) /\ worker'[w].t = worker[w].t /\ worker'[w].off = worker[w].off
           /\ worker'[w].seen = worker[w].seen /\ worker'[w].on = worker[w].on
           /\ worker'[w].pc = "stream" /\ worker'[w].pos = worker[w].pos + 1
           /\ IF worker[w].on = "part"
              THEN /\ part' \in [Files -> Parts] /\ part'[F(w)] \in Seq(Chunks)
                   /\ Len(part'[F(w)]) = IF Len0(F(w)) < worker[w].pos + 1 THEN worker[w].pos + 1 ELSE Len0(F(w))
                   /\ (c = "ok" /\ Right(F(w)) /\ worker[w].pos = Len0(F(w))) =>
                         \A i \in 1 .. Len(part'[F(w)]) : part'[F(w)][i] = "ok"
                   /\ \A f \in Files \ {F(w)} : part'[f] = part[f]
              ELSE part' = part
           /\ UNCHANGED <<memory, rows, final, trash, history>>
<1>u. UNCHANGED <<memory, rows, final, trash, history>>  BY DEF Chunk
<1>1. worker[w].pc = "stream" /\ worker[w].t \in Ids /\ F(w) \in Files /\ worker[w] \in WorkerRecord
  BY DEF Chunk, Assigned, Types
<1> DEFINE r == [worker[w] EXCEPT !.pos = worker[w].pos + 1, !.fresh = worker[w].fresh + 1]
           old == IF part[F(w)] = Absent THEN <<>> ELSE part[F(w)]
           new == Put(old, worker[w].pos + 1, c)
<1>2. /\ worker' = [worker EXCEPT ![w] = r] /\ worker[w].pos < Size[F(w)] /\ ~Stopped(worker[w].t)
      /\ part' = IF worker[w].on = "part" THEN [part EXCEPT ![F(w)] = new] ELSE part
  BY <1>1 DEF Chunk, F
<1>4. worker[w].pos \in Nat /\ worker[w].fresh \in Nat  BY <1>1 DEF WorkerRecord
<1>3. r \in WorkerRecord /\ r.pc = "stream" /\ r.pos = worker[w].pos + 1 /\ r.on = worker[w].on /\ r.t = worker[w].t
      /\ r.off = worker[w].off /\ r.seen = worker[w].seen
  <2>1. worker[w].pos + 1 \in Nat /\ worker[w].fresh + 1 \in Nat  BY <1>4
  <2> QED  BY <1>1, <2>1 DEF WorkerRecord
<1>5. <<>> \in Seq(Chunks) /\ Len(<<>>) = 0  OBVIOUS
<1>6. old \in Seq(Chunks) /\ Len(old) = Len0(F(w)) /\ (Right(F(w)) => \A i \in 1 .. Len(old) : old[i] = "ok")
  BY <1>1, <1>5, PartLength DEF Right
<1>7. /\ new \in Seq(Chunks)
      /\ Len(new) = IF Len0(F(w)) < worker[w].pos + 1 THEN worker[w].pos + 1 ELSE Len0(F(w))
      /\ (c = "ok" /\ Right(F(w)) /\ worker[w].pos = Len0(F(w))) => \A i \in 1 .. Len(new) : new[i] = "ok"
  <2> HIDE DEF old
  <2>1. worker[w].pos + 1 \in Nat /\ worker[w].pos + 1 > 0  BY <1>4
  <2> QED  BY <2>1, <1>6, PutIn
<1> HIDE DEF r, new
<1>8. Others(w) /\ worker'[w] = r  BY <1>2, <1>3, Rewritten
<1>9. part \in [Files -> Parts] /\ new \in Parts  BY <1>7 DEF Types, Parts
<1>10. worker[w].on = "part" => part' \in [Files -> Parts] /\ part'[F(w)] = new /\ \A f \in Files \ {F(w)} : part'[f] = part[f]
  BY <1>1, <1>2, <1>9
<1> QED  BY <1>u, <1>1, <1>2, <1>3, <1>7, <1>8, <1>10

\* the flush of StopAsked, Tick and StreamEnds, and where the worker then is

LEMMA FlushDoes ==
    ASSUME Types, Sized, NEW w \in Workers, worker[w].t \in Ids, F(w) \in Files, Flush(w)
    PROVE  got' \in [Ids -> Nat] /\ got'[worker[w].t] <= SizeOf(worker[w].t)
           /\ \A t \in Ids \ {worker[w].t} : got'[t] = got[t]
<1>1. got \in [Ids -> Nat] /\ worker[w].fresh \in Nat  BY DEF Types, WorkerRecord
<1>2. SizeOf(worker[w].t) = Size[F(w)] /\ Size[F(w)] \in Nat  BY Facts DEF SizeOf, F
<1> QED  BY <1>1, <1>2 DEF Flush, F

LEMMA TickDoes ==
    ASSUME Types, NEW w \in Workers, Tick(w)
    PROVE  /\ Goes(w, "stream") /\ worker[w].pc = "stream"
           /\ UNCHANGED <<app, status, job, prio, batches, gathered, disk, trash, spent, history>>
<1>u. UNCHANGED <<app, status, job, prio, batches, gathered, disk, trash, spent, history>>  BY DEF Tick
<1> DEFINE r == [worker[w] EXCEPT !.fresh = 0]
<1>1. worker[w] \in WorkerRecord  BY DEF Types
<1>2. worker' = [worker EXCEPT ![w] = r] /\ worker[w].pc = "stream"  BY DEF Tick
<1>3. r \in WorkerRecord /\ r.pc = worker[w].pc /\ r.pos = worker[w].pos /\ r.t = worker[w].t
      /\ r.off = worker[w].off /\ r.on = worker[w].on /\ r.seen = worker[w].seen
  BY <1>1 DEF WorkerRecord
<1> HIDE DEF r
<1> QED  BY <1>u, <1>2, <1>3, Rewritten DEF Goes

LEMMA StreamEndsDoes ==
    ASSUME Types, NEW w \in Workers, StreamEnds(w)
    PROVE  /\ Goes(w, "complete") /\ worker[w].pc = "stream" /\ worker[w].pos = Size[F(w)]
           /\ UNCHANGED <<app, status, job, prio, batches, gathered, disk, trash, spent, history>>
<1>u. UNCHANGED <<app, status, job, prio, batches, gathered, disk, trash, spent, history>>  BY DEF StreamEnds
<1> DEFINE r == [worker[w] EXCEPT !.pc = "complete", !.fresh = 0]
<1>1. worker[w] \in WorkerRecord  BY DEF Types
<1>2. worker' = [worker EXCEPT ![w] = r] /\ worker[w].pc = "stream" /\ worker[w].pos = Size[F(w)]
  BY DEF StreamEnds, F
<1>3. r \in WorkerRecord /\ r.pc = "complete" /\ r.pos = worker[w].pos /\ r.t = worker[w].t
      /\ r.off = worker[w].off /\ r.on = worker[w].on /\ r.seen = worker[w].seen
  BY <1>1 DEF WorkerRecord, Pcs
<1> HIDE DEF r
<1> QED  BY <1>u, <1>2, <1>3, Rewritten DEF Goes

LEMMA LoadRowsDoes ==
    ASSUME Types, NEW w \in Workers, LoadRows(w)
    PROVE  /\ worker[w].pc \in {"forget", "unrow", "unpack"} /\ Others(w)
           /\ worker'[w].pc = worker[w].pc /\ worker'[w].t = worker[w].t
           /\ worker'[w].off = worker[w].off /\ worker'[w].pos = worker[w].pos
           /\ worker'[w].on = worker[w].on /\ worker'[w].seen = rows
           /\ UNCHANGED <<memory, disk, trash, spent, history>>
<1>u. UNCHANGED <<memory, disk, trash, spent, history>>  BY DEF LoadRows
<1> DEFINE r == [worker[w] EXCEPT !.seen = rows]
<1>1. worker[w] \in WorkerRecord /\ rows \in [Ids -> Int]  BY DEF Types
<1>2. worker' = [worker EXCEPT ![w] = r] /\ worker[w].pc \in {"forget", "unrow", "unpack"}
  BY Facts DEF LoadRows
<1>3. r \in WorkerRecord /\ r.pc = worker[w].pc /\ r.pos = worker[w].pos /\ r.t = worker[w].t
      /\ r.off = worker[w].off /\ r.on = worker[w].on /\ r.seen = rows
  BY <1>1 DEF WorkerRecord
<1> HIDE DEF r
<1> QED  BY <1>u, <1>2, <1>3, Rewritten

LEMMA SaveRowsDoes ==
    ASSUME Types, NEW w \in Workers, SaveRows(w)
    PROVE  /\ worker[w].pc \in {"forget", "unrow", "unpack"} /\ Others(w)
           /\ worker[w].seen \in [Ids -> Int] /\ worker[w].seen # <<>>
           /\ rows' = [worker[w].seen EXCEPT ![worker[w].t] = NoRow]
           /\ worker[w].pc = "forget" => worker'[w] = Idle
           /\ worker[w].pc # "forget" =>
                 /\ worker'[w].t = worker[w].t /\ worker'[w].off = worker[w].off
                 /\ worker'[w].pos = worker[w].pos /\ worker'[w].on = worker[w].on /\ worker'[w].seen = <<>>
                 /\ worker[w].pc = "unrow" => worker'[w].pc = "place"
                 /\ worker[w].pc = "unpack" => worker'[w].pc = "extract"
           /\ UNCHANGED <<memory, part, final, trash, spent, history>>
<1>u. UNCHANGED <<memory, part, final, trash, spent, history>>  BY DEF SaveRows
<1> DEFINE pc == AfterRemoval[worker[w].pc]
           r == [worker[w] EXCEPT !.seen = <<>>, !.pc = pc]
<1>1. worker[w] \in WorkerRecord  BY DEF Types
<1>2. /\ worker[w].pc \in {"forget", "unrow", "unpack"} /\ worker[w].seen # <<>>
      /\ rows' = [worker[w].seen EXCEPT ![worker[w].t] = NoRow]
  BY Facts DEF SaveRows
<1>3. worker[w].seen \in [Ids -> Int]  BY <1>1, <1>2 DEF WorkerRecord
<1>4. CASE worker[w].pc = "forget"
  <2>1. Quit(w)  BY <1>4 DEF SaveRows
  <2> QED  BY <1>u, <2>1, <1>2, <1>3, <1>4, Left
<1>5. CASE worker[w].pc # "forget"
  <2>1. worker' = [worker EXCEPT ![w] = r]  BY <1>5 DEF SaveRows
  <2>2. pc \in Pcs /\ (worker[w].pc = "unrow" => pc = "place") /\ (worker[w].pc = "unpack" => pc = "extract")
    BY <1>2, <1>5, Facts DEF Pcs
  <2> HIDE DEF pc
  <2>3. /\ r \in WorkerRecord /\ r.pc = pc /\ r.pos = worker[w].pos /\ r.t = worker[w].t
        /\ r.off = worker[w].off /\ r.on = worker[w].on /\ r.seen = <<>>
    BY <1>1, <2>2 DEF WorkerRecord
  <2> HIDE DEF r
  <2> QED  BY <1>u, <1>2, <1>3, <1>5, <2>1, <2>2, <2>3, Rewritten
<1> QED  BY <1>u, <1>4, <1>5

LEMMA Unlinking ==
    ASSUME Types, NEW f
    PROVE  /\ Unlink(f) \in [Workers -> WorkerRecord]
           /\ \A v \in Workers :
                 IF Writing(v) /\ worker[v].on = "part" /\ F(v) = f
                 THEN /\ Unlink(f)[v].t = worker[v].t /\ Unlink(f)[v].pc = worker[v].pc
                      /\ Unlink(f)[v].off = worker[v].off /\ Unlink(f)[v].pos = worker[v].pos
                      /\ Unlink(f)[v].seen = worker[v].seen /\ Unlink(f)[v].on = "lost"
                 ELSE Unlink(f)[v] = worker[v]
<1> DEFINE lost(v) == [worker[v] EXCEPT !.on = "lost"]
<1>1. Unlink(f) = [v \in Workers |-> IF Writing(v) /\ worker[v].on = "part" /\ F(v) = f
                                     THEN lost(v) ELSE worker[v]]
  BY DEF Unlink, Workers, F
<1>2. ASSUME NEW v \in Workers
      PROVE  /\ worker[v] \in WorkerRecord /\ lost(v) \in WorkerRecord
             /\ lost(v).t = worker[v].t /\ lost(v).pc = worker[v].pc /\ lost(v).off = worker[v].off
             /\ lost(v).pos = worker[v].pos /\ lost(v).seen = worker[v].seen /\ lost(v).on = "lost"
  <2>1. worker[v] \in WorkerRecord  BY DEF Types
  <2> QED  BY <2>1 DEF WorkerRecord
<1> HIDE DEF lost
<1> QED  BY <1>1, <1>2

LEMMA EmptyTrashDoes ==
    ASSUME Types, NEW f, EmptyTrash(f)
    PROVE  /\ worker' \in [Workers -> WorkerRecord]
           /\ \A v \in Workers : Bystander(v, {f})
           /\ f \in Files /\ part' \in [Files -> Parts] /\ part'[f] = Absent
           /\ \A g \in Files \ {f} : part'[g] = part[g]
           /\ f \in trash /\ trash' = trash \ {f}
           /\ UNCHANGED <<memory, rows, final, spent, history>>
<1>u. f \in trash /\ trash' = trash \ {f} /\ UNCHANGED <<memory, rows, final, spent, history>>  BY DEF EmptyTrash
<1>1. f \in Files /\ worker' = Unlink(f) /\ part' = [part EXCEPT ![f] = Absent]
  BY DEF EmptyTrash, Types
<1>2. part \in [Files -> Parts] /\ Absent \in Parts  BY DEF Types, Parts
<1>3. part' \in [Files -> Parts] /\ part'[f] = Absent /\ \A g \in Files \ {f} : part'[g] = part[g]
  BY <1>1, <1>2
<1>4. ASSUME NEW v \in Workers PROVE Bystander(v, {f})
  <2>1. CASE Writing(v) /\ worker[v].on = "part" /\ F(v) = f
    BY <1>1, <2>1, Unlinking DEF Bystander, Stays, Writing
  <2>2. CASE ~(Writing(v) /\ worker[v].on = "part" /\ F(v) = f)
    BY <1>1, <2>2, Unlinking DEF Bystander, Stays
  <2> QED  BY <2>1, <2>2
<1> QED  BY <1>u, <1>1, <1>3, <1>4, Unlinking

LEMMA VerifyDoes ==
    ASSUME Types, NEW w \in Workers, Assigned(w), Verify(w)
    PROVE  /\ worker[w].pc = "verify" /\ worker[w].t \in Ids /\ F(w) \in Files
           /\ \/ /\ IF part[F(w)] # Absent THEN Whole(F(w)) ELSE final[F(w)] = "whole"
                 /\ Goes(w, "accept") /\ UNCHANGED <<part, final>>
              \/ /\ IF part[F(w)] # Absent THEN ~Whole(F(w)) ELSE final[F(w)] # "whole"
                 /\ worker' \in [Workers -> WorkerRecord]
                 /\ worker'[w].pc = "failing" /\ worker'[w].t = worker[w].t
                 /\ worker'[w].off = worker[w].off /\ worker'[w].pos = worker[w].pos
                 /\ worker'[w].seen = worker[w].seen
                 /\ \A v \in Workers \ {w} : Bystander(v, {F(w)})
                 /\ part' \in [Files -> Parts] /\ part'[F(w)] = Absent
                 /\ \A f \in Files \ {F(w)} : part'[f] = part[f]
                 /\ final' = IF part[F(w)] # Absent THEN final ELSE [final EXCEPT ![F(w)] = "absent"]
           /\ UNCHANGED <<memory, rows, trash, spent, history>>
<1>u. UNCHANGED <<memory, rows, trash, spent, history>>  BY DEF Verify
<1>1. worker[w].pc = "verify" /\ worker[w].t \in Ids /\ F(w) \in Files /\ worker[w] \in WorkerRecord
  BY DEF Verify, Assigned, Types
<1>2. CASE IF part[F(w)] # Absent THEN Whole(F(w)) ELSE final[F(w)] = "whole"
  <2>1. Goto(w, "accept") /\ UNCHANGED <<part, final>>  BY <1>2 DEF Verify, F
  <2>2. "accept" \in Pcs  BY DEF Pcs
  <2> QED  BY <1>u, <1>1, <1>2, <2>1, <2>2, Went
<1>3. CASE IF part[F(w)] # Absent THEN ~Whole(F(w)) ELSE final[F(w)] # "whole"
  <2> DEFINE r == [worker[w] EXCEPT !.pc = "failing"]
  <2>1. /\ worker' = [Unlink(F(w)) EXCEPT ![w].pc = "failing"] /\ part' = [part EXCEPT ![F(w)] = Absent]
        /\ final' = IF part[F(w)] # Absent THEN final ELSE [final EXCEPT ![F(w)] = "absent"]
    BY <1>3 DEF Verify, F
  <2>2. Unlink(F(w))[w] = worker[w] /\ Unlink(F(w)) \in [Workers -> WorkerRecord]
    BY <1>1, Unlinking DEF Writing
  <2>3. worker' = [Unlink(F(w)) EXCEPT ![w] = r]  BY <2>1, <2>2
  <2>4. r \in WorkerRecord /\ r.pc = "failing" /\ r.t = worker[w].t /\ r.off = worker[w].off
        /\ r.pos = worker[w].pos /\ r.seen = worker[w].seen
    BY <1>1 DEF WorkerRecord, Pcs
  <2> HIDE DEF r
  <2>5. worker' \in [Workers -> WorkerRecord] /\ worker'[w] = r
        /\ \A v \in Workers \ {w} : worker'[v] = Unlink(F(w))[v]
    BY <2>2, <2>3, <2>4
  <2>6. ASSUME NEW v \in Workers \ {w} PROVE Bystander(v, {F(w)})
    <3>1. CASE Writing(v) /\ worker[v].on = "part" /\ F(v) = F(w)
      BY <2>5, <3>1, Unlinking DEF Bystander, Stays, Writing
    <3>2. CASE ~(Writing(v) /\ worker[v].on = "part" /\ F(v) = F(w))
      BY <2>5, <3>2, Unlinking DEF Bystander, Stays
    <3> QED  BY <3>1, <3>2
  <2>7. part \in [Files -> Parts] /\ Absent \in Parts  BY DEF Types, Parts
  <2>8. part' \in [Files -> Parts] /\ part'[F(w)] = Absent /\ \A f \in Files \ {F(w)} : part'[f] = part[f]
    BY <1>1, <2>1, <2>7
  <2> QED  BY <1>u, <1>1, <1>3, <2>1, <2>4, <2>5, <2>6, <2>8
<1> QED  BY <1>u, <1>2, <1>3

LEMMA PlaceFileDoes ==
    ASSUME Types, NEW w \in Workers, Assigned(w), PlaceFile(w)
    PROVE  /\ worker[w].pc = "place" /\ worker[w].t \in Ids /\ F(w) \in Files /\ job[worker[w].t].batch = 0
           /\ worker' \in [Workers -> WorkerRecord]
           /\ \A v \in Workers \ {w} : Bystander(v, {F(w)})
           /\ part' \in [Files -> Parts] /\ part'[F(w)] = Absent
           /\ \A f \in Files \ {F(w)} : part'[f] = part[f]
           /\ final' = [final EXCEPT ![F(w)] = IF part[F(w)] = Absent THEN "absent"
                                                ELSE IF Whole(F(w)) THEN "whole" ELSE "bad"]
           /\ status' = [status EXCEPT ![worker[w].t] = IF part[F(w)] = Absent THEN "Failed"
                                       ELSE IF F(w) \in Packs THEN "Scanning" ELSE status[worker[w].t]]
           /\ IF part[F(w)] # Absent /\ F(w) \in Packs
              THEN /\ worker'[w].t = worker[w].t /\ worker'[w].pc = "unpack" /\ worker'[w].off = 0
                   /\ worker'[w].pos = 0 /\ worker'[w].seen = <<>>
              ELSE worker'[w] = Idle
           /\ UNCHANGED <<app, job, got, prio, batches, gathered, rows, trash, spent, history>>
<1>u. UNCHANGED <<app, job, got, prio, batches, gathered, rows, trash, spent, history>>  BY DEF PlaceFile
<1>1. worker[w].pc = "place" /\ worker[w].t \in Ids /\ F(w) \in Files /\ job[worker[w].t].batch = 0
  BY DEF PlaceFile, Assigned
<1> DEFINE next == [Idle EXCEPT !.t = worker[w].t, !.pc = "unpack"]
           mine == IF part[F(w)] # Absent /\ F(w) \in Packs THEN next ELSE Idle
           moved(v) == [worker[v] EXCEPT !.on = "final"]
<1>2. /\ part' = [part EXCEPT ![F(w)] = Absent]
      /\ final' = [final EXCEPT ![F(w)] = IF part[F(w)] = Absent THEN "absent"
                                           ELSE IF Whole(F(w)) THEN "whole" ELSE "bad"]
      /\ status' = [status EXCEPT ![worker[w].t] = IF part[F(w)] = Absent THEN "Failed"
                                       ELSE IF F(w) \in Packs THEN "Scanning" ELSE status[worker[w].t]]
      /\ worker' = [v \in Workers |-> IF v = w THEN mine
                       ELSE IF worker[v].pc # "gone" /\ worker[v].on = "part" /\ F(v) = F(w)
                            THEN moved(v) ELSE worker[v]]
  BY DEF PlaceFile, F, Workers
<1>3. /\ next \in WorkerRecord /\ next.t = worker[w].t /\ next.pc = "unpack" /\ next.off = 0
      /\ next.pos = 0 /\ next.seen = <<>>
  <2>1. worker[w].t \in Nat /\ "unpack" \in Pcs  BY <1>1 DEF Ids, Pcs
  <2> QED  BY <2>1 DEF WorkerRecord, Idle
<1>4. mine \in WorkerRecord  BY <1>3, IdleTyped
<1>5. ASSUME NEW v \in Workers
      PROVE  /\ worker[v] \in WorkerRecord /\ moved(v) \in WorkerRecord
             /\ moved(v).t = worker[v].t /\ moved(v).pc = worker[v].pc /\ moved(v).off = worker[v].off
             /\ moved(v).pos = worker[v].pos /\ moved(v).seen = worker[v].seen /\ moved(v).on = "final"
  <2>1. worker[v] \in WorkerRecord  BY DEF Types
  <2> QED  BY <2>1 DEF WorkerRecord
<1> HIDE DEF moved, next, mine
<1>6. worker' \in [Workers -> WorkerRecord] /\ worker'[w] = mine  BY <1>2, <1>4, <1>5
<1>7. ASSUME NEW v \in Workers \ {w} PROVE Bystander(v, {F(w)})
  <2>1. CASE worker[v].pc # "gone" /\ worker[v].on = "part" /\ F(v) = F(w)
    <3>1. worker'[v] = moved(v)  BY <1>2, <2>1
    <3> QED  BY <3>1, <2>1, <1>5 DEF Bystander, Stays
  <2>2. CASE ~(worker[v].pc # "gone" /\ worker[v].on = "part" /\ F(v) = F(w))
    <3>1. worker'[v] = worker[v]  BY <1>2, <2>2
    <3> QED  BY <3>1, <2>2 DEF Bystander, Stays, Writing
  <2> QED  BY <2>1, <2>2
<1>8. part \in [Files -> Parts] /\ Absent \in Parts  BY DEF Types, Parts
<1>9. part' \in [Files -> Parts] /\ part'[F(w)] = Absent /\ \A f \in Files \ {F(w)} : part'[f] = part[f]
  BY <1>1, <1>2, <1>8
<1> QED  BY <1>u, <1>1, <1>2, <1>3, <1>6, <1>7, <1>9 DEF mine

\* the renaming of batches: the shards of moved, and what happens to the rest
Done(bs, st, jb) == {b \in bs : ~InFlight(b, st, jb) /\ \A f \in Shards : Ready(f)}
Moving(bs, st, jb) == {f \in Shards : Done(bs, st, jb) # {} /\ final[f] = "absent"}

LEMMA FinalizeDoes ==
    ASSUME Types, NEW bs, NEW st \in [Ids -> Statuses], NEW jb, NEW rs \in [Ids -> Int],
           NEW ws \in [Workers -> WorkerRecord], FinalizeBatches(bs, st, jb, rs, ws)
    PROVE  LET done == Done(bs, st, jb)  moved == Moving(bs, st, jb) IN
           /\ batches' = batches \ done
           /\ final' \in [Files -> {"absent", "whole", "bad"}] /\ part' \in [Files -> Parts]
           /\ \A f \in moved : /\ final'[f] = (IF Whole(f) THEN "whole" ELSE "bad") /\ part'[f] = Absent
                               /\ f \in unvouched' \/ Vouched(done, f, st, jb)
           /\ \A f \in Files \ moved : final'[f] = final[f] /\ part'[f] = part[f]
           /\ status' \in [Ids -> Statuses] /\ rows' \in [Ids -> Int]
           /\ \A t \in Ids : /\ status'[t] = IF st[t] # "none" /\ jb[t].batch \in done THEN "Completed" ELSE st[t]
                             /\ rows'[t] = IF st[t] # "none" /\ jb[t].batch \in done THEN NoRow ELSE rs[t]
           /\ worker' \in [Workers -> WorkerRecord]
           /\ \A v \in Workers :
                 IF ws[v].pc # "gone" /\ ws[v].on = "part" /\ jb[ws[v].t].file \in moved
                 THEN /\ worker'[v].t = ws[v].t /\ worker'[v].pc = ws[v].pc
                      /\ worker'[v].off = ws[v].off /\ worker'[v].pos = ws[v].pos
                      /\ worker'[v].seen = ws[v].seen /\ worker'[v].on = "final"
                 ELSE worker'[v] = ws[v]
           /\ unvouched \subseteq unvouched' /\ unvouched' \subseteq Shards
<1> DEFINE done == Done(bs, st, jb)
           moved == Moving(bs, st, jb)
           renamed(v) == [ws[v] EXCEPT !.on = "final"]
           closed(t) == st[t] # "none" /\ jb[t].batch \in done
<1>1. /\ batches' = batches \ done
      /\ final' = [f \in Files |-> IF f \in moved THEN IF Whole(f) THEN "whole" ELSE "bad" ELSE final[f]]
      /\ part' = [f \in Files |-> IF f \in moved THEN Absent ELSE part[f]]
      /\ status' = [t \in Ids |-> IF closed(t) THEN "Completed" ELSE st[t]]
      /\ rows' = [t \in Ids |-> IF closed(t) THEN NoRow ELSE rs[t]]
      /\ worker' = [v \in Workers |-> IF ws[v].pc # "gone" /\ ws[v].on = "part" /\ jb[ws[v].t].file \in moved
                                      THEN renamed(v) ELSE ws[v]]
      /\ unvouched' = unvouched \cup {f \in Shards : f \in moved /\ ~Vouched(done, f, st, jb)}
  <2>1. done = {b \in bs : ~InFlight(b, st, jb) /\ \A f \in Shards : Ready(f)}  BY DEF Done
  <2>2. \A f : f \in moved <=> done # {} /\ f \in Shards /\ final[f] = "absent"  BY DEF Moving
  <2> HIDE DEF done, moved
  <2> QED  BY <2>1, <2>2 DEF FinalizeBatches, Workers
<1>2. ASSUME NEW v \in Workers
      PROVE  /\ ws[v] \in WorkerRecord /\ renamed(v) \in WorkerRecord
             /\ renamed(v).t = ws[v].t /\ renamed(v).pc = ws[v].pc /\ renamed(v).off = ws[v].off
             /\ renamed(v).pos = ws[v].pos /\ renamed(v).seen = ws[v].seen /\ renamed(v).on = "final"
  <2>1. ws[v] \in WorkerRecord  OBVIOUS
  <2> QED  BY <2>1 DEF WorkerRecord
<1>3. moved \subseteq Shards /\ Shards \subseteq Files  BY Facts DEF Moving
<1>4. /\ Absent \in Parts /\ part \in [Files -> Parts] /\ final \in [Files -> {"absent", "whole", "bad"}]
      /\ unvouched \subseteq Shards
  BY DEF Types, Parts
<1>5. "Completed" \in Statuses /\ NoRow \in Int  BY DEF Statuses, NoRow
<1> HIDE DEF done, moved, renamed
<1>6. worker' \in [Workers -> WorkerRecord]  BY <1>1, <1>2
<1>7. \A v \in Workers :
          IF ws[v].pc # "gone" /\ ws[v].on = "part" /\ jb[ws[v].t].file \in moved
          THEN worker'[v] = renamed(v) ELSE worker'[v] = ws[v]
  BY <1>1
<1>8. part' \in [Files -> Parts] /\ final' \in [Files -> {"absent", "whole", "bad"}]  BY <1>1, <1>4
<1>9. status' \in [Ids -> Statuses] /\ rows' \in [Ids -> Int]  BY <1>1, <1>5
<1>10. \A f \in moved : /\ final'[f] = (IF Whole(f) THEN "whole" ELSE "bad") /\ part'[f] = Absent
                        /\ f \in unvouched' \/ Vouched(done, f, st, jb)
  BY <1>1, <1>3
<1>11. unvouched \subseteq unvouched' /\ unvouched' \subseteq Shards  BY <1>1, <1>4
<1>12. \A f \in Files \ moved : final'[f] = final[f] /\ part'[f] = part[f]  BY <1>1
<1>13. \A t \in Ids : /\ status'[t] = IF st[t] # "none" /\ jb[t].batch \in done THEN "Completed" ELSE st[t]
                      /\ rows'[t] = IF st[t] # "none" /\ jb[t].batch \in done THEN NoRow ELSE rs[t]
  BY <1>1
<1>14. batches' = batches \ done  BY <1>1
<1>15. \A v \in Workers :
                 IF ws[v].pc # "gone" /\ ws[v].on = "part" /\ jb[ws[v].t].file \in moved
                 THEN /\ worker'[v].t = ws[v].t /\ worker'[v].pc = ws[v].pc
                      /\ worker'[v].off = ws[v].off /\ worker'[v].pos = ws[v].pos
                      /\ worker'[v].seen = ws[v].seen /\ worker'[v].on = "final"
                 ELSE worker'[v] = ws[v]
  BY <1>2, <1>7
<1> QED  BY <1>6, <1>8, <1>9, <1>10, <1>11, <1>12, <1>13, <1>14, <1>15 DEF done, moved

\* done: the batches closed by a step; moved: the shards it renamed
Renamed(done, moved) ==
    /\ batches' = batches \ done /\ done \subseteq batches
    /\ moved \subseteq {f \in Shards : final[f] = "absent" /\ Len0(f) = Size[f]}
    /\ done = {} => moved = {}
    /\ done # {} => \A f \in Shards : final[f] = "absent" => f \in moved
    /\ final' \in [Files -> {"absent", "whole", "bad"}] /\ part' \in [Files -> Parts]
    /\ \A f \in moved : /\ final'[f] = (IF Whole(f) THEN "whole" ELSE "bad") /\ part'[f] = Absent
                        /\ \/ f \in unvouched'
                           \/ \E t \in Ids : status[t] = "Completed" /\ FileOf(t) = f
    /\ \A f \in Files \ moved : final'[f] = final[f] /\ part'[f] = part[f]
    /\ unvouched \subseteq unvouched' /\ unvouched' \subseteq Shards

\* the tasks of the closed batches are completed
Marked(done) == \A t \in Ids : /\ status'[t] = IF status[t] # "none" /\ job[t].batch \in done
                                               THEN "Completed" ELSE status[t]
                               /\ rows'[t] \in {rows[t], NoRow}

LEMMA Ready2 ==
    ASSUME Types, NEW bs, NEW st, NEW jb
    PROVE  LET done == Done(bs, st, jb)  moved == Moving(bs, st, jb) IN
           /\ done \subseteq bs
           /\ moved \subseteq {f \in Shards : final[f] = "absent" /\ Len0(f) = Size[f]}
           /\ done = {} => moved = {}
           /\ done # {} => \A f \in Shards : final[f] = "absent" => f \in moved
  BY DEF Done, Moving, Ready

LEMMA PlaceShardDoes ==
    ASSUME Types, NEW w \in Workers, Assigned(w), PlaceShard(w)
    PROVE  /\ worker[w].pc = "place" /\ worker[w].t \in Ids /\ F(w) \in Files /\ job[worker[w].t].batch # 0
           /\ worker' \in [Workers -> WorkerRecord] /\ worker'[w] = Idle
           /\ status' \in [Ids -> Statuses] /\ rows' \in [Ids -> Int]
           /\ \A t \in Ids : /\ rows'[t] \in {rows[t], NoRow}
                             /\ status'[t] = status[t] \/ (status[t] # "none" /\ status'[t] = "Completed")
           /\ \E done, moved :
                 /\ Renamed(done, moved)
                 /\ \A v \in Workers \ {w} : Bystander(v, moved)
                 /\ Marked(done)
           /\ UNCHANGED <<app, job, got, prio, gathered, trash, spent, shared>>
<1>u. UNCHANGED <<app, job, got, prio, gathered, trash, spent, shared>>  BY DEF PlaceShard
<1> DEFINE bs == batches \cap {job[worker[w].t].batch}
           ws == [worker EXCEPT ![w] = Idle]
           done == Done(bs, status, job)
           moved == Moving(bs, status, job)
<1>1. /\ worker[w].pc = "place" /\ worker[w].t \in Ids /\ F(w) \in Files /\ job[worker[w].t].batch # 0
      /\ FinalizeBatches(bs, status, job, rows, ws)
  BY DEF PlaceShard, Assigned
<1>2. ws \in [Workers -> WorkerRecord] /\ ws[w] = Idle /\ \A v \in Workers \ {w} : ws[v] = worker[v]
  BY IdleTyped DEF Types
<1>3. status \in [Ids -> Statuses] /\ rows \in [Ids -> Int]  BY DEF Types
<1> HIDE DEF ws
<1> HIDE DEF bs
<1>4. /\ batches' = batches \ done
      /\ final' \in [Files -> {"absent", "whole", "bad"}] /\ part' \in [Files -> Parts]
      /\ \A f \in moved : /\ final'[f] = (IF Whole(f) THEN "whole" ELSE "bad") /\ part'[f] = Absent
                          /\ f \in unvouched' \/ Vouched(done, f, status, job)
      /\ \A f \in Files \ moved : final'[f] = final[f] /\ part'[f] = part[f]
      /\ status' \in [Ids -> Statuses] /\ rows' \in [Ids -> Int]
      /\ \A t \in Ids : /\ status'[t] = IF status[t] # "none" /\ job[t].batch \in done THEN "Completed" ELSE status[t]
                        /\ rows'[t] = IF status[t] # "none" /\ job[t].batch \in done THEN NoRow ELSE rows[t]
      /\ worker' \in [Workers -> WorkerRecord]
      /\ \A v \in Workers :
            IF ws[v].pc # "gone" /\ ws[v].on = "part" /\ job[ws[v].t].file \in moved
            THEN /\ worker'[v].t = ws[v].t /\ worker'[v].pc = ws[v].pc
                 /\ worker'[v].off = ws[v].off /\ worker'[v].pos = ws[v].pos
                 /\ worker'[v].seen = ws[v].seen /\ worker'[v].on = "final"
            ELSE worker'[v] = ws[v]
      /\ unvouched \subseteq unvouched' /\ unvouched' \subseteq Shards
  BY <1>1, <1>2, <1>3, FinalizeDoes
<1>5. /\ done \subseteq bs
      /\ moved \subseteq {f \in Shards : final[f] = "absent" /\ Len0(f) = Size[f]}
      /\ done = {} => moved = {}
      /\ done # {} => \A f \in Shards : final[f] = "absent" => f \in moved
  BY Ready2
<1> HIDE DEF done, moved
<1>6. bs \subseteq batches  BY DEF bs
<1>7. \A f : Vouched(done, f, status, job) => \E t \in Ids : status[t] = "Completed" /\ FileOf(t) = f
  BY DEF Vouched, FileOf
<1>8. Renamed(done, moved)  BY <1>4, <1>5, <1>6, <1>7 DEF Renamed
<1>9. ASSUME NEW v \in Workers \ {w} PROVE Bystander(v, moved)
  <2>1. CASE worker[v].pc # "gone" /\ worker[v].on = "part" /\ F(v) \in moved
    BY <1>2, <1>4, <2>1 DEF Bystander, Stays, F, FileOf
  <2>2. CASE ~(worker[v].pc # "gone" /\ worker[v].on = "part" /\ F(v) \in moved)
    <3>1. worker'[v] = worker[v]  BY <1>2, <1>4, <2>2 DEF F, FileOf
    <3> QED  BY <3>1, <2>2 DEF Bystander, Stays, Writing
  <2> QED  BY <2>1, <2>2
<1>10. worker'[w] = Idle  BY <1>2, <1>4, IdleTyped
<1>11. Marked(done)  BY <1>4 DEF Marked
<1> QED  BY <1>u, <1>1, <1>4, <1>8, <1>9, <1>10, <1>11

(***************************************************************************)
(* What the commands and the recovery do to the tasks.                     *)
(***************************************************************************)
\* new tasks are queued under fresh ids, each with a worker; the rest goes on

Added(jobs) ==
    /\ job' \in [Ids -> [file : Files \cup {"none"}, batch : Nat]]
    /\ status' \in [Ids -> Statuses] /\ got' \in [Ids -> Nat] /\ rows' \in [Ids -> Int]
    /\ worker' \in [Workers -> WorkerRecord]
    /\ \A t \in Ids :
          \/ job'[t] = job[t] /\ status'[t] = status[t] /\ got'[t] = got[t] /\ rows'[t] = rows[t]
          \/ /\ FileOf(t) = "none" /\ job'[t] \in jobs /\ status'[t] = "Queued"
             /\ got'[t] \in {0, Len0(job'[t].file)} /\ rows'[t] = got'[t]
             /\ \E w \in Workers : worker'[w].t = t /\ worker'[w].pc = "wait"
    /\ \A j \in jobs : \E t \in Ids : job'[t] = j /\ status'[t] = "Queued"
    /\ \A w \in Workers :
          \/ worker'[w] = worker[w]
          \/ /\ worker[w].pc = "gone" /\ worker'[w].t \in Ids /\ FileOf(worker'[w].t) = "none"
             /\ job'[worker'[w].t] \in jobs /\ status'[worker'[w].t] = "Queued"
             /\ worker'[w] = [Idle EXCEPT !.t = worker'[w].t, !.pc = "wait"]

LEMMA CreateDoes ==
    ASSUME Types, NEW jobs \in SUBSET [file : Files, batch : Nat], Create(jobs)
    PROVE  Added(jobs)
<1> DEFINE new == Named(jobs)
           have(t) == IF new[t].file \in Packs THEN Offset(new[t].file) ELSE 0
<1>1. /\ Fit(jobs) /\ Spawn(DOMAIN new)
      /\ job' = [t \in Ids |-> IF t \in DOMAIN new THEN new[t] ELSE job[t]]
      /\ status' = [t \in Ids |-> IF t \in DOMAIN new THEN "Queued" ELSE status[t]]
      /\ got' = [t \in Ids |-> IF t \in DOMAIN new THEN have(t) ELSE got[t]]
      /\ rows' = [t \in Ids |-> IF t \in DOMAIN new THEN have(t) ELSE rows[t]]
  BY DEF Create
<1>2. /\ DOMAIN new \subseteq Ids /\ \A t \in DOMAIN new : FileOf(t) = "none" /\ new[t] \in jobs
      /\ \A j \in jobs : \E t \in DOMAIN new : new[t] = j
  BY <1>1, NamedJobs DEF FreshIds, FileOf
<1>3. \A t \in DOMAIN new : have(t) \in Nat /\ have(t) \in {0, Len0(new[t].file)}
  BY <1>2, PartLength DEF Offset
<1> HIDE DEF new, have
<1>4. /\ worker' \in [Workers -> WorkerRecord]
      /\ \A w \in Workers :
            \/ worker'[w] = worker[w]
            \/ /\ worker[w].pc = "gone" /\ worker'[w].t \in DOMAIN new
               /\ worker'[w] = [Idle EXCEPT !.t = worker'[w].t, !.pc = "wait"]
      /\ \A t \in DOMAIN new : \E w \in Workers : worker'[w].t = t /\ worker'[w].pc = "wait"
  BY <1>1, <1>2, Spawned
<1>5. /\ job \in [Ids -> [file : Files \cup {"none"}, batch : Nat]] /\ status \in [Ids -> Statuses]
      /\ got \in [Ids -> Nat] /\ rows \in [Ids -> Int] /\ "Queued" \in Statuses
  BY DEF Types, Statuses
<1>6. /\ job' \in [Ids -> [file : Files \cup {"none"}, batch : Nat]]
      /\ status' \in [Ids -> Statuses] /\ got' \in [Ids -> Nat] /\ rows' \in [Ids -> Int]
  BY <1>1, <1>2, <1>3, <1>5
<1>7. \A t \in Ids : IF t \in DOMAIN new
                     THEN /\ job'[t] = new[t] /\ status'[t] = "Queued" /\ got'[t] = have(t) /\ rows'[t] = have(t)
                     ELSE job'[t] = job[t] /\ status'[t] = status[t] /\ got'[t] = got[t] /\ rows'[t] = rows[t]
  BY <1>1
<1>8. ASSUME NEW t \in Ids
      PROVE  \/ job'[t] = job[t] /\ status'[t] = status[t] /\ got'[t] = got[t] /\ rows'[t] = rows[t]
             \/ /\ FileOf(t) = "none" /\ job'[t] \in jobs /\ status'[t] = "Queued"
                /\ got'[t] \in {0, Len0(job'[t].file)} /\ rows'[t] = got'[t]
                /\ \E w \in Workers : worker'[w].t = t /\ worker'[w].pc = "wait"
  <2>1. CASE t \notin DOMAIN new  BY <1>7, <2>1
  <2>2. CASE t \in DOMAIN new
    <3>1. job'[t] = new[t] /\ status'[t] = "Queued" /\ got'[t] = have(t) /\ rows'[t] = have(t)
      BY <1>7, <2>2
    <3>2. FileOf(t) = "none" /\ new[t] \in jobs /\ have(t) \in {0, Len0(new[t].file)}
      BY <1>2, <1>3, <2>2
    <3>3. \E w \in Workers : worker'[w].t = t /\ worker'[w].pc = "wait"  BY <1>4, <2>2
    <3> QED  BY <3>1, <3>2, <3>3
  <2> QED  BY <2>1, <2>2
<1>9. \A j \in jobs : \E t \in Ids : job'[t] = j /\ status'[t] = "Queued"
  BY <1>2, <1>7
<1>10. ASSUME NEW w \in Workers, worker'[w] # worker[w]
       PROVE  /\ worker[w].pc = "gone" /\ worker'[w].t \in Ids /\ FileOf(worker'[w].t) = "none"
              /\ job'[worker'[w].t] \in jobs /\ status'[worker'[w].t] = "Queued"
              /\ worker'[w] = [Idle EXCEPT !.t = worker'[w].t, !.pc = "wait"]
  <2>1. /\ worker[w].pc = "gone" /\ worker'[w].t \in DOMAIN new
        /\ worker'[w] = [Idle EXCEPT !.t = worker'[w].t, !.pc = "wait"]
    BY <1>4, <1>10
  <2> QED  BY <2>1, <1>2, <1>7
<1>11. worker' \in [Workers -> WorkerRecord]  BY <1>4
<1> QED  BY <1>6, <1>8, <1>9, <1>10, <1>11 DEF Added

LEMMA ResumeDoes ==
    ASSUME Types, NEW t \in Ids, Known(t), Resume(t)
    PROVE  /\ FileOf(t) \in Files /\ status[t] \in {"Paused", "Failed"} /\ status' = [status EXCEPT ![t] = "Queued"]
           /\ got' \in [Ids -> Nat] /\ rows' \in [Ids -> Int] /\ rows'[t] = got'[t]
           /\ got'[t] \in {got[t], Len0(FileOf(t))}
           /\ \A u \in Ids \ {t} : got'[u] = got[u] /\ rows'[u] = rows[u]
           /\ worker' \in [Workers -> WorkerRecord]
           /\ \A w \in Workers : \/ worker'[w] = worker[w]
                                 \/ /\ worker[w].pc = "gone" /\ worker'[w].t = t
                                    /\ worker'[w] = [Idle EXCEPT !.t = worker'[w].t, !.pc = "wait"]
           /\ \E w \in Workers : worker'[w].t = t /\ worker'[w].pc = "wait"
           /\ UNCHANGED <<app, job, prio, batches, gathered, part, final, trash, spent, history>>
<1>u. UNCHANGED <<app, job, prio, batches, gathered, part, final, trash, spent, history>>  BY DEF Resume
<1> DEFINE have == IF status[t] = "Paused" \/ Len0(FileOf(t)) > got[t] THEN Offset(FileOf(t)) ELSE got[t]
<1>1. /\ status[t] \in {"Paused", "Failed"} /\ status' = [status EXCEPT ![t] = "Queued"] /\ Spawn({t})
      /\ got' = [got EXCEPT ![t] = have] /\ rows' = [rows EXCEPT ![t] = have]
  BY DEF Resume
<1>2. FileOf(t) \in Files /\ Len0(FileOf(t)) \in Nat
  <2>1. FileOf(t) \in Files \cup {"none"}  BY DEF FileOf, Types
  <2> QED  BY <1>1, <2>1, PartLength DEF Known
<1>3. have \in {got[t], Len0(FileOf(t))} /\ have \in Nat  BY <1>2 DEF Offset, Types
<1> HIDE DEF have
<1>4. {t} \in SUBSET Ids  OBVIOUS
<1>5. got \in [Ids -> Nat] /\ rows \in [Ids -> Int]  BY DEF Types
<1>6. /\ worker' \in [Workers -> WorkerRecord]
      /\ \A w \in Workers :
            \/ worker'[w] = worker[w]
            \/ /\ worker[w].pc = "gone" /\ worker'[w].t \in {t}
               /\ worker'[w] = [Idle EXCEPT !.t = worker'[w].t, !.pc = "wait"]
      /\ \A u \in {t} : \E w \in Workers : worker'[w].t = u /\ worker'[w].pc = "wait"
  BY <1>1, <1>4, Spawned
<1>7. /\ got' \in [Ids -> Nat] /\ rows' \in [Ids -> Int] /\ rows'[t] = got'[t]
      /\ got'[t] \in {got[t], Len0(FileOf(t))}
      /\ \A u \in Ids \ {t} : got'[u] = got[u] /\ rows'[u] = rows[u]
  BY <1>1, <1>3, <1>5
<1> QED  BY <1>u, <1>1, <1>2, <1>6, <1>7

Extracting(f, n, v) ==
    /\ FileOf(n) = "none" /\ worker[v].pc = "gone"
    /\ job' \in [Ids -> [file : Files \cup {"none"}, batch : Nat]]
    /\ job'[n] = [file |-> f, batch |-> 0] /\ \A t \in Ids \ {n} : job'[t] = job[t]
    /\ status' \in [Ids -> Statuses] /\ status'[n] = "Scanning"
    /\ \A t \in Ids \ {n} : status'[t] = IF FileOf(t) = f THEN "none" ELSE status[t]
    /\ got' \in [Ids -> Nat] /\ got'[n] = Size[f] /\ \A t \in Ids \ {n} : got'[t] = got[t]
    /\ Others(v) /\ worker'[v].t = n /\ worker'[v].pc = "extract"
    /\ worker'[v].off = 0 /\ worker'[v].pos = 0 /\ worker'[v].seen = <<>>

LEMMA ReextractDoes ==
    ASSUME Types, \A w \in Workers : Assigned(w), NEW f \in Files, Reextract(f)
    PROVE  /\ f \in Packs \ Providers /\ Spend("start")
           /\ \E n \in Ids, v \in Workers : Extracting(f, n, v)
           /\ UNCHANGED <<app, prio, batches, rows, gathered, part, final, trash, history>>
<1>u. /\ f \in Packs \ Providers /\ Spend("start")
      /\ UNCHANGED <<app, prio, batches, rows, gathered, part, final, trash, history>>
  BY DEF Reextract
<1> DEFINE n == CHOOSE t \in FreshIds : TRUE
           v == CHOOSE w \in FreeWorkers : TRUE
           r == [worker[v] EXCEPT !.t = n, !.pc = "extract"]
<1>1. n \in FreshIds /\ v \in FreeWorkers  BY DEF Reextract
<1>2. n \in Ids /\ FileOf(n) = "none" /\ v \in Workers /\ worker[v].pc = "gone"
  BY <1>1 DEF FreshIds, FreeWorkers, FileOf, Workers
<1>3. /\ job' = [job EXCEPT ![n] = [file |-> f, batch |-> 0]]
      /\ status' = [t \in Ids |-> IF t = n THEN "Scanning"
                                  ELSE IF FileOf(t) = f THEN "none" ELSE status[t]]
      /\ got' = [got EXCEPT ![n] = Size[f]] /\ worker' = [worker EXCEPT ![v] = r]
  BY DEF Reextract
<1> HIDE DEF n, v
<1>4. worker[v] = Idle /\ n \in Nat /\ "extract" \in Pcs  BY <1>2 DEF Assigned, Ids, Pcs
<1>5. /\ r \in WorkerRecord /\ r.t = n /\ r.pc = "extract" /\ r.off = 0 /\ r.pos = 0 /\ r.seen = <<>>
  <2>1. r = [Idle EXCEPT !.t = n, !.pc = "extract"]  BY <1>4
  <2> HIDE DEF r
  <2> QED  BY <2>1, <1>4 DEF WorkerRecord, Idle
<1> HIDE DEF r
<1>6. Others(v) /\ worker'[v] = r  BY <1>2, <1>3, <1>5, Rewritten
<1>7. /\ status \in [Ids -> Statuses] /\ got \in [Ids -> Nat] /\ Size[f] \in Nat
      /\ job \in [Ids -> [file : Files \cup {"none"}, batch : Nat]]
      /\ "Scanning" \in Statuses /\ "none" \in Statuses
  BY Facts DEF Types, Statuses
<1>8. [file |-> f, batch |-> 0] \in [file : Files \cup {"none"}, batch : Nat]  OBVIOUS
<1>9. /\ job' \in [Ids -> [file : Files \cup {"none"}, batch : Nat]]
      /\ job'[n] = [file |-> f, batch |-> 0] /\ \A t \in Ids \ {n} : job'[t] = job[t]
  <2> DEFINE j == [file |-> f, batch |-> 0]
  <2>1. j \in [file : Files \cup {"none"}, batch : Nat] /\ job' = [job EXCEPT ![n] = j]  BY <1>3, <1>8
  <2> HIDE DEF j
  <2>2. /\ job' \in [Ids -> [file : Files \cup {"none"}, batch : Nat]]
        /\ job'[n] = j /\ \A t \in Ids \ {n} : job'[t] = job[t]
    BY <2>1, <1>2, <1>7
  <2> QED  BY <2>2 DEF j
<1>10. /\ status' \in [Ids -> Statuses] /\ status'[n] = "Scanning"
       /\ \A t \in Ids \ {n} : status'[t] = IF FileOf(t) = f THEN "none" ELSE status[t]
  BY <1>2, <1>3, <1>7
<1>11. got' \in [Ids -> Nat] /\ got'[n] = Size[f] /\ \A t \in Ids \ {n} : got'[t] = got[t]
  BY <1>2, <1>3, <1>7
<1> QED  BY <1>u, <1>2, <1>5, <1>6, <1>9, <1>10, <1>11 DEF Extracting

\* done, the closed batches, are what completes a task; a batch without tasks is
\* among them once all its shards are there
Settled(done) ==
    /\ \A t \in Ids : status'[t] = "Completed" =>
          (job'[t] = job[t] /\ status[t] = "Completed") \/ job'[t].batch \in done
    /\ \A b \in batches : Forgotten(b) /\ (\A f \in Shards : Ready(f)) => b \in done
\* the recovered tasks are paused, shards nobody shows get a paused task, and
\* the batches that are then at rest with all their shards there are closed
Reconciled ==
    /\ job' \in [Ids -> [file : Files \cup {"none"}, batch : Nat]]
    /\ got' \in [Ids -> Nat] /\ rows' \in [Ids -> Int] /\ prio' \in [Ids -> 0 .. 1]
    /\ status' \in [Ids -> Statuses] /\ worker' \in [Workers -> WorkerRecord]
    /\ \A t \in Ids :
          /\ \/ job'[t] = job[t]
             \/ FileOf(t) = "none" /\ job'[t].file \in Shards /\ job'[t].batch \in batches
                /\ (\E f \in Shards : ~Ready(f)) /\ status'[t] \in {"Paused", "Completed"}
          /\ (job'[t].file \in Files /\ got'[t] <= Size[job'[t].file]) \/ (job'[t] = job[t] /\ got'[t] = got[t])
          /\ rows'[t] = NoRow \/ (job'[t] = job[t] /\ rows'[t] = rows[t])
             \/ (rows'[t] \in Nat /\ job'[t].file \in Files /\ rows'[t] <= Size[job'[t].file])
          /\ status'[t] \in {status[t], "Paused", "Completed"}
          /\ status'[t] # "none" => job'[t].file \in Files
    /\ \E done, moved :
          /\ Renamed(done, moved)
          /\ \A v \in Workers : Bystander(v, moved)
          /\ Settled(done)
    /\ \A b \in batches : \A f \in Shards :
          Ready(f) \/ \E t \in Ids : status'[t] # "none" /\ job'[t].file = f

LEMMA ReconcileDoes ==
    ASSUME Types, Census, Sized, NEW found \in SUBSET [t : Ids, off : Nat],
           \A r \in found : FileOf(r.t) \in Files /\ r.off <= SizeOf(r.t),
           Reconcile(found)
    PROVE  Reconciled
<1> DEFINE back == {r.t : r \in found}
           st1 == [t \in Ids |-> IF t \in back THEN "Paused" ELSE status[t]]
           covered(b, f) == \E t \in Ids :
               /\ st1[t] \in {"Queued", "Downloading", "Paused", "Completed"}
               /\ job[t] = [file |-> f, batch |-> b]
           orphans == {[file |-> f, batch |-> b] : f \in {g \in Shards : ~Ready(g)}, b \in batches}
           lost == {j \in orphans : ~covered(j.batch, j.file)}
           new == Named(lost)
           jb == [t \in Ids |-> IF t \in DOMAIN new THEN new[t] ELSE job[t]]
           st2 == [t \in Ids |-> IF t \in DOMAIN new THEN "Paused" ELSE st1[t]]
           rs == [t \in Ids |-> IF t \in DOMAIN new THEN Offset(new[t].file) ELSE rows[t]]
           claimed(t) == (CHOOSE r \in found : r.t = t).off
           done == Done(batches, st2, jb)
           moved == Moving(batches, st2, jb)
<1>1. /\ Fit(lost) /\ job' = jb /\ FinalizeBatches(batches, st2, jb, rs, worker)
      /\ got' = [t \in Ids |-> IF t \in DOMAIN new THEN Offset(new[t].file)
                               ELSE IF t \in back THEN claimed(t) ELSE got[t]]
      /\ prio' = [t \in Ids |-> IF t \in back THEN 1 ELSE prio[t]]
  BY DEF Reconcile
<1>2. /\ DOMAIN new \subseteq Ids /\ \A t \in DOMAIN new : FileOf(t) = "none" /\ new[t] \in lost
      /\ \A j \in lost : \E t \in DOMAIN new : new[t] = j
  <2>1. Fit(lost)  BY <1>1
  <2> HIDE DEF lost
  <2>2. /\ DOMAIN new \subseteq FreshIds
        /\ \A t \in DOMAIN new : new[t] \in lost
        /\ \A j \in lost : \E t \in DOMAIN new : new[t] = j
    BY <2>1, NamedJobs
  <2> HIDE DEF new
  <2> QED  BY <2>2 DEF FreshIds, FileOf
<1>3. /\ job \in [Ids -> [file : Files \cup {"none"}, batch : Nat]] /\ status \in [Ids -> Statuses]
      /\ got \in [Ids -> Nat] /\ rows \in [Ids -> Int] /\ prio \in [Ids -> 0 .. 1]
      /\ worker \in [Workers -> WorkerRecord] /\ "Paused" \in Statuses /\ batches \subseteq Nat
  BY DEF Types, Statuses, Census
<1>4. \A j \in lost : /\ j \in [file : Files, batch : Nat] /\ j.file \in Shards /\ j.batch \in batches
                      /\ ~Ready(j.file) /\ Offset(j.file) \in Nat /\ Offset(j.file) <= Size[j.file]
  <2>1. ASSUME NEW j \in lost
        PROVE  j \in [file : Files, batch : Nat] /\ j.file \in Shards /\ j.batch \in batches /\ ~Ready(j.file)
    BY <1>3, Facts
  <2>2. \A f \in Files : Len0(f) \in Nat /\ Len0(f) <= Size[f]  BY PartLength DEF Sized
  <2> QED  BY <2>1, <2>2, Facts DEF Offset
<1>5. \A t \in back : /\ t \in Ids /\ FileOf(t) \in Files /\ status[t] \in Statuses
                      /\ claimed(t) \in Nat /\ claimed(t) <= Size[FileOf(t)]
  <2>1. ASSUME NEW t \in back
        PROVE  /\ t \in Ids /\ FileOf(t) \in Files /\ claimed(t) \in Nat /\ claimed(t) <= SizeOf(t)
    <3> DEFINE c == CHOOSE r \in found : r.t = t
    <3>1. c \in found /\ c.t = t  OBVIOUS
    <3> HIDE DEF c
    <3>2. c.off \in Nat /\ c.t \in Ids /\ FileOf(t) \in Files /\ c.off <= SizeOf(t)  BY <3>1
    <3> QED  BY <3>1, <3>2 DEF c
  <2> QED  BY <2>1, <1>3 DEF SizeOf
<1>6. \A t \in DOMAIN new : t \notin back
  <2>1. \A t \in back : FileOf(t) \in Files  BY <1>5
  <2>2. \A t \in DOMAIN new : FileOf(t) = "none"  BY <1>2
  <2> HIDE DEF back, new
  <2> QED  BY <2>1, <2>2, Facts
<1>7. \A b, f : covered(b, f) => \E t \in Ids : st1[t] # "none" /\ FileOf(t) = f
  BY DEF FileOf
<1>8. \A f \in Shards, b \in batches : ~Ready(f) => covered(b, f) \/ [file |-> f, batch |-> b] \in lost
  OBVIOUS
<1>9. (\A f \in Shards : Ready(f)) => lost = {}  BY <1>4
<1> HIDE DEF new, lost, orphans, covered, claimed
<1>10. st2 \in [Ids -> Statuses] /\ rs \in [Ids -> Int]
       /\ jb \in [Ids -> [file : Files \cup {"none"}, batch : Nat]]
  BY <1>2, <1>3, <1>4
<1>11. \A t \in Ids :
          /\ jb[t] = IF t \in DOMAIN new THEN new[t] ELSE job[t]
          /\ rs[t] = IF t \in DOMAIN new THEN Offset(new[t].file) ELSE rows[t]
          /\ st2[t] = IF t \in DOMAIN new \/ t \in back THEN "Paused" ELSE status[t]
          /\ st1[t] # "none" => st2[t] # "none"
  OBVIOUS
<1> HIDE DEF jb, rs, st2, st1
<1>12. /\ batches' = batches \ done
       /\ final' \in [Files -> {"absent", "whole", "bad"}] /\ part' \in [Files -> Parts]
       /\ \A f \in moved : /\ final'[f] = (IF Whole(f) THEN "whole" ELSE "bad") /\ part'[f] = Absent
                           /\ f \in unvouched' \/ Vouched(done, f, st2, jb)
       /\ \A f \in Files \ moved : final'[f] = final[f] /\ part'[f] = part[f]
       /\ status' \in [Ids -> Statuses] /\ rows' \in [Ids -> Int]
       /\ \A t \in Ids : /\ status'[t] = IF st2[t] # "none" /\ jb[t].batch \in done THEN "Completed" ELSE st2[t]
                         /\ rows'[t] = IF st2[t] # "none" /\ jb[t].batch \in done THEN NoRow ELSE rs[t]
       /\ worker' \in [Workers -> WorkerRecord]
       /\ \A v \in Workers :
             IF worker[v].pc # "gone" /\ worker[v].on = "part" /\ jb[worker[v].t].file \in moved
             THEN /\ worker'[v].t = worker[v].t /\ worker'[v].pc = worker[v].pc
                  /\ worker'[v].off = worker[v].off /\ worker'[v].pos = worker[v].pos
                  /\ worker'[v].seen = worker[v].seen /\ worker'[v].on = "final"
             ELSE worker'[v] = worker[v]
       /\ unvouched \subseteq unvouched' /\ unvouched' \subseteq Shards
  BY <1>1, <1>3, <1>10, FinalizeDoes
<1>13. /\ done \subseteq batches
       /\ moved \subseteq {f \in Shards : final[f] = "absent" /\ Len0(f) = Size[f]}
       /\ done = {} => moved = {}
       /\ done # {} => \A f \in Shards : final[f] = "absent" => f \in moved
  BY Ready2
<1>14. \A b \in batches : ~InFlight(b, st2, jb) /\ (\A f \in Shards : Ready(f)) => b \in done
  BY DEF Done
<1>15. \A f : Vouched(done, f, st2, jb) => \E t \in Ids : status[t] = "Completed" /\ FileOf(t) = f
  BY <1>11 DEF Vouched, FileOf
<1> HIDE DEF done, moved
<1>16. Renamed(done, moved)  BY <1>12, <1>13, <1>15 DEF Renamed
<1>17. ASSUME NEW v \in Workers PROVE Bystander(v, moved)
  <2>1. worker[v].pc # "gone" => worker[v].t \in Ids /\ jb[worker[v].t].file = F(v)
    BY <1>2, <1>11, Facts DEF Census, Assigned, F, FileOf
  <2>2. CASE worker[v].pc # "gone" /\ worker[v].on = "part" /\ F(v) \in moved
    BY <1>12, <2>1, <2>2 DEF Bystander, Stays
  <2>3. CASE ~(worker[v].pc # "gone" /\ worker[v].on = "part" /\ F(v) \in moved)
    <3>1. worker'[v] = worker[v]  BY <1>12, <2>1, <2>3
    <3> QED  BY <3>1, <2>3 DEF Bystander, Stays, Writing
  <2> QED  BY <2>2, <2>3
<1>18. ASSUME NEW t \in Ids
       PROVE  /\ \/ job'[t] = job[t]
                 \/ FileOf(t) = "none" /\ job'[t].file \in Shards /\ job'[t].batch \in batches
                    /\ (\E f \in Shards : ~Ready(f)) /\ status'[t] \in {"Paused", "Completed"}
              /\ (job'[t].file \in Files /\ got'[t] <= Size[job'[t].file]) \/ (job'[t] = job[t] /\ got'[t] = got[t])
              /\ rows'[t] = NoRow \/ (job'[t] = job[t] /\ rows'[t] = rows[t])
                 \/ (rows'[t] \in Nat /\ job'[t].file \in Files /\ rows'[t] <= Size[job'[t].file])
              /\ status'[t] \in {status[t], "Paused", "Completed"}
              /\ status'[t] # "none" => job'[t].file \in Files
              /\ status'[t] = "Completed" => (job'[t] = job[t] /\ status[t] = "Completed") \/ job'[t].batch \in done
  <2>1. CASE t \in DOMAIN new
    <3>1. job'[t] = new[t] /\ got'[t] = Offset(new[t].file) /\ rs[t] = Offset(new[t].file) /\ st2[t] = "Paused"
          /\ FileOf(t) = "none" /\ jb[t] = new[t] /\ new[t] \in lost
      BY <1>1, <1>2, <1>11, <2>1
    <3>2. /\ new[t].file \in Shards /\ new[t].file \in Files /\ new[t].batch \in batches /\ ~Ready(new[t].file)
          /\ Offset(new[t].file) \in Nat /\ Offset(new[t].file) <= Size[new[t].file]
      BY <3>1, <1>4
    <3>3. /\ status'[t] = IF new[t].batch \in done THEN "Completed" ELSE "Paused"
          /\ rows'[t] = IF new[t].batch \in done THEN NoRow ELSE Offset(new[t].file)
      BY <3>1, <1>12
    <3> QED  BY <3>1, <3>2, <3>3
  <2>2. CASE t \notin DOMAIN new
    <3>1. job'[t] = job[t] /\ jb[t] = job[t] /\ rs[t] = rows[t]
          /\ got'[t] = (IF t \in back THEN claimed(t) ELSE got[t])
          /\ st2[t] = (IF t \in back THEN "Paused" ELSE status[t])
      BY <1>1, <1>11, <2>2
    <3>2. t \in back => claimed(t) <= Size[FileOf(t)] /\ FileOf(t) \in Files  BY <1>5
    <3>3. status[t] # "none" => FileOf(t) \in Files
      BY <1>3 DEF Census, Known, FileOf
    <3>4. /\ status'[t] = IF st2[t] # "none" /\ job[t].batch \in done THEN "Completed" ELSE st2[t]
          /\ rows'[t] = IF st2[t] # "none" /\ job[t].batch \in done THEN NoRow ELSE rows[t]
      BY <3>1, <1>12
    <3> QED  BY <3>1, <3>2, <3>3, <3>4 DEF FileOf
  <2> QED  BY <2>1, <2>2
<1>19. ASSUME NEW b \in batches, Forgotten(b), \A f \in Shards : Ready(f) PROVE b \in done
  <2>1. lost = {}  BY <1>9, <1>19
  <2>2. \A t \in Ids : t \notin DOMAIN new  BY <2>1, <1>2
  <2>3. \A t \in Ids : jb[t] = job[t]  BY <2>2, <1>11
  <2>4. \A t \in Ids : job[t].batch = b => st2[t] \in {"none", "Paused"} /\ (st2[t] = "Paused" => FileOf(t) \in Shards)
    <3>1. batches \subseteq Nat /\ 0 \notin batches  BY <1>3 DEF Census
    <3> QED  BY <2>2, <1>11, <1>19, <3>1 DEF Forgotten, Census, Known
  <2>5. ~InFlight(b, st2, jb)  BY <1>19, <2>3, <2>4 DEF InFlight, FileOf
  <2> QED  BY <2>5, <1>14, <1>19
<1>20. ASSUME NEW b \in batches, NEW f \in Shards, ~Ready(f)
       PROVE  \E t \in Ids : status'[t] # "none" /\ job'[t].file = f
  <2>1. \A t \in Ids : st2[t] # "none" => status'[t] # "none"  BY <1>12
  <2>2. CASE covered(b, f)
    <3>1. PICK t \in Ids : st1[t] # "none" /\ FileOf(t) = f  BY <1>7, <2>2
    <3>2. t \notin DOMAIN new  BY <3>1, <1>2, Facts
    <3> QED  BY <3>1, <3>2, <2>1, <1>1, <1>11 DEF FileOf
  <2>3. CASE [file |-> f, batch |-> b] \in lost
    <3>1. PICK t \in DOMAIN new : new[t] = [file |-> f, batch |-> b]  BY <1>2, <2>3
    <3>2. t \in Ids /\ job'[t] = [file |-> f, batch |-> b] /\ st2[t] = "Paused"  BY <3>1, <1>1, <1>2, <1>11
    <3> QED  BY <3>2, <2>1
  <2> QED  BY <2>2, <2>3, <1>8, <1>20
<1>21. /\ job' \in [Ids -> [file : Files \cup {"none"}, batch : Nat]] /\ prio' \in [Ids -> 0 .. 1]
  BY <1>1, <1>3, <1>10
<1>22. got' \in [Ids -> Nat]
  BY <1>1, <1>2, <1>3, <1>4, <1>5
<1>23. /\ Renamed(done, moved)
       /\ \A v \in Workers : Bystander(v, moved)
       /\ Settled(done)
  BY <1>16, <1>17, <1>18, <1>19 DEF Settled
<1> QED  BY <1>12, <1>18, <1>20, <1>21, <1>22, <1>23 DEF Reconciled

LEMMA FindSlotDoes ==
    ASSUME Types, NEW w \in Workers, FindSlot(w)
    PROVE  /\ Goes(w, "claim") /\ worker[w].pc = "wait"
           /\ UNCHANGED <<memory, disk, trash, spent, history>>
<1>1. Goto(w, "claim") /\ worker[w].pc = "wait"  BY DEF FindSlot
<1>2. "claim" \in Pcs  BY DEF Pcs
<1>u. UNCHANGED <<memory, disk, trash, spent, history>>  BY DEF FindSlot
<1> QED  BY <1>1, <1>2, <1>u, Went

LEMMA AnsweredDoes ==
    ASSUME Types, NEW w \in Workers, Answered(w)
    PROVE  /\ Goes(w, "stream") /\ worker[w].pc = "request"
           /\ UNCHANGED <<memory, disk, trash, spent, history>>
<1>1. Goto(w, "stream") /\ worker[w].pc = "request"  BY DEF Answered
<1>2. "stream" \in Pcs  BY DEF Pcs
<1>u. UNCHANGED <<memory, disk, trash, spent, history>>  BY DEF Answered
<1> QED  BY <1>1, <1>2, <1>u, Went

LEMMA TroubleDoes ==
    ASSUME Types, NEW w \in Workers, Trouble(w)
    PROVE  /\ Goes(w, "failing") /\ worker[w].pc \in {"open", "request", "stream"} /\ Spend("fault")
           /\ UNCHANGED <<memory, disk, trash, history>>
<1>1. Goto(w, "failing") /\ worker[w].pc \in {"open", "request", "stream"} /\ Spend("fault")  BY DEF Trouble
<1>2. "failing" \in Pcs  BY DEF Pcs
<1>u. UNCHANGED <<memory, disk, trash, history>>  BY DEF Trouble
<1> QED  BY <1>1, <1>2, <1>u, Went

LEMMA GiveUpDoes ==
    ASSUME Types, NEW w \in Workers, GiveUp(w)
    PROVE  /\ Others(w) /\ worker'[w] = Idle /\ worker[w].pc = "wait" /\ Stopped(worker[w].t)
           /\ UNCHANGED <<memory, disk, trash, spent, history>>
  BY Left DEF GiveUp

LEMMA StopAskedDoes ==
    ASSUME Types, NEW w \in Workers, StopAsked(w)
    PROVE  /\ Others(w) /\ worker'[w] = Idle /\ worker[w].pc = "stream" /\ Stopped(worker[w].t)
           /\ Flush(w)
           /\ UNCHANGED <<app, status, job, prio, batches, gathered, disk, trash, spent, history>>
  BY Left DEF StopAsked

LEMMA FailDoes ==
    ASSUME Types, NEW w \in Workers, Fail(w)
    PROVE  /\ worker[w].pc = "failing" /\ status' = [status EXCEPT ![worker[w].t] = "Failed"]
           /\ \/ Goes(w, "forget") /\ rows' = rows
              \/ Others(w) /\ worker'[w] = Idle /\ rows' = [rows EXCEPT ![worker[w].t] = got[worker[w].t]]
           /\ UNCHANGED <<app, job, got, prio, batches, gathered, part, final, trash, spent, history>>
<1>1. "forget" \in Pcs  BY DEF Pcs
<1>2. /\ worker[w].pc = "failing" /\ status' = [status EXCEPT ![worker[w].t] = "Failed"]
      /\ \/ Goto(w, "forget") /\ rows' = rows
         \/ Quit(w) /\ rows' = [rows EXCEPT ![worker[w].t] = got[worker[w].t]]
  BY DEF Fail
<1>u. UNCHANGED <<app, job, got, prio, batches, gathered, part, final, trash, spent, history>>  BY DEF Fail
<1> QED  BY <1>1, <1>2, <1>u, Went, Left

LEMMA CompleteDoes ==
    ASSUME Types, NEW w \in Workers, Complete(w)
    PROVE  /\ worker[w].pc = "complete"
           /\ \/ /\ status[worker[w].t] # "Downloading" /\ UNCHANGED <<status, rows>>
                 /\ Others(w) /\ worker'[w] = Idle
              \/ /\ status[worker[w].t] = "Downloading" /\ Others(w) /\ worker'[w] = Idle
                 /\ status' = [status EXCEPT ![worker[w].t] = "Failed"]
                 /\ rows' = [rows EXCEPT ![worker[w].t] = NoRow]
              \/ status[worker[w].t] = "Downloading" /\ Goes(w, "verify") /\ UNCHANGED <<status, rows>>
           /\ UNCHANGED <<app, job, got, prio, batches, gathered, part, final, trash, spent, history>>
<1>1. "verify" \in Pcs  BY DEF Pcs
<1>2. /\ worker[w].pc = "complete"
      /\ \/ status[worker[w].t] # "Downloading" /\ UNCHANGED <<status, rows>> /\ Quit(w)
         \/ /\ status[worker[w].t] = "Downloading" /\ Quit(w)
            /\ status' = [status EXCEPT ![worker[w].t] = "Failed"]
            /\ rows' = [rows EXCEPT ![worker[w].t] = NoRow]
         \/ status[worker[w].t] = "Downloading" /\ Goto(w, "verify") /\ UNCHANGED <<status, rows>>
  BY DEF Complete
<1>u. UNCHANGED <<app, job, got, prio, batches, gathered, part, final, trash, spent, history>>  BY DEF Complete
<1> QED  BY <1>1, <1>2, <1>u, Went, Left

LEMMA AcceptDoes ==
    ASSUME Types, NEW w \in Workers, Accept(w)
    PROVE  /\ worker[w].pc = "accept"
           /\ \/ F(w) \in Packs \ Providers /\ UNCHANGED status /\ Goes(w, "place")
              \/ status' = [status EXCEPT ![worker[w].t] = "Completed"] /\ Goes(w, "unrow")
           /\ UNCHANGED <<app, job, got, prio, batches, gathered, disk, trash, spent, history>>
<1>1. "place" \in Pcs /\ "unrow" \in Pcs  BY DEF Pcs
<1>2. /\ worker[w].pc = "accept"
      /\ \/ F(w) \in Packs \ Providers /\ UNCHANGED status /\ Goto(w, "place")
         \/ status' = [status EXCEPT ![worker[w].t] = "Completed"] /\ Goto(w, "unrow")
  BY DEF Accept, F
<1>u. UNCHANGED <<app, job, got, prio, batches, gathered, disk, trash, spent, history>>  BY DEF Accept
<1> QED  BY <1>1, <1>2, <1>u, Went

LEMMA ExtractedDoes ==
    ASSUME Types, NEW w \in Workers, NEW ok \in BOOLEAN, ExtractArchive(w, ok) \/ ActivateProvider(w, ok)
    PROVE  /\ worker[w].pc = "extract" /\ Others(w) /\ worker'[w] = Idle
           /\ status' = [status EXCEPT ![worker[w].t] = IF ok THEN "Completed" ELSE "Failed"]
           /\ spent' = spent \/ Spend("fault")
           /\ rows' = rows \/ rows' = [rows EXCEPT ![worker[w].t] = got[worker[w].t]]
           /\ UNCHANGED <<app, job, got, prio, batches, gathered, part, final, trash, history>>
  BY Left DEF ExtractArchive, ActivateProvider, Extracted

LEMMA EnqueueDoes ==
    ASSUME Types, NEW f \in Files, f \notin Shards, Enqueue(f)
    PROVE  /\ Added({[file |-> f, batch |-> 0]}) /\ Spend("start")
           /\ UNCHANGED <<app, prio, batches, gathered, part, final, trash, history>>
<1>1. {[file |-> f, batch |-> 0]} \in SUBSET [file : Files, batch : Nat]  OBVIOUS
<1>2. Create({[file |-> f, batch |-> 0]})  BY DEF Enqueue
<1>u. Spend("start") /\ UNCHANGED <<app, prio, batches, gathered, part, final, trash, history>>  BY DEF Enqueue
<1> QED  BY <1>1, <1>2, <1>u, CreateDoes

LEMMA StartQuantDoes ==
    ASSUME Types, StartQuant
    PROVE  LET jobs == {[file |-> f, batch |-> spent["start"] + 1] :
                            f \in {g \in Shards : final[g] = "absent" /\ ~HasActiveTask(g)}} IN
           /\ Added(jobs) /\ Spend("start") /\ batches' = batches \cup {spent["start"] + 1}
           /\ UNCHANGED <<app, prio, gathered, part, final, trash, history>>
<1> DEFINE b == spent["start"] + 1
           todo == {g \in Shards : final[g] = "absent" /\ ~HasActiveTask(g)}
           jobs == {[file |-> f, batch |-> b] : f \in todo}
<1>1. Create(jobs) /\ batches' = batches \cup {b}  BY DEF StartQuant
<1>2. b \in Nat  BY DEF Types, Kinds
<1>3. todo \subseteq Files  BY Facts
<1>4. jobs \in SUBSET [file : Files, batch : Nat]
  <2> HIDE DEF b, todo
  <2> QED  BY <1>2, <1>3
<1>u. Spend("start") /\ UNCHANGED <<app, prio, gathered, part, final, trash, history>>  BY DEF StartQuant
<1> HIDE DEF jobs
<1>5. Added(jobs)  BY <1>1, <1>4, CreateDoes
<1> QED  BY <1>1, <1>5, <1>u DEF jobs

LEMMA CancelDoes ==
    ASSUME Types, Census, NEW t \in Ids, Cancel(t)
    PROVE  /\ Spend("cancel") /\ batches' \subseteq batches /\ trash' \subseteq Files
           /\ \E hit \in SUBSET Ids :
                 /\ \A u \in hit : status[u] # "none"
                 /\ status' = [u \in Ids |-> IF u \in hit THEN "Failed" ELSE status[u]]
                 /\ rows' = [u \in Ids |-> IF u \in hit THEN NoRow ELSE rows[u]]
           /\ UNCHANGED <<app, job, got, prio, worker, gathered, part, final, history>>
<1> DEFINE b == job[t].batch
           hit == IF b = 0 THEN {t} ELSE {u \in Ids : status[u] # "none" /\ job[u].batch = b}
<1>1. /\ status[t] # "none" /\ Spend("cancel") /\ batches' = batches \ {b}
      /\ status' = [u \in Ids |-> IF u \in hit THEN "Failed" ELSE status[u]]
      /\ rows' = [u \in Ids |-> IF u \in hit THEN NoRow ELSE rows[u]]
      /\ trash' = trash \cup {FileOf(u) : u \in hit} \cup (IF b \in batches THEN Shards ELSE {})
  BY DEF Cancel
<1>2. hit \in SUBSET Ids /\ \A u \in hit : status[u] # "none"  BY <1>1
<1>3. \A u \in hit : FileOf(u) \in Files  BY <1>2 DEF Census, Known, FileOf, Types
<1>u. UNCHANGED <<app, job, got, prio, worker, gathered, part, final, history>>  BY DEF Cancel
<1> HIDE DEF b, hit
<1>4. trash' \subseteq Files  BY <1>1, <1>3, Facts DEF Types
<1> QED  BY <1>1, <1>2, <1>4, <1>u

LEMMA RestartingDoes ==
    ASSUME Types, Restart \/ (\E b \in batches : \E some \in SUBSET Shards : RestartRenaming(b, some))
    PROVE  /\ app' = "starting" /\ Spend("crash")
           /\ status' = [t \in Ids |-> "none"] /\ got' = [t \in Ids |-> 0]
           /\ prio' = [t \in Ids |-> 1] /\ gathered' = {} /\ trash' = {}
           /\ worker' \in [Workers -> WorkerRecord] /\ \A w \in Workers : worker'[w] = Idle
           /\ UNCHANGED <<job, batches, rows, shared>>
<1>1. worker' = [w \in Workers |-> Idle] => worker' \in [Workers -> WorkerRecord] /\ \A w \in Workers : worker'[w] = Idle
  BY IdleTyped
<1>2. CASE Restart  BY <1>1, <1>2 DEF Restart, history, Workers
<1>3. ASSUME NEW b, NEW some, RestartRenaming(b, some)
      PROVE  /\ app' = "starting" /\ Spend("crash")
             /\ status' = [t \in Ids |-> "none"] /\ got' = [t \in Ids |-> 0]
             /\ prio' = [t \in Ids |-> 1] /\ gathered' = {} /\ trash' = {}
             /\ worker' = [w \in Workers |-> Idle]
             /\ UNCHANGED <<job, batches, rows, shared>>
  BY <1>3 DEF RestartRenaming, Workers
<1> QED  BY <1>1, <1>2, <1>3

\* a death between two renames leaves some of a batch at rest renamed
LEMMA RenamingDoes ==
    ASSUME Types, NEW b \in batches, NEW some \in SUBSET Shards, RestartRenaming(b, some)
    PROVE  /\ \A f \in Shards : Ready(f)
           /\ \A f \in some : /\ final[f] = "absent" /\ Len0(f) = Size[f]
                              /\ final'[f] = (IF Whole(f) THEN "whole" ELSE "bad") /\ part'[f] = Absent
                              /\ f \in unvouched' \/ \E t \in Ids : status[t] = "Completed" /\ FileOf(t) = f
           /\ \A f \in Files \ some : final'[f] = final[f] /\ part'[f] = part[f]
           /\ final' \in [Files -> {"absent", "whole", "bad"}] /\ part' \in [Files -> Parts]
           /\ unvouched \subseteq unvouched' /\ unvouched' \subseteq Shards
<1>1. /\ some \subseteq {f \in Shards : final[f] = "absent"} /\ \A f \in Shards : Ready(f)
      /\ final' = [f \in Files |-> IF f \notin some THEN final[f]
                                   ELSE IF Whole(f) THEN "whole" ELSE "bad"]
      /\ part' = [f \in Files |-> IF f \in some THEN Absent ELSE part[f]]
      /\ unvouched' = unvouched \cup {f \in some : ~Vouched({b}, f, status, job)}
  BY DEF RestartRenaming
<1>2. \A f : Vouched({b}, f, status, job) => \E t \in Ids : status[t] = "Completed" /\ FileOf(t) = f
  BY DEF Vouched, FileOf
<1>3. /\ Absent \in Parts /\ part \in [Files -> Parts] /\ final \in [Files -> {"absent", "whole", "bad"}]
      /\ unvouched \subseteq Shards
  BY DEF Types, Parts
<1>4. \A f \in some : /\ final[f] = "absent" /\ Len0(f) = Size[f]
                      /\ final'[f] = (IF Whole(f) THEN "whole" ELSE "bad") /\ part'[f] = Absent
                      /\ f \in unvouched' \/ \E t \in Ids : status[t] = "Completed" /\ FileOf(t) = f
  BY <1>1, <1>2, Facts DEF Ready
<1>5. \A f \in Files \ some : final'[f] = final[f] /\ part'[f] = part[f]  BY <1>1
<1>6. final' \in [Files -> {"absent", "whole", "bad"}] /\ part' \in [Files -> Parts]  BY <1>1, <1>3
<1>7. unvouched \subseteq unvouched' /\ unvouched' \subseteq Shards  BY <1>1, <1>3
<1> QED  BY <1>1, <1>4, <1>5, <1>6, <1>7

LEMMA GatherDoes ==
    ASSUME Types, Census, Sized, Gather
    PROVE  /\ app = "starting" /\ app' = "gathered" /\ gathered' \subseteq [t : Ids, off : Nat]
           /\ \A r \in gathered' : FileOf(r.t) \in Files /\ r.off <= SizeOf(r.t)
           /\ UNCHANGED <<status, job, got, prio, batches, worker, disk, trash, spent, history>>
<1>1. ASSUME NEW r \in gathered'
      PROVE  r \in [t : Ids, off : Nat] /\ FileOf(r.t) \in Files /\ r.off <= SizeOf(r.t)
  <2>1. PICK t \in Ids : rows[t] # NoRow /\ r = [t |-> t, off |-> Offset(FileOf(t))]  BY <1>1 DEF Gather
  <2>2. FileOf(t) \in Files  BY <2>1 DEF Census, Known, Types, FileOf
  <2>3. Offset(FileOf(t)) \in Nat /\ Offset(FileOf(t)) <= SizeOf(t)
    BY <2>2, PartLength DEF Sized, SizeOf, Offset
  <2> QED  BY <2>1, <2>2, <2>3
<1>u. /\ app = "starting" /\ app' = "gathered"
      /\ UNCHANGED <<status, job, got, prio, batches, worker, disk, trash, spent, history>>  BY DEF Gather
<1> QED  BY <1>1, <1>u

\* both ways into the reconciliation
LEMMA RecoveringDoes ==
    ASSUME Types, Census, Sized, RecoverCommand \/ Recover
    PROVE  /\ Reconciled
           /\ \/ Spend("recover") /\ UNCHANGED <<app, gathered>>
              \/ app # "up" /\ app' = "up" /\ gathered' = {} /\ spent' = spent
           /\ UNCHANGED <<trash, shared>>
<1>1. CASE RecoverCommand
  <2>1. Reconcile({})  BY <1>1 DEF RecoverCommand
  <2>2. {} \in SUBSET [t : Ids, off : Nat]  OBVIOUS
  <2>3. Reconciled  BY <2>1, <2>2, ReconcileDoes
  <2> QED  BY <1>1, <2>3 DEF RecoverCommand
<1>2. CASE Recover
  <2>1. Reconcile(gathered)  BY <1>2 DEF Recover
  <2>2. gathered \in SUBSET [t : Ids, off : Nat] /\ \A r \in gathered : FileOf(r.t) \in Files /\ r.off <= SizeOf(r.t)
    BY DEF Types, Census, Sized
  <2>3. Reconciled  BY <2>1, <2>2, ReconcileDoes
  <2> QED  BY <1>2, <2>3 DEF Recover
<1> QED  BY <1>1, <1>2

\* the steps of the model, one by one
LEMMA Steps ==
    ASSUME Next
    PROVE
        \/ \E f \in Files : f \notin Shards /\ Enqueue(f)
        \/ \E f \in Files : Reextract(f)
        \/ \E f \in Files : EmptyTrash(f)
        \/ \E t \in Ids : Pause(t)
        \/ \E t \in Ids : Resume(t)
        \/ \E t \in Ids : Cancel(t)
        \/ \E t \in Ids : \E p \in 0 .. 1 : Reprioritize(t, p)
        \/ StartQuant
        \/ RecoverCommand \/ Recover
        \/ Restart
        \/ \E b \in batches : \E some \in SUBSET Shards : RestartRenaming(b, some)
        \/ Gather
        \/ \E w \in Workers : FindSlot(w)
        \/ \E w \in Workers : GiveUp(w)
        \/ \E w \in Workers : Claim(w)
        \/ \E w \in Workers : Open(w)
        \/ \E w \in Workers : Answered(w)
        \/ \E w \in Workers : AnsweredWhole(w)
        \/ \E w \in Workers : StopAsked(w)
        \/ \E w \in Workers : Tick(w)
        \/ \E w \in Workers : \E c \in Chunks : Chunk(w, c)
        \/ \E w \in Workers : StreamEnds(w)
        \/ \E w \in Workers : Trouble(w)
        \/ \E w \in Workers : Fail(w)
        \/ \E w \in Workers : LoadRows(w)
        \/ \E w \in Workers : SaveRows(w)
        \/ \E w \in Workers : Complete(w)
        \/ \E w \in Workers : Verify(w)
        \/ \E w \in Workers : Accept(w)
        \/ \E w \in Workers : PlaceShard(w)
        \/ \E w \in Workers : PlaceFile(w)
        \/ \E w \in Workers : \E ok \in BOOLEAN : ExtractArchive(w, ok) \/ ActivateProvider(w, ok)
<1>1. ASSUME NEW f \in Files, StartModel(f) \/ StartArchive(f) \/ StartProvider(f)
      PROVE  f \notin Shards /\ Enqueue(f)
  BY <1>1, Facts DEF StartModel, StartArchive, StartProvider
<1>3. ASSUME NEW w \in Workers, Step(w)
      PROVE
        \/ FindSlot(w)
        \/ GiveUp(w)
        \/ Claim(w)
        \/ Open(w)
        \/ Answered(w)
        \/ AnsweredWhole(w)
        \/ StopAsked(w)
        \/ Tick(w)
        \/ \E c \in Chunks : Chunk(w, c)
        \/ StreamEnds(w)
        \/ Trouble(w)
        \/ Fail(w)
        \/ LoadRows(w)
        \/ SaveRows(w)
        \/ Complete(w)
        \/ Verify(w)
        \/ Accept(w)
        \/ PlaceShard(w)
        \/ PlaceFile(w)
        \/ \E ok \in BOOLEAN : ExtractArchive(w, ok) \/ ActivateProvider(w, ok)
  <2>1. "ok" \in Chunks /\ "bad" \in Chunks  BY DEF Chunks
  <2> QED  BY <1>3, <2>1 DEF Step
<1>4. CASE User  BY <1>1, <1>4 DEF User
<1>5. CASE \E w \in Workers : Step(w)  BY <1>3, <1>5
<1> QED  BY <1>4, <1>5 DEF Next, Workers

LEMMA TypesKept ==
    ASSUME Basis, Next
    PROVE  Types'
<1>a. Types /\ Census /\ Sized /\ (\A w \in Workers : Assigned(w)) /\ \A t \in Ids : Known(t)
  BY DEF Basis, Census
<1>s. \A k \in {"start", "pause", "cancel", "crash", "fault", "bump", "recover"} :
          Spend(k) => spent' \in [Kinds -> Nat]
  BY <1>a, SpentOnce DEF Kinds
<1>c. \A st \in {"none", "Queued", "Downloading", "Paused", "Scanning", "Completed", "Failed"} : st \in Statuses
  BY DEF Statuses
<1>g. \A w \in Workers : worker[w].pc = "stream" /\ Flush(w) => got' \in [Ids -> Nat]
  BY <1>a, FlushDoes DEF Assigned
<1>n. \A f \in Files : Len0(f) \in Nat /\ Size[f] \in Nat  BY <1>a, PartLength, Facts
<1>Enqueue. ASSUME NEW f \in Files, f \notin Shards, Enqueue(f)
             PROVE  Types'
  <2>1. PICK jobs : Added(jobs)  BY <1>Enqueue, <1>a, EnqueueDoes
  <2>2. spent' \in [Kinds -> Nat]  BY <1>Enqueue, <1>a, <1>s, EnqueueDoes
  <2>3. UNCHANGED <<app, prio, gathered, part, final, trash, history>>  BY <1>Enqueue, <1>a, EnqueueDoes
  <2> QED  BY <2>1, <2>2, <2>3, <1>a DEF Types, Added, history
<1>Reextract. ASSUME NEW f \in Files, Reextract(f)
               PROVE  Types'
  <2>1. PICK x \in Ids, v \in Workers : Extracting(f, x, v)  BY <1>Reextract, <1>a, ReextractDoes
  <2>2. Spend("start") /\ UNCHANGED <<app, prio, batches, rows, gathered, part, final, trash, history>>
    BY <1>Reextract, <1>a, ReextractDoes
  <2> QED  BY <2>1, <2>2, <1>a, <1>s DEF Types, Extracting, Others, history
<1>EmptyTrash. ASSUME NEW f \in Files, EmptyTrash(f)
                PROVE  Types'
  BY <1>EmptyTrash, <1>a, EmptyTrashDoes DEF Types, memory, disk, history
<1>Pause. ASSUME NEW t \in Ids, Pause(t)
           PROVE  Types'
  BY <1>Pause, <1>a, <1>s, <1>c DEF Types, Pause, memory, disk, history
<1>Resume. ASSUME NEW t \in Ids, Resume(t)
            PROVE  Types'
  <2>1. status' \in [Ids -> Statuses]
    <3>1. status' = [status EXCEPT ![t] = "Queued"]  BY <1>Resume DEF Resume
    <3> QED  BY <3>1, <1>a, <1>c DEF Types
  <2>2. got' \in [Ids -> Nat] /\ rows' \in [Ids -> Int] /\ worker' \in [Workers -> WorkerRecord]
    BY <1>Resume, <1>a, ResumeDoes
  <2>3. UNCHANGED <<app, job, prio, gathered, part, final, trash, spent, history>>  BY <1>Resume DEF Resume
  <2> QED  BY <2>1, <2>2, <2>3, <1>a DEF Types, history
<1>Cancel. ASSUME NEW t \in Ids, Cancel(t)
            PROVE  Types'
  <2>1. PICK hit \in SUBSET Ids :
                 /\ status' = [u \in Ids |-> IF u \in hit THEN "Failed" ELSE status[u]]
                 /\ rows' = [u \in Ids |-> IF u \in hit THEN NoRow ELSE rows[u]]
    BY <1>Cancel, <1>a, CancelDoes
  <2>2. NoRow \in Int  BY DEF NoRow
  <2>3. status' \in [Ids -> Statuses] /\ rows' \in [Ids -> Int]  BY <2>1, <2>2, <1>a, <1>c DEF Types
  <2> QED  BY <2>3, <1>Cancel, <1>a, <1>s, CancelDoes DEF Types, history
<1>Reprioritize. ASSUME NEW t \in Ids, NEW p \in 0 .. 1, Reprioritize(t, p)
                  PROVE  Types'
  BY <1>Reprioritize, <1>a, <1>s DEF Types, Reprioritize, memory, disk, history
<1>StartQuant. ASSUME StartQuant
                PROVE  Types'
  <2>1. PICK jobs : Added(jobs)  BY <1>StartQuant, <1>a, StartQuantDoes
  <2>2. spent' \in [Kinds -> Nat]  BY <1>StartQuant, <1>a, <1>s, StartQuantDoes
  <2>3. UNCHANGED <<app, prio, gathered, part, final, trash, history>>  BY <1>StartQuant, <1>a, StartQuantDoes
  <2> QED  BY <2>1, <2>2, <2>3, <1>a DEF Types, Added, history
<1>Recovering. ASSUME RecoverCommand \/ Recover
                PROVE  Types'
  BY <1>Recovering, <1>a, RecoveringDoes, <1>s, <1>c DEF Types, Reconciled, Renamed, memory, disk, history
<1>Restart. ASSUME Restart
             PROVE  Types'
  <2>1. 0 \in Nat /\ 1 \in 0 .. 1  OBVIOUS
  <2> QED  BY <2>1, <1>Restart, <1>a, <1>s, <1>c, RestartingDoes DEF Types, Restart, history
<1>Renaming. ASSUME NEW b \in batches, NEW some \in SUBSET Shards, RestartRenaming(b, some)
              PROVE  Types'
  BY <1>Renaming, <1>a, RestartingDoes, RenamingDoes, <1>s, <1>c DEF Types, memory, disk, history
<1>Gather. ASSUME Gather
            PROVE  Types'
  BY <1>Gather, <1>a, GatherDoes DEF Types, memory, disk, history
<1>FindSlot. ASSUME NEW w \in Workers, FindSlot(w)
              PROVE  Types'
  BY <1>FindSlot, <1>a, FindSlotDoes DEF Types, Goes, Others, memory, disk, history
<1>GiveUp. ASSUME NEW w \in Workers, GiveUp(w)
            PROVE  Types'
  BY <1>GiveUp, <1>a, GiveUpDoes DEF Types, Goes, Others, memory, disk, history
<1>Claim. ASSUME NEW w \in Workers, Claim(w)
           PROVE  Types'
  <2>1. \/ status' = [status EXCEPT ![worker[w].t] = "Downloading"] /\ got' = [got EXCEPT ![worker[w].t] = Len0(F(w))]
        \/ UNCHANGED <<status, got>>
    BY <1>Claim, <1>a, ClaimDoes
  <2>2. Len0(F(w)) \in Nat  BY <1>Claim, <1>a, <1>n, ClaimDoes
  <2>3. status' \in [Ids -> Statuses] /\ got' \in [Ids -> Nat]  BY <2>1, <2>2, <1>a, <1>c DEF Types
  <2>4. worker' \in [Workers -> WorkerRecord]  BY <1>Claim, <1>a, ClaimDoes DEF Others
  <2>5. UNCHANGED <<app, job, prio, batches, gathered, disk, trash, spent, unvouched>>
    BY <1>Claim, <1>a, ClaimDoes
  <2> QED  BY <2>3, <2>4, <2>5, <1>a DEF Types, disk
<1>Open. ASSUME NEW w \in Workers, Open(w)
          PROVE  Types'
  BY <1>Open, <1>a, OpenDoes DEF Types, Goes, Others, memory, disk, history
<1>Answered. ASSUME NEW w \in Workers, Answered(w)
              PROVE  Types'
  BY <1>Answered, <1>a, AnsweredDoes DEF Types, Goes, Others, memory, disk, history
<1>AnsweredWhole. ASSUME NEW w \in Workers, AnsweredWhole(w)
                   PROVE  Types'
  BY <1>AnsweredWhole, <1>a, AnsweredWholeDoes, <1>s, <1>n DEF Types, AnsweredWhole, Goes, Others, memory, disk, history
<1>StopAsked. ASSUME NEW w \in Workers, StopAsked(w)
               PROVE  Types'
  BY <1>StopAsked, <1>a, StopAskedDoes, <1>g DEF Types, Goes, Others, memory, disk, history
<1>Tick. ASSUME NEW w \in Workers, Tick(w)
          PROVE  Types'
  BY <1>Tick, <1>a, TickDoes, <1>g DEF Types, Tick, Goes, Others, memory, disk, history
<1>Chunk. ASSUME NEW w \in Workers, NEW c \in Chunks, Chunk(w, c)
           PROVE  Types'
  BY <1>Chunk, <1>a, ChunkDoes, <1>s DEF Types, Chunk, Goes, Others, memory, disk, history
<1>StreamEnds. ASSUME NEW w \in Workers, StreamEnds(w)
                PROVE  Types'
  BY <1>StreamEnds, <1>a, StreamEndsDoes, <1>g DEF Types, StreamEnds, Goes, Others, memory, disk, history
<1>Trouble. ASSUME NEW w \in Workers, Trouble(w)
             PROVE  Types'
  BY <1>Trouble, <1>a, TroubleDoes, <1>s DEF Types, Goes, Others, memory, disk, history
<1>Fail. ASSUME NEW w \in Workers, Fail(w)
          PROVE  Types'
  BY <1>Fail, <1>a, FailDoes, <1>c DEF Types, Goes, Others, memory, disk, history
<1>LoadRows. ASSUME NEW w \in Workers, LoadRows(w)
              PROVE  Types'
  BY <1>LoadRows, <1>a, LoadRowsDoes DEF Types, Goes, Others, memory, disk, history
<1>SaveRows. ASSUME NEW w \in Workers, SaveRows(w)
              PROVE  Types'
  <2>1. worker[w].seen \in [Ids -> Int] /\ rows' = [worker[w].seen EXCEPT ![worker[w].t] = NoRow]
    BY <1>SaveRows, <1>a, SaveRowsDoes
  <2>2. NoRow \in Int  BY DEF NoRow
  <2>3. rows' \in [Ids -> Int]  BY <2>1, <2>2
  <2> QED  BY <2>3, <1>SaveRows, <1>a, SaveRowsDoes DEF Types, Others, memory, history
<1>Complete. ASSUME NEW w \in Workers, Complete(w)
              PROVE  Types'
  <2>1. NoRow \in Int  BY DEF NoRow
  <2>2. status' \in [Ids -> Statuses] /\ rows' \in [Ids -> Int]
    BY <2>1, <1>Complete, <1>a, <1>c, CompleteDoes DEF Types
  <2> QED  BY <2>2, <1>Complete, <1>a, CompleteDoes DEF Types, Goes, Others, history
<1>Verify. ASSUME NEW w \in Workers, Verify(w)
            PROVE  Types'
  BY <1>Verify, <1>a, VerifyDoes DEF Types, Goes, Others, memory, disk, history
<1>Accept. ASSUME NEW w \in Workers, Accept(w)
            PROVE  Types'
  BY <1>Accept, <1>a, AcceptDoes, <1>c DEF Types, Goes, Others, memory, disk, history
<1>PlaceShard. ASSUME NEW w \in Workers, PlaceShard(w)
                PROVE  Types'
  BY <1>PlaceShard, <1>a, PlaceShardDoes, <1>c DEF Types, Renamed, memory, disk, history
<1>PlaceFile. ASSUME NEW w \in Workers, PlaceFile(w)
               PROVE  Types'
  <2>1. PICK st \in Statuses, x \in {"absent", "whole", "bad"} :
            status' = [status EXCEPT ![worker[w].t] = st] /\ final' = [final EXCEPT ![F(w)] = x]
    <3>1. worker[w].t \in Ids => status[worker[w].t] \in Statuses  BY <1>a DEF Types
    <3> DEFINE st == IF part[F(w)] = Absent THEN "Failed"
                     ELSE IF F(w) \in Packs THEN "Scanning" ELSE status[worker[w].t]
               x == IF part[F(w)] = Absent THEN "absent" ELSE IF Whole(F(w)) THEN "whole" ELSE "bad"
    <3>2. st \in Statuses /\ x \in {"absent", "whole", "bad"}
      BY <3>1, <1>PlaceFile, <1>a, <1>c, PlaceFileDoes
    <3>3. status' = [status EXCEPT ![worker[w].t] = st] /\ final' = [final EXCEPT ![F(w)] = x]
      BY <1>PlaceFile, <1>a, PlaceFileDoes
    <3> HIDE DEF st, x
    <3> QED  BY <3>2, <3>3
  <2>2. status' \in [Ids -> Statuses] /\ final' \in [Files -> {"absent", "whole", "bad"}]
    BY <2>1, <1>a DEF Types
  <2> QED  BY <2>2, <1>PlaceFile, <1>a, PlaceFileDoes DEF Types, history
<1>Extracted. ASSUME NEW w \in Workers, NEW ok \in BOOLEAN, ExtractArchive(w, ok) \/ ActivateProvider(w, ok)
               PROVE  Types'
  <2>1. status' \in [Ids -> Statuses] /\ rows' \in [Ids -> Int] /\ spent' \in [Kinds -> Nat]
    <3>1. PICK st \in Statuses : status' = [status EXCEPT ![worker[w].t] = st]
      BY <1>Extracted, <1>a, <1>c, ExtractedDoes
    <3>2. PICK n \in Int : rows' = rows \/ rows' = [rows EXCEPT ![worker[w].t] = n]
      <4>1. worker[w].t \in Ids  BY <1>Extracted, <1>a, ExtractedDoes DEF Assigned
      <4> QED  BY <4>1, <1>Extracted, <1>a, ExtractedDoes DEF Types
    <3>3. spent' \in [Kinds -> Nat]  BY <1>Extracted, <1>a, <1>s, ExtractedDoes DEF Types
    <3> QED  BY <3>1, <3>2, <3>3, <1>a DEF Types
  <2>2. worker' \in [Workers -> WorkerRecord] /\ UNCHANGED <<app, job, got, prio, gathered, part, final, trash, history>>
    BY <1>Extracted, <1>a, ExtractedDoes DEF Others
  <2> QED  BY <2>1, <2>2, <1>a DEF Types, history
<1> QED
   BY <1>Enqueue, <1>Reextract, <1>EmptyTrash, <1>Pause, <1>Resume, <1>Cancel, <1>Reprioritize,
      <1>StartQuant, <1>Recovering, <1>Restart, <1>Renaming, <1>Gather, <1>FindSlot, <1>GiveUp,
      <1>Claim, <1>Open, <1>Answered, <1>AnsweredWhole, <1>StopAsked, <1>Tick, <1>Chunk,
      <1>StreamEnds, <1>Trouble, <1>Fail, <1>LoadRows, <1>SaveRows, <1>Complete, <1>Verify,
      <1>Accept, <1>PlaceShard, <1>PlaceFile, <1>Extracted, Steps

(***************************************************************************)
(* The inductive invariant: who is there.                                  *)
(***************************************************************************)
\* how a step may change a task and a worker
JobStep(t) ==
    \/ job'[t] = job[t]
    \/ /\ FileOf(t) = "none" /\ job'[t].file \in Files
       /\ job'[t].batch # 0 <=> job'[t].file \in Shards
TaskStep(t) ==
    /\ status'[t] # "none" => status[t] # "none" \/ job'[t].file \in Files
    /\ rows'[t] # NoRow => rows[t] # NoRow \/ job'[t].file \in Files
WorkerStep(v) ==
    \/ worker'[v] = Idle
    \/ /\ worker[v].pc # "gone" /\ worker'[v].pc # "gone" /\ worker'[v].t = worker[v].t
       /\ F(v) \in Shards /\ status[worker[v].t] # "none" => status'[worker[v].t] # "none"
    \/ /\ worker'[v].pc # "gone" /\ worker'[v].t \in Ids
       /\ job'[worker'[v].t].file \in Files /\ status'[worker'[v].t] # "none"
Counted == (\A t \in Ids : JobStep(t) /\ TaskStep(t)) /\ \A v \in Workers : WorkerStep(v)

LEMMA CountedKeeps ==
    ASSUME Types, \A v \in Workers : Assigned(v), \A t \in Ids : Known(t), Counted
    PROVE  (\A v \in Workers : Assigned(v)') /\ \A t \in Ids : Known(t)'
<1>1. ASSUME NEW t \in Ids PROVE Known(t)'
  <2>1. JobStep(t) /\ TaskStep(t) /\ Known(t)  BY DEF Counted
  <2>2. CASE job'[t] = job[t]
    BY <2>1, <2>2, Facts DEF Known, TaskStep, FileOf
  <2>3. CASE job'[t] # job[t]
    BY <2>1, <2>3, Facts DEF Known, TaskStep, JobStep, FileOf
  <2> QED  BY <2>2, <2>3
<1>2. ASSUME NEW v \in Workers PROVE Assigned(v)'
  <2>1. WorkerStep(v) /\ Assigned(v)  BY DEF Counted
  <2>2. CASE worker'[v] = Idle  BY <2>2, IdleTyped DEF Assigned
  <2>3. CASE /\ worker[v].pc # "gone" /\ worker'[v].pc # "gone" /\ worker'[v].t = worker[v].t
             /\ F(v) \in Shards /\ status[worker[v].t] # "none" => status'[worker[v].t] # "none"
    <3>1. worker[v].t \in Ids /\ F(v) \in Files  BY <2>1, <2>3 DEF Assigned
    <3>2. JobStep(worker[v].t)  BY <3>1 DEF Counted
    <3>3. job'[worker[v].t] = job[worker[v].t]  BY <3>1, <3>2, Facts DEF JobStep, F
    <3> QED  BY <2>1, <2>3, <3>1, <3>3 DEF Assigned, F, FileOf
  <2>4. CASE /\ worker'[v].pc # "gone" /\ worker'[v].t \in Ids
             /\ job'[worker'[v].t].file \in Files /\ status'[worker'[v].t] # "none"
    BY <2>4 DEF Assigned, F, FileOf
  <2> QED  BY <2>1, <2>2, <2>3, <2>4 DEF WorkerStep
<1> QED  BY <1>1, <1>2

LEMMA CountedSteps ==
    ASSUME Basis, Next
    PROVE  Counted
<1>a. Types /\ Census /\ Sized /\ (\A v \in Workers : Assigned(v)) /\ \A u \in Ids : Known(u)
  BY DEF Basis, Census
<1>j. job \in [Ids -> [file : Files \cup {"none"}, batch : Nat]] /\ status \in [Ids -> Statuses]
      /\ rows \in [Ids -> Int] /\ worker \in [Workers -> WorkerRecord]
  BY <1>a DEF Types
<1>b. 0 \notin batches  BY <1>a DEF Census
<1>i. Idle.pc = "gone"  BY IdleTyped
<1>f. \A u \in Ids : status[u] # "none" => FileOf(u) \in Files
  BY <1>a, <1>j DEF Known, FileOf
<1>w. \A v \in Workers : worker[v].pc # "gone" => worker[v].t \in Ids /\ F(v) \in Files /\ job[worker[v].t].file \in Files
  BY <1>a DEF Assigned, F, FileOf
<1>o. \A v \in Workers : worker'[v] = worker[v] /\ (worker[v].pc # "gone" => status'[worker[v].t] = status[worker[v].t]
                                                 \/ F(v) \notin Shards \/ status'[worker[v].t] # "none") => WorkerStep(v)
  BY <1>a DEF WorkerStep, Assigned
<1>Enqueue. ASSUME NEW f \in Files, f \notin Shards, Enqueue(f)
             PROVE  Counted
  <2>0. PICK jobs : Added(jobs) /\ \A k \in jobs : k.file \in Files /\ (k.batch # 0 <=> k.file \in Shards)
    <3>1. Added({[file |-> f, batch |-> 0]})  BY <1>Enqueue, <1>a, EnqueueDoes
    <3> QED  BY <3>1, <1>Enqueue
  <2>1. \A u \in Ids : JobStep(u)
    BY <2>0 DEF Added, JobStep
  <2>2. \A u \in Ids : TaskStep(u)
    BY <2>0 DEF Added, TaskStep
  <2>3. \A v \in Workers : WorkerStep(v)
    <3>1. ASSUME NEW v \in Workers, worker'[v] = worker[v] PROVE WorkerStep(v)
      <4>1. \A u \in Ids : status'[u] = status[u] \/ status'[u] = "Queued"  BY <2>0 DEF Added
      <4> QED  BY <3>1, <4>1, <1>o, <1>w
    <3>2. ASSUME NEW v \in Workers, worker'[v] # worker[v] PROVE WorkerStep(v)
      <4>1. /\ worker'[v].t \in Ids /\ job'[worker'[v].t] \in jobs /\ status'[worker'[v].t] = "Queued"
            /\ worker'[v] = [Idle EXCEPT !.t = worker'[v].t, !.pc = "wait"]
        BY <3>2, <2>0 DEF Added
      <4>2. worker'[v].pc = "wait"  BY <4>1 DEF Idle
      <4> QED  BY <4>1, <4>2, <2>0 DEF WorkerStep
    <3> QED  BY <3>1, <3>2
  <2> QED  BY <2>1, <2>2, <2>3 DEF Counted
<1>Reextract. ASSUME NEW f \in Files, Reextract(f)
               PROVE  Counted
  <2>0. PICK x \in Ids, y \in Workers : Extracting(f, x, y)  BY <1>Reextract, <1>a, ReextractDoes
  <2>r. f \in Packs /\ rows' = rows /\ f \in Files /\ f \notin Shards  BY <1>Reextract, <1>a, ReextractDoes, Facts
  <2>1. \A u \in Ids : JobStep(u)
    BY <2>0, <2>r DEF Extracting, JobStep
  <2>2. \A u \in Ids : TaskStep(u)
    <3>1. /\ job'[x].file = f /\ status'[x] # "none" /\ rows'[x] = rows[x]
          /\ \A u \in Ids \ {x} : status'[u] \in {status[u], "none"}
      BY <2>0, <2>r DEF Extracting
    <3> QED  BY <3>1, <2>r DEF TaskStep
  <2>3. \A v \in Workers : WorkerStep(v)
    <3>1. ASSUME NEW v \in Workers, v # y PROVE WorkerStep(v)
      <4>1. worker'[v] = worker[v]  BY <2>0, <3>1 DEF Extracting, Others
      <4>2. worker[v].pc # "gone" => worker[v].t # x
        BY <2>0, <1>w, Facts DEF Extracting, F
      <4>3. worker[v].pc # "gone" => status'[worker[v].t] = status[worker[v].t] \/ F(v) = f
        BY <2>0, <1>w, <4>2 DEF Extracting, F
      <4> QED  BY <4>1, <4>3, <2>r, <1>o
    <3>2. WorkerStep(y)  BY <2>0, <2>r DEF Extracting, WorkerStep
    <3> QED  BY <3>1, <3>2
  <2> QED  BY <2>1, <2>2, <2>3 DEF Counted
<1>EmptyTrash. ASSUME NEW f \in Files, EmptyTrash(f)
                PROVE  Counted
  <2>1. \A u \in Ids : JobStep(u)
    BY <1>EmptyTrash, <1>a, EmptyTrashDoes DEF JobStep, memory
  <2>2. \A u \in Ids : TaskStep(u)
    BY <1>EmptyTrash, <1>a, EmptyTrashDoes DEF TaskStep, memory
  <2>3. \A v \in Workers : WorkerStep(v)
    <3>1. ASSUME NEW v \in Workers, TRUE PROVE WorkerStep(v)
      <4>1. Stays(v)  BY <1>EmptyTrash, <1>a, EmptyTrashDoes DEF Bystander
      <4>2. worker[v].pc = "gone" => worker'[v] = worker[v] /\ worker[v] = Idle
        BY <4>1, <1>a DEF Stays, Assigned
      <4>3. worker[v].pc # "gone" => worker'[v].pc # "gone" /\ worker'[v].t = worker[v].t
        BY <4>1 DEF Stays
      <4>4. worker[v].pc # "gone" => (status[worker[v].t] # "none" => status'[worker[v].t] # "none")
        BY <1>EmptyTrash, <1>a, EmptyTrashDoes DEF memory
      <4> QED  BY <4>2, <4>3, <4>4 DEF WorkerStep
    <3> QED  BY <3>1
  <2> QED  BY <2>1, <2>2, <2>3 DEF Counted
<1>Pause. ASSUME NEW t \in Ids, Pause(t)
           PROVE  Counted
  <2>1. \A u \in Ids : JobStep(u)
    BY <1>Pause DEF Pause, JobStep
  <2>2. \A u \in Ids : TaskStep(u)
    BY <1>Pause, <1>j DEF Pause, TaskStep, disk
  <2>3. \A v \in Workers : WorkerStep(v)
    BY <1>Pause, <1>j, <1>o DEF Pause
  <2> QED  BY <2>1, <2>2, <2>3 DEF Counted
<1>Resume. ASSUME NEW t \in Ids, Resume(t)
            PROVE  Counted
  <2>0. Known(t)  BY <1>a
  <2>y. /\ FileOf(t) \in Files /\ status[t] \in {"Paused", "Failed"} /\ job' = job
        /\ \A u \in Ids \ {t} : got'[u] = got[u] /\ rows'[u] = rows[u]
        /\ \A v \in Workers : \/ worker'[v] = worker[v]
                              \/ /\ worker[v].pc = "gone" /\ worker'[v].t = t
                                 /\ worker'[v] = [Idle EXCEPT !.t = worker'[v].t, !.pc = "wait"]
    BY <2>0, <1>Resume, <1>a, ResumeDoes
  <2>x. FileOf(t) \in Files /\ status[t] # "none" /\ job' = job
        /\ (\A u \in Ids \ {t} : rows'[u] = rows[u])
        /\ \A v \in Workers : worker'[v] = worker[v] \/ (worker'[v].t = t /\ worker'[v] = [Idle EXCEPT !.t = worker'[v].t, !.pc = "wait"])
    BY <2>y
  <2>s. status' = [status EXCEPT ![t] = "Queued"]  BY <1>Resume DEF Resume
  <2>1. \A u \in Ids : JobStep(u)
    BY <2>x DEF JobStep
  <2>2. \A u \in Ids : TaskStep(u)
    BY <2>x, <2>s, <2>x, <1>j DEF TaskStep, FileOf
  <2>3. \A v \in Workers : WorkerStep(v)
    <3>2. ASSUME NEW v \in Workers, worker'[v] = worker[v] PROVE WorkerStep(v)
      BY <2>s, <3>2, <1>o, <1>j, <1>w
    <3>3. ASSUME NEW v \in Workers, worker'[v] # worker[v] PROVE WorkerStep(v)
      <4>1. worker'[v].t = t /\ worker'[v] = [Idle EXCEPT !.t = worker'[v].t, !.pc = "wait"]
        BY <3>3, <2>x
      <4>2. worker'[v].pc = "wait"  BY <4>1 DEF Idle
      <4> QED  BY <4>1, <4>2, <2>s, <2>x, <1>j DEF WorkerStep, FileOf
    <3> QED  BY <3>2, <3>3
  <2> QED  BY <2>1, <2>2, <2>3 DEF Counted
<1>Cancel. ASSUME NEW t \in Ids, Cancel(t)
            PROVE  Counted
  <2>0. PICK hit \in SUBSET Ids :
                 /\ \A u \in hit : status[u] # "none"
                 /\ status' = [u \in Ids |-> IF u \in hit THEN "Failed" ELSE status[u]]
                 /\ rows' = [u \in Ids |-> IF u \in hit THEN NoRow ELSE rows[u]]
    BY <1>Cancel, <1>a, CancelDoes
  <2>u. UNCHANGED <<job, worker>>  BY <1>Cancel, <1>a, CancelDoes
  <2>1. \A u \in Ids : JobStep(u)
    BY <2>u DEF JobStep
  <2>2. \A u \in Ids : TaskStep(u)
    BY <2>0, <1>f DEF TaskStep
  <2>3. \A v \in Workers : WorkerStep(v)
    BY <2>0, <2>u, <1>o, <1>w
  <2> QED  BY <2>1, <2>2, <2>3 DEF Counted
<1>Reprioritize. ASSUME NEW t \in Ids, NEW p \in 0 .. 1, Reprioritize(t, p)
                  PROVE  Counted
  <2>1. \A u \in Ids : JobStep(u)
    BY <1>Reprioritize DEF Reprioritize, JobStep
  <2>2. \A u \in Ids : TaskStep(u)
    BY <1>Reprioritize, <1>j DEF Reprioritize, TaskStep, disk
  <2>3. \A v \in Workers : WorkerStep(v)
    BY <1>Reprioritize, <1>j, <1>o DEF Reprioritize
  <2> QED  BY <2>1, <2>2, <2>3 DEF Counted
<1>StartQuant. ASSUME StartQuant
                PROVE  Counted
  <2>0. PICK jobs : Added(jobs) /\ \A k \in jobs : k.file \in Files /\ (k.batch # 0 <=> k.file \in Shards)
    <3>1. spent["start"] + 1 # 0  BY <1>a DEF Types, Kinds
    <3> QED  BY <3>1, <1>StartQuant, <1>a, StartQuantDoes, Facts
  <2>1. \A u \in Ids : JobStep(u)
    BY <2>0 DEF Added, JobStep
  <2>2. \A u \in Ids : TaskStep(u)
    BY <2>0 DEF Added, TaskStep
  <2>3. \A v \in Workers : WorkerStep(v)
    <3>1. ASSUME NEW v \in Workers, worker'[v] = worker[v] PROVE WorkerStep(v)
      <4>1. \A u \in Ids : status'[u] = status[u] \/ status'[u] = "Queued"  BY <2>0 DEF Added
      <4> QED  BY <3>1, <4>1, <1>o, <1>w
    <3>2. ASSUME NEW v \in Workers, worker'[v] # worker[v] PROVE WorkerStep(v)
      <4>1. /\ worker'[v].t \in Ids /\ job'[worker'[v].t] \in jobs /\ status'[worker'[v].t] = "Queued"
            /\ worker'[v] = [Idle EXCEPT !.t = worker'[v].t, !.pc = "wait"]
        BY <3>2, <2>0 DEF Added
      <4>2. worker'[v].pc = "wait"  BY <4>1 DEF Idle
      <4> QED  BY <4>1, <4>2, <2>0 DEF WorkerStep
    <3> QED  BY <3>1, <3>2
  <2> QED  BY <2>1, <2>2, <2>3 DEF Counted
<1>Recovering. ASSUME RecoverCommand \/ Recover
                PROVE  Counted
  <2>0. Reconciled  BY <1>Recovering, <1>a, RecoveringDoes
  <2>z. \A u \in Ids : job'[u] = job[u] \/ (FileOf(u) = "none" /\ job'[u].file \in Shards /\ job'[u].batch \in batches)
    BY <2>0 DEF Reconciled
  <2>y. \A u \in Ids : (status'[u] # "none" => job'[u].file \in Files)
                      /\ (rows'[u] = NoRow \/ rows'[u] = rows[u] \/ job'[u].file \in Files)
    BY <2>0 DEF Reconciled
  <2>1. \A u \in Ids : JobStep(u)
    BY <2>z, <1>b, Facts DEF JobStep
  <2>2. \A u \in Ids : TaskStep(u)
    BY <2>y DEF TaskStep
  <2>3. \A v \in Workers : WorkerStep(v)
    <3>1. ASSUME NEW v \in Workers, TRUE PROVE WorkerStep(v)
      <4>1. Stays(v)  BY <2>0 DEF Reconciled, Bystander
      <4>2. worker[v].pc = "gone" => worker'[v] = worker[v] /\ worker[v] = Idle
        BY <4>1, <1>a DEF Stays, Assigned
      <4>3. worker[v].pc # "gone" => worker'[v].pc # "gone" /\ worker'[v].t = worker[v].t
        BY <4>1 DEF Stays
      <4>4. worker[v].pc # "gone" => (status[worker[v].t] # "none" => status'[worker[v].t] # "none")
        BY <2>0, <1>w DEF Reconciled
      <4> QED  BY <4>2, <4>3, <4>4 DEF WorkerStep
    <3> QED  BY <3>1
  <2> QED  BY <2>1, <2>2, <2>3 DEF Counted
<1>Restart. ASSUME Restart
             PROVE  Counted
  <2>0. UNCHANGED <<job, rows>> /\ status' = [u \in Ids |-> "none"] /\ \A v \in Workers : worker'[v] = Idle
    BY <1>Restart, <1>a, RestartingDoes
  <2>1. \A u \in Ids : JobStep(u)
    BY <2>0 DEF JobStep
  <2>2. \A u \in Ids : TaskStep(u)
    BY <2>0 DEF TaskStep
  <2>3. \A v \in Workers : WorkerStep(v)
    BY <2>0 DEF WorkerStep
  <2> QED  BY <2>1, <2>2, <2>3 DEF Counted
<1>Renaming. ASSUME NEW b \in batches, NEW some \in SUBSET Shards, RestartRenaming(b, some)
              PROVE  Counted
  <2>0. UNCHANGED <<job, rows>> /\ status' = [u \in Ids |-> "none"] /\ \A v \in Workers : worker'[v] = Idle
    BY <1>Renaming, <1>a, RestartingDoes
  <2>1. \A u \in Ids : JobStep(u)
    BY <2>0 DEF JobStep
  <2>2. \A u \in Ids : TaskStep(u)
    BY <2>0 DEF TaskStep
  <2>3. \A v \in Workers : WorkerStep(v)
    BY <2>0 DEF WorkerStep
  <2> QED  BY <2>1, <2>2, <2>3 DEF Counted
<1>Gather. ASSUME Gather
            PROVE  Counted
  <2>0. UNCHANGED <<job, rows, status, worker>>  BY <1>Gather, <1>a, GatherDoes DEF disk
  <2>1. \A u \in Ids : JobStep(u)
    BY <2>0 DEF JobStep
  <2>2. \A u \in Ids : TaskStep(u)
    BY <2>0 DEF TaskStep
  <2>3. \A v \in Workers : WorkerStep(v)
    BY <2>0, <1>o
  <2> QED  BY <2>1, <2>2, <2>3 DEF Counted
<1>FindSlot. ASSUME NEW w \in Workers, FindSlot(w)
              PROVE  Counted
  <2>1. \A u \in Ids : JobStep(u)
    BY <1>FindSlot, <1>a, FindSlotDoes DEF JobStep, memory
  <2>2. \A u \in Ids : TaskStep(u)
    BY <1>FindSlot, <1>a, <1>j, <1>w, FindSlotDoes DEF TaskStep, memory, disk
  <2>3. \A v \in Workers : WorkerStep(v)
    BY <1>FindSlot, <1>a, <1>j, <1>w, <1>o, <1>i, FindSlotDoes DEF WorkerStep, Goes, Others, memory
  <2> QED  BY <2>1, <2>2, <2>3 DEF Counted
<1>GiveUp. ASSUME NEW w \in Workers, GiveUp(w)
            PROVE  Counted
  <2>1. \A u \in Ids : JobStep(u)
    BY <1>GiveUp, <1>a, GiveUpDoes DEF JobStep, memory
  <2>2. \A u \in Ids : TaskStep(u)
    BY <1>GiveUp, <1>a, <1>j, <1>w, GiveUpDoes DEF TaskStep, memory, disk
  <2>3. \A v \in Workers : WorkerStep(v)
    BY <1>GiveUp, <1>a, <1>j, <1>w, <1>o, <1>i, GiveUpDoes DEF WorkerStep, Goes, Others, memory
  <2> QED  BY <2>1, <2>2, <2>3 DEF Counted
<1>Claim. ASSUME NEW w \in Workers, Claim(w)
           PROVE  Counted
  <2>0. worker[w].t \in Ids /\ worker[w].pc # "gone" /\ F(w) \in Files  BY <1>Claim, <1>a, <1>w, ClaimDoes
  <2>s. \A u \in Ids : status'[u] = status[u] \/ (u = worker[w].t /\ status'[u] # "none")
    BY <1>Claim, <1>a, <1>j, ClaimDoes
  <2>1. \A u \in Ids : JobStep(u)
    BY <1>Claim, <1>a, ClaimDoes DEF JobStep, memory
  <2>2. \A u \in Ids : TaskStep(u)
    <3>1. job' = job /\ \A u \in Ids : rows'[u] \in {rows[u], NoRow} \/ u = worker[w].t
      BY <1>Claim, <1>a, <1>j, ClaimDoes DEF disk
    <3> QED  BY <2>0, <2>s, <3>1 DEF TaskStep, F, FileOf
  <2>3. \A v \in Workers : WorkerStep(v)
    <3>1. \A v \in Workers : v # w => worker'[v] = worker[v]  BY <1>Claim, <1>a, ClaimDoes DEF Goes, Others
    <3>2. worker'[w] = Idle \/ (worker'[w].pc # "gone" /\ worker'[w].t = worker[w].t)
      BY <1>Claim, <1>a, ClaimDoes DEF Goes
    <3>3. \A v \in Workers : v # w => WorkerStep(v)  BY <3>1, <2>s, <1>o, <1>w
    <3>4. WorkerStep(w)  BY <3>2, <2>0, <2>s DEF WorkerStep
    <3> QED  BY <3>3, <3>4
  <2> QED  BY <2>1, <2>2, <2>3 DEF Counted
<1>Open. ASSUME NEW w \in Workers, Open(w)
          PROVE  Counted
  <2>1. \A u \in Ids : JobStep(u)
    BY <1>Open, <1>a, OpenDoes DEF JobStep, memory
  <2>2. \A u \in Ids : TaskStep(u)
    BY <1>Open, <1>a, <1>j, <1>w, OpenDoes DEF TaskStep, memory, disk
  <2>3. \A v \in Workers : WorkerStep(v)
    BY <1>Open, <1>a, <1>j, <1>w, <1>o, <1>i, OpenDoes DEF WorkerStep, Goes, Others, memory
  <2> QED  BY <2>1, <2>2, <2>3 DEF Counted
<1>Answered. ASSUME NEW w \in Workers, Answered(w)
              PROVE  Counted
  <2>1. \A u \in Ids : JobStep(u)
    BY <1>Answered, <1>a, AnsweredDoes DEF JobStep, memory
  <2>2. \A u \in Ids : TaskStep(u)
    BY <1>Answered, <1>a, <1>j, <1>w, AnsweredDoes DEF TaskStep, memory, disk
  <2>3. \A v \in Workers : WorkerStep(v)
    BY <1>Answered, <1>a, <1>j, <1>w, <1>o, <1>i, AnsweredDoes DEF WorkerStep, Goes, Others, memory
  <2> QED  BY <2>1, <2>2, <2>3 DEF Counted
<1>AnsweredWhole. ASSUME NEW w \in Workers, AnsweredWhole(w)
                   PROVE  Counted
  <2>1. \A u \in Ids : JobStep(u)
    BY <1>AnsweredWhole, <1>a, AnsweredWholeDoes DEF JobStep, memory
  <2>2. \A u \in Ids : TaskStep(u)
    BY <1>AnsweredWhole, <1>a, <1>j, <1>w, AnsweredWholeDoes DEF TaskStep, memory, disk
  <2>3. \A v \in Workers : WorkerStep(v)
    BY <1>AnsweredWhole, <1>a, <1>j, <1>w, <1>o, <1>i, AnsweredWholeDoes DEF WorkerStep, Goes, Others, memory
  <2> QED  BY <2>1, <2>2, <2>3 DEF Counted
<1>StopAsked. ASSUME NEW w \in Workers, StopAsked(w)
               PROVE  Counted
  <2>1. \A u \in Ids : JobStep(u)
    BY <1>StopAsked, <1>a, StopAskedDoes DEF JobStep, memory
  <2>2. \A u \in Ids : TaskStep(u)
    BY <1>StopAsked, <1>a, <1>j, <1>w, StopAskedDoes DEF TaskStep, memory, disk
  <2>3. \A v \in Workers : WorkerStep(v)
    BY <1>StopAsked, <1>a, <1>j, <1>w, <1>o, <1>i, StopAskedDoes DEF WorkerStep, Goes, Others, memory
  <2> QED  BY <2>1, <2>2, <2>3 DEF Counted
<1>Tick. ASSUME NEW w \in Workers, Tick(w)
          PROVE  Counted
  <2>1. \A u \in Ids : JobStep(u)
    BY <1>Tick, <1>a, TickDoes DEF JobStep, memory
  <2>2. \A u \in Ids : TaskStep(u)
    BY <1>Tick, <1>a, <1>j, <1>w, TickDoes DEF TaskStep, memory, disk
  <2>3. \A v \in Workers : WorkerStep(v)
    BY <1>Tick, <1>a, <1>j, <1>w, <1>o, <1>i, TickDoes DEF WorkerStep, Goes, Others, memory
  <2> QED  BY <2>1, <2>2, <2>3 DEF Counted
<1>Chunk. ASSUME NEW w \in Workers, NEW c \in Chunks, Chunk(w, c)
           PROVE  Counted
  <2>1. \A u \in Ids : JobStep(u)
    BY <1>Chunk, <1>a, ChunkDoes DEF JobStep, memory
  <2>2. \A u \in Ids : TaskStep(u)
    BY <1>Chunk, <1>a, <1>j, <1>w, ChunkDoes DEF TaskStep, memory, disk
  <2>3. \A v \in Workers : WorkerStep(v)
    BY <1>Chunk, <1>a, <1>j, <1>w, <1>o, <1>i, ChunkDoes DEF WorkerStep, Goes, Others, memory
  <2> QED  BY <2>1, <2>2, <2>3 DEF Counted
<1>StreamEnds. ASSUME NEW w \in Workers, StreamEnds(w)
                PROVE  Counted
  <2>1. \A u \in Ids : JobStep(u)
    BY <1>StreamEnds, <1>a, StreamEndsDoes DEF JobStep, memory
  <2>2. \A u \in Ids : TaskStep(u)
    BY <1>StreamEnds, <1>a, <1>j, <1>w, StreamEndsDoes DEF TaskStep, memory, disk
  <2>3. \A v \in Workers : WorkerStep(v)
    BY <1>StreamEnds, <1>a, <1>j, <1>w, <1>o, <1>i, StreamEndsDoes DEF WorkerStep, Goes, Others, memory
  <2> QED  BY <2>1, <2>2, <2>3 DEF Counted
<1>Trouble. ASSUME NEW w \in Workers, Trouble(w)
             PROVE  Counted
  <2>1. \A u \in Ids : JobStep(u)
    BY <1>Trouble, <1>a, TroubleDoes DEF JobStep, memory
  <2>2. \A u \in Ids : TaskStep(u)
    BY <1>Trouble, <1>a, <1>j, <1>w, TroubleDoes DEF TaskStep, memory, disk
  <2>3. \A v \in Workers : WorkerStep(v)
    BY <1>Trouble, <1>a, <1>j, <1>w, <1>o, <1>i, TroubleDoes DEF WorkerStep, Goes, Others, memory
  <2> QED  BY <2>1, <2>2, <2>3 DEF Counted
<1>Fail. ASSUME NEW w \in Workers, Fail(w)
          PROVE  Counted
  <2>0. worker[w].t \in Ids /\ worker[w].pc # "gone" /\ F(w) \in Files  BY <1>Fail, <1>a, <1>w, FailDoes
  <2>s. \A u \in Ids : status'[u] = status[u] \/ (u = worker[w].t /\ status'[u] # "none")
    BY <1>Fail, <1>a, <1>j, FailDoes
  <2>1. \A u \in Ids : JobStep(u)
    BY <1>Fail, <1>a, FailDoes DEF JobStep, memory
  <2>2. \A u \in Ids : TaskStep(u)
    <3>1. job' = job /\ \A u \in Ids : rows'[u] \in {rows[u], NoRow} \/ u = worker[w].t
      BY <1>Fail, <1>a, <1>j, FailDoes DEF disk
    <3> QED  BY <2>0, <2>s, <3>1 DEF TaskStep, F, FileOf
  <2>3. \A v \in Workers : WorkerStep(v)
    <3>1. \A v \in Workers : v # w => worker'[v] = worker[v]  BY <1>Fail, <1>a, FailDoes DEF Goes, Others
    <3>2. worker'[w] = Idle \/ (worker'[w].pc # "gone" /\ worker'[w].t = worker[w].t)
      BY <1>Fail, <1>a, FailDoes DEF Goes
    <3>3. \A v \in Workers : v # w => WorkerStep(v)  BY <3>1, <2>s, <1>o, <1>w
    <3>4. WorkerStep(w)  BY <3>2, <2>0, <2>s DEF WorkerStep
    <3> QED  BY <3>3, <3>4
  <2> QED  BY <2>1, <2>2, <2>3 DEF Counted
<1>LoadRows. ASSUME NEW w \in Workers, LoadRows(w)
              PROVE  Counted
  <2>1. \A u \in Ids : JobStep(u)
    BY <1>LoadRows, <1>a, LoadRowsDoes DEF JobStep, memory
  <2>2. \A u \in Ids : TaskStep(u)
    BY <1>LoadRows, <1>a, <1>j, <1>w, LoadRowsDoes DEF TaskStep, memory, disk
  <2>3. \A v \in Workers : WorkerStep(v)
    BY <1>LoadRows, <1>a, <1>j, <1>w, <1>o, <1>i, LoadRowsDoes DEF WorkerStep, Goes, Others, memory
  <2> QED  BY <2>1, <2>2, <2>3 DEF Counted
<1>SaveRows. ASSUME NEW w \in Workers, SaveRows(w)
              PROVE  Counted
  <2>1. \A u \in Ids : JobStep(u)
    BY <1>SaveRows, <1>a, SaveRowsDoes DEF JobStep, memory
  <2>2. \A u \in Ids : TaskStep(u)
    <3>1. /\ rows' = [worker[w].seen EXCEPT ![worker[w].t] = NoRow] /\ worker[w].seen # <<>>
          /\ worker[w].seen \in [Ids -> Int] /\ worker[w].pc # "gone" /\ UNCHANGED <<status, job>>
      BY <1>SaveRows, <1>a, SaveRowsDoes DEF memory
    <3>2. Copied(w)  BY <3>1, <1>a DEF Sized
    <3> QED  BY <3>1, <3>2 DEF TaskStep, Copied, FileOf
  <2>3. \A v \in Workers : WorkerStep(v)
    BY <1>SaveRows, <1>a, <1>j, <1>w, <1>o, <1>i, SaveRowsDoes DEF WorkerStep, Goes, Others, memory
  <2> QED  BY <2>1, <2>2, <2>3 DEF Counted
<1>Complete. ASSUME NEW w \in Workers, Complete(w)
              PROVE  Counted
  <2>0. worker[w].t \in Ids /\ worker[w].pc # "gone" /\ F(w) \in Files  BY <1>Complete, <1>a, <1>w, CompleteDoes
  <2>s. \A u \in Ids : status'[u] = status[u] \/ (u = worker[w].t /\ status'[u] # "none")
    BY <1>Complete, <1>a, <1>j, CompleteDoes
  <2>1. \A u \in Ids : JobStep(u)
    BY <1>Complete, <1>a, CompleteDoes DEF JobStep, memory
  <2>2. \A u \in Ids : TaskStep(u)
    <3>1. job' = job /\ \A u \in Ids : rows'[u] \in {rows[u], NoRow} \/ u = worker[w].t
      BY <1>Complete, <1>a, <1>j, CompleteDoes DEF disk
    <3> QED  BY <2>0, <2>s, <3>1 DEF TaskStep, F, FileOf
  <2>3. \A v \in Workers : WorkerStep(v)
    <3>1. \A v \in Workers : v # w => worker'[v] = worker[v]  BY <1>Complete, <1>a, CompleteDoes DEF Goes, Others
    <3>2. worker'[w] = Idle \/ (worker'[w].pc # "gone" /\ worker'[w].t = worker[w].t)
      BY <1>Complete, <1>a, CompleteDoes DEF Goes
    <3>3. \A v \in Workers : v # w => WorkerStep(v)  BY <3>1, <2>s, <1>o, <1>w
    <3>4. WorkerStep(w)  BY <3>2, <2>0, <2>s DEF WorkerStep
    <3> QED  BY <3>3, <3>4
  <2> QED  BY <2>1, <2>2, <2>3 DEF Counted
<1>Verify. ASSUME NEW w \in Workers, Verify(w)
            PROVE  Counted
  <2>0. worker[w].t \in Ids /\ worker[w].pc # "gone" /\ F(w) \in Files  BY <1>Verify, <1>a, <1>w, VerifyDoes
  <2>s. status' = status
    BY <1>Verify, <1>a, <1>j, VerifyDoes DEF memory
  <2>k. \A u \in Ids : status[u] # "none" => status'[u] # "none"  BY <2>s
  <2>1. \A u \in Ids : JobStep(u)
    BY <1>Verify, <1>a, VerifyDoes DEF JobStep, memory
  <2>2. \A u \in Ids : TaskStep(u)
    <3>1. job' = job /\ \A u \in Ids : rows'[u] \in {rows[u], NoRow}
      BY <1>Verify, <1>a, VerifyDoes DEF memory
    <3> QED  BY <2>0, <2>s, <3>1 DEF TaskStep, F, FileOf
  <2>3. \A v \in Workers : WorkerStep(v)
    <3>1. ASSUME NEW v \in Workers, v # w PROVE WorkerStep(v)
      <4>1. Stays(v)  BY <3>1, <1>Verify, <1>a, VerifyDoes DEF Bystander, Goes, Others, Stays
      <4>2. worker[v].pc = "gone" => worker'[v] = worker[v] /\ worker[v] = Idle
        BY <4>1, <1>a DEF Stays, Assigned
      <4>3. worker[v].pc # "gone" => worker'[v].pc # "gone" /\ worker'[v].t = worker[v].t
        BY <4>1 DEF Stays
      <4>4. worker[v].pc # "gone" => (status[worker[v].t] # "none" => status'[worker[v].t] # "none")
        BY <2>k, <1>w
      <4> QED  BY <4>2, <4>3, <4>4 DEF WorkerStep
    <3>2. worker'[w].pc # "gone" /\ worker'[w].t = worker[w].t  BY <1>Verify, <1>a, VerifyDoes DEF Goes
    <3>3. WorkerStep(w)  BY <3>2, <2>0, <2>k DEF WorkerStep
    <3> QED  BY <3>1, <3>3
  <2> QED  BY <2>1, <2>2, <2>3 DEF Counted
<1>Accept. ASSUME NEW w \in Workers, Accept(w)
            PROVE  Counted
  <2>0. worker[w].t \in Ids /\ worker[w].pc # "gone" /\ F(w) \in Files  BY <1>Accept, <1>a, <1>w, AcceptDoes
  <2>s. \A u \in Ids : status'[u] = status[u] \/ (u = worker[w].t /\ status'[u] # "none")
    BY <1>Accept, <1>a, <1>j, AcceptDoes
  <2>1. \A u \in Ids : JobStep(u)
    BY <1>Accept, <1>a, AcceptDoes DEF JobStep, memory
  <2>2. \A u \in Ids : TaskStep(u)
    <3>1. job' = job /\ \A u \in Ids : rows'[u] \in {rows[u], NoRow} \/ u = worker[w].t
      BY <1>Accept, <1>a, <1>j, AcceptDoes DEF disk
    <3> QED  BY <2>0, <2>s, <3>1 DEF TaskStep, F, FileOf
  <2>3. \A v \in Workers : WorkerStep(v)
    <3>1. \A v \in Workers : v # w => worker'[v] = worker[v]  BY <1>Accept, <1>a, AcceptDoes DEF Goes, Others
    <3>2. worker'[w] = Idle \/ (worker'[w].pc # "gone" /\ worker'[w].t = worker[w].t)
      BY <1>Accept, <1>a, AcceptDoes DEF Goes
    <3>3. \A v \in Workers : v # w => WorkerStep(v)  BY <3>1, <2>s, <1>o, <1>w
    <3>4. WorkerStep(w)  BY <3>2, <2>0, <2>s DEF WorkerStep
    <3> QED  BY <3>3, <3>4
  <2> QED  BY <2>1, <2>2, <2>3 DEF Counted
<1>PlaceShard. ASSUME NEW w \in Workers, PlaceShard(w)
                PROVE  Counted
  <2>0. worker[w].t \in Ids /\ worker[w].pc # "gone" /\ F(w) \in Files  BY <1>PlaceShard, <1>a, <1>w, PlaceShardDoes
  <2>s. \A u \in Ids : status'[u] = status[u] \/ (status[u] # "none" /\ status'[u] = "Completed")
    BY <1>PlaceShard, <1>a, <1>j, PlaceShardDoes DEF memory
  <2>k. \A u \in Ids : status[u] # "none" => status'[u] # "none"  BY <2>s
  <2>1. \A u \in Ids : JobStep(u)
    BY <1>PlaceShard, <1>a, PlaceShardDoes DEF JobStep, memory
  <2>2. \A u \in Ids : TaskStep(u)
    <3>1. job' = job /\ \A u \in Ids : rows'[u] \in {rows[u], NoRow}
      BY <1>PlaceShard, <1>a, PlaceShardDoes DEF memory
    <3> QED  BY <2>0, <2>s, <3>1 DEF TaskStep, F, FileOf
  <2>3. \A v \in Workers : WorkerStep(v)
    <3>1. ASSUME NEW v \in Workers, v # w PROVE WorkerStep(v)
      <4>1. Stays(v)  BY <3>1, <1>PlaceShard, <1>a, PlaceShardDoes DEF Bystander, Goes, Others, Stays
      <4>2. worker[v].pc = "gone" => worker'[v] = worker[v] /\ worker[v] = Idle
        BY <4>1, <1>a DEF Stays, Assigned
      <4>3. worker[v].pc # "gone" => worker'[v].pc # "gone" /\ worker'[v].t = worker[v].t
        BY <4>1 DEF Stays
      <4>4. worker[v].pc # "gone" => (status[worker[v].t] # "none" => status'[worker[v].t] # "none")
        BY <2>k, <1>w
      <4> QED  BY <4>2, <4>3, <4>4 DEF WorkerStep
    <3>2. worker'[w] = Idle  BY <1>PlaceShard, <1>a, PlaceShardDoes DEF Goes
    <3>3. WorkerStep(w)  BY <3>2, <2>0, <2>k DEF WorkerStep
    <3> QED  BY <3>1, <3>3
  <2> QED  BY <2>1, <2>2, <2>3 DEF Counted
<1>PlaceFile. ASSUME NEW w \in Workers, PlaceFile(w)
               PROVE  Counted
  <2>0. worker[w].t \in Ids /\ worker[w].pc # "gone" /\ F(w) \in Files  BY <1>PlaceFile, <1>a, <1>w, PlaceFileDoes
  <2>s. \A u \in Ids : status'[u] = status[u] \/ (u = worker[w].t /\ status'[u] # "none") \/ (u = worker[w].t /\ status'[u] = status[u])
    BY <1>PlaceFile, <1>a, <1>j, PlaceFileDoes DEF memory
  <2>k. \A u \in Ids : status[u] # "none" => status'[u] # "none"  BY <2>s
  <2>1. \A u \in Ids : JobStep(u)
    BY <1>PlaceFile, <1>a, PlaceFileDoes DEF JobStep, memory
  <2>2. \A u \in Ids : TaskStep(u)
    <3>1. job' = job /\ \A u \in Ids : rows'[u] \in {rows[u], NoRow}
      BY <1>PlaceFile, <1>a, PlaceFileDoes DEF memory
    <3> QED  BY <2>0, <2>s, <3>1 DEF TaskStep, F, FileOf
  <2>3. \A v \in Workers : WorkerStep(v)
    <3>1. ASSUME NEW v \in Workers, v # w PROVE WorkerStep(v)
      <4>1. Stays(v)  BY <3>1, <1>PlaceFile, <1>a, PlaceFileDoes DEF Bystander, Goes, Others, Stays
      <4>2. worker[v].pc = "gone" => worker'[v] = worker[v] /\ worker[v] = Idle
        BY <4>1, <1>a DEF Stays, Assigned
      <4>3. worker[v].pc # "gone" => worker'[v].pc # "gone" /\ worker'[v].t = worker[v].t
        BY <4>1 DEF Stays
      <4>4. worker[v].pc # "gone" => (status[worker[v].t] # "none" => status'[worker[v].t] # "none")
        BY <2>k, <1>w
      <4> QED  BY <4>2, <4>3, <4>4 DEF WorkerStep
    <3>2. worker'[w] = Idle \/ (worker'[w].pc # "gone" /\ worker'[w].t = worker[w].t)
       BY <1>PlaceFile, <1>a, PlaceFileDoes DEF Goes
    <3>3. WorkerStep(w)  BY <3>2, <2>0, <2>k DEF WorkerStep
    <3> QED  BY <3>1, <3>3
  <2> QED  BY <2>1, <2>2, <2>3 DEF Counted
<1>Extracted. ASSUME NEW w \in Workers, NEW ok \in BOOLEAN, ExtractArchive(w, ok) \/ ActivateProvider(w, ok)
               PROVE  Counted
  <2>0. worker[w].t \in Ids /\ worker[w].pc # "gone" /\ F(w) \in Files  BY <1>Extracted, <1>a, <1>w, ExtractedDoes
  <2>s. \A u \in Ids : status'[u] = status[u] \/ (u = worker[w].t /\ status'[u] # "none")
    BY <1>Extracted, <1>a, <1>j, ExtractedDoes
  <2>1. \A u \in Ids : JobStep(u)
    BY <1>Extracted, <1>a, ExtractedDoes DEF JobStep, memory
  <2>2. \A u \in Ids : TaskStep(u)
    <3>1. job' = job /\ \A u \in Ids : rows'[u] \in {rows[u], NoRow} \/ u = worker[w].t
      BY <1>Extracted, <1>a, <1>j, ExtractedDoes DEF disk
    <3> QED  BY <2>0, <2>s, <3>1 DEF TaskStep, F, FileOf
  <2>3. \A v \in Workers : WorkerStep(v)
    <3>1. \A v \in Workers : v # w => worker'[v] = worker[v]  BY <1>Extracted, <1>a, ExtractedDoes DEF Goes, Others
    <3>2. worker'[w] = Idle \/ (worker'[w].pc # "gone" /\ worker'[w].t = worker[w].t)
      BY <1>Extracted, <1>a, ExtractedDoes DEF Goes
    <3>3. \A v \in Workers : v # w => WorkerStep(v)  BY <3>1, <2>s, <1>o, <1>w
    <3>4. WorkerStep(w)  BY <3>2, <2>0, <2>s DEF WorkerStep
    <3> QED  BY <3>3, <3>4
  <2> QED  BY <2>1, <2>2, <2>3 DEF Counted
<1> QED
   BY <1>Enqueue, <1>Reextract, <1>EmptyTrash, <1>Pause, <1>Resume, <1>Cancel, <1>Reprioritize,
      <1>StartQuant, <1>Recovering, <1>Restart, <1>Renaming, <1>Gather, <1>FindSlot, <1>GiveUp,
      <1>Claim, <1>Open, <1>Answered, <1>AnsweredWhole, <1>StopAsked, <1>Tick, <1>Chunk,
      <1>StreamEnds, <1>Trouble, <1>Fail, <1>LoadRows, <1>SaveRows, <1>Complete, <1>Verify,
      <1>Accept, <1>PlaceShard, <1>PlaceFile, <1>Extracted, Steps

(***************************************************************************)
(* The inductive invariant: the accounts a step keeps.                     *)
(***************************************************************************)
Books ==
    /\ \A k \in {"start", "pause", "cancel", "crash", "fault", "bump", "recover"} : spent'[k] >= spent[k]
    /\ \/ batches' \subseteq batches
       \/ batches' = batches \cup {spent["start"] + 1} /\ spent'["start"] = spent["start"] + 1
    /\ trash' \subseteq trash \/ spent'["cancel"] > 0
    /\ app' = app \/ app' = "up" \/ app # "up" \/ spent'["crash"] > 0
    /\ \A r \in gathered' : r \in gathered \/ (FileOf(r.t) \in Files /\ r.off <= SizeOf(r.t))
    /\ shared => shared'
    /\ unvouched \subseteq unvouched'

LEMMA BooksKept ==
    ASSUME Basis, Next
    PROVE  Books
<1>a. Types /\ Census /\ Sized /\ (\A v \in Workers : Assigned(v)) /\ \A u \in Ids : Known(u)
  BY DEF Basis, Census
<1>n. \A k \in {"start", "pause", "cancel", "crash", "fault", "bump", "recover"} : spent[k] \in Nat
  BY <1>a DEF Types, Kinds
<1>s. \A k \in {"start", "pause", "cancel", "crash", "fault", "bump", "recover"} : Spend(k) =>
          /\ spent'[k] = spent[k] + 1 /\ spent'[k] > 0
          /\ \A j \in {"start", "pause", "cancel", "crash", "fault", "bump", "recover"} : spent'[j] >= spent[j]
  <2>1. ASSUME NEW k \in Kinds, Spend(k) PROVE spent'[k] = spent[k] + 1 /\ \A j \in Kinds \ {k} : spent'[j] = spent[j]
    BY <1>a, <2>1, SpentOnce
  <2> QED  BY <2>1, <1>n DEF Kinds
<1>Enqueue. ASSUME NEW f \in Files, f \notin Shards, Enqueue(f)
             PROVE  Books
  BY <1>Enqueue, <1>a, <1>n, <1>s, EnqueueDoes DEF Books, memory, disk, history
<1>Reextract. ASSUME NEW f \in Files, Reextract(f)
               PROVE  Books
  BY <1>Reextract, <1>a, <1>n, <1>s, ReextractDoes DEF Books, memory, disk, history
<1>EmptyTrash. ASSUME NEW f \in Files, EmptyTrash(f)
                PROVE  Books
  <2>1. /\ UNCHANGED <<app, batches, gathered, spent, unvouched>> /\ trash' \subseteq trash
        /\ shared => shared'
    BY <1>EmptyTrash, <1>a, EmptyTrashDoes DEF memory, history, disk
  <2> QED  BY <2>1, <1>n DEF Books
<1>Pause. ASSUME NEW t \in Ids, Pause(t)
           PROVE  Books
  BY <1>Pause, <1>a, <1>n, <1>s DEF Books, memory, disk, history, Pause
<1>Resume. ASSUME NEW t \in Ids, Resume(t)
            PROVE  Books
  <2>k. Known(t)  BY <1>a
  <2>1. /\ UNCHANGED <<app, batches, gathered, spent, unvouched>> /\ trash' \subseteq trash
        /\ shared => shared'
    BY <1>Resume, <1>a, <2>k DEF memory, history, disk, Resume
  <2> QED  BY <2>1, <1>n DEF Books
<1>Cancel. ASSUME NEW t \in Ids, Cancel(t)
            PROVE  Books
  BY <1>Cancel, <1>a, <1>n, <1>s, CancelDoes DEF Books, memory, disk, history
<1>Reprioritize. ASSUME NEW t \in Ids, NEW p \in 0 .. 1, Reprioritize(t, p)
                  PROVE  Books
  BY <1>Reprioritize, <1>a, <1>n, <1>s DEF Books, memory, disk, history, Reprioritize
<1>StartQuant. ASSUME StartQuant
                PROVE  Books
  BY <1>StartQuant, <1>a, <1>n, <1>s, StartQuantDoes DEF Books, memory, disk, history
<1>Recovering. ASSUME RecoverCommand \/ Recover
                PROVE  Books
  <2>0. Reconciled  BY <1>Recovering, <1>a, RecoveringDoes
  <2>1. batches' \subseteq batches /\ unvouched \subseteq unvouched'  BY <2>0 DEF Reconciled, Renamed
  <2> QED  BY <1>Recovering, <1>a, <1>n, <1>s, RecoveringDoes, <2>1 DEF Books, memory, disk, history
<1>Restart. ASSUME Restart
             PROVE  Books
  BY <1>Restart, <1>a, <1>n, <1>s, RestartingDoes DEF Books, memory, disk, history, Restart
<1>Renaming. ASSUME NEW b \in batches, NEW some \in SUBSET Shards, RestartRenaming(b, some)
              PROVE  Books
  BY <1>Renaming, <1>a, <1>n, <1>s, RestartingDoes, RenamingDoes DEF Books, memory, disk, history
<1>Gather. ASSUME Gather
            PROVE  Books
  BY <1>Gather, <1>a, <1>n, <1>s, GatherDoes DEF Books, memory, disk, history
<1>FindSlot. ASSUME NEW w \in Workers, FindSlot(w)
              PROVE  Books
  BY <1>FindSlot, <1>a, <1>n, <1>s, FindSlotDoes DEF Books, memory, disk, history
<1>GiveUp. ASSUME NEW w \in Workers, GiveUp(w)
            PROVE  Books
  BY <1>GiveUp, <1>a, <1>n, <1>s, GiveUpDoes DEF Books, memory, disk, history
<1>Claim. ASSUME NEW w \in Workers, Claim(w)
           PROVE  Books
  <2>1. /\ UNCHANGED <<app, batches, gathered, spent, unvouched>> /\ trash' \subseteq trash
        /\ shared => shared'
    BY <1>Claim, <1>a, ClaimDoes DEF memory, history, disk, Claim
  <2> QED  BY <2>1, <1>n DEF Books
<1>Open. ASSUME NEW w \in Workers, Open(w)
          PROVE  Books
  BY <1>Open, <1>a, <1>n, <1>s, OpenDoes DEF Books, memory, disk, history
<1>Answered. ASSUME NEW w \in Workers, Answered(w)
              PROVE  Books
  BY <1>Answered, <1>a, <1>n, <1>s, AnsweredDoes DEF Books, memory, disk, history
<1>AnsweredWhole. ASSUME NEW w \in Workers, AnsweredWhole(w)
                   PROVE  Books
  BY <1>AnsweredWhole, <1>a, <1>n, <1>s, AnsweredWholeDoes DEF Books, memory, disk, history, AnsweredWhole
<1>StopAsked. ASSUME NEW w \in Workers, StopAsked(w)
               PROVE  Books
  BY <1>StopAsked, <1>a, <1>n, <1>s, StopAskedDoes DEF Books, memory, disk, history
<1>Tick. ASSUME NEW w \in Workers, Tick(w)
          PROVE  Books
  BY <1>Tick, <1>a, <1>n, <1>s, TickDoes DEF Books, memory, disk, history
<1>Chunk. ASSUME NEW w \in Workers, NEW c \in Chunks, Chunk(w, c)
           PROVE  Books
  BY <1>Chunk, <1>a, <1>n, <1>s, ChunkDoes DEF Books, memory, disk, history, Chunk
<1>StreamEnds. ASSUME NEW w \in Workers, StreamEnds(w)
                PROVE  Books
  BY <1>StreamEnds, <1>a, <1>n, <1>s, StreamEndsDoes DEF Books, memory, disk, history
<1>Trouble. ASSUME NEW w \in Workers, Trouble(w)
             PROVE  Books
  BY <1>Trouble, <1>a, <1>n, <1>s, TroubleDoes DEF Books, memory, disk, history
<1>Fail. ASSUME NEW w \in Workers, Fail(w)
          PROVE  Books
  BY <1>Fail, <1>a, <1>n, <1>s, FailDoes DEF Books, memory, disk, history
<1>LoadRows. ASSUME NEW w \in Workers, LoadRows(w)
              PROVE  Books
  BY <1>LoadRows, <1>a, <1>n, <1>s, LoadRowsDoes DEF Books, memory, disk, history
<1>SaveRows. ASSUME NEW w \in Workers, SaveRows(w)
              PROVE  Books
  BY <1>SaveRows, <1>a, <1>n, <1>s, SaveRowsDoes DEF Books, memory, disk, history
<1>Complete. ASSUME NEW w \in Workers, Complete(w)
              PROVE  Books
  BY <1>Complete, <1>a, <1>n, <1>s, CompleteDoes DEF Books, memory, disk, history
<1>Verify. ASSUME NEW w \in Workers, Verify(w)
            PROVE  Books
  <2>1. /\ UNCHANGED <<app, batches, gathered, spent, unvouched>> /\ trash' \subseteq trash
        /\ shared => shared'
    BY <1>Verify, <1>a, VerifyDoes DEF memory, history, disk
  <2> QED  BY <2>1, <1>n DEF Books
<1>Accept. ASSUME NEW w \in Workers, Accept(w)
            PROVE  Books
  BY <1>Accept, <1>a, <1>n, <1>s, AcceptDoes DEF Books, memory, disk, history
<1>PlaceShard. ASSUME NEW w \in Workers, PlaceShard(w)
                PROVE  Books
  <2>1. batches' \subseteq batches /\ unvouched \subseteq unvouched'
    <3>1. PICK done, moved : Renamed(done, moved)  BY <1>PlaceShard, <1>a, PlaceShardDoes
    <3> QED  BY <3>1 DEF Renamed
  <2> QED  BY <1>PlaceShard, <1>a, <1>n, <1>s, PlaceShardDoes, <2>1 DEF Books, memory, disk, history
<1>PlaceFile. ASSUME NEW w \in Workers, PlaceFile(w)
               PROVE  Books
  <2>1. /\ UNCHANGED <<app, batches, gathered, spent, unvouched>> /\ trash' \subseteq trash
        /\ shared => shared'
    BY <1>PlaceFile, <1>a, PlaceFileDoes DEF memory, history, disk
  <2> QED  BY <2>1, <1>n DEF Books
<1>Extracted. ASSUME NEW w \in Workers, NEW ok \in BOOLEAN, ExtractArchive(w, ok) \/ ActivateProvider(w, ok)
               PROVE  Books
  BY <1>Extracted, <1>a, <1>n, <1>s, ExtractedDoes DEF Books, memory, disk, history
<1> QED
   BY <1>Enqueue, <1>Reextract, <1>EmptyTrash, <1>Pause, <1>Resume, <1>Cancel, <1>Reprioritize,
      <1>StartQuant, <1>Recovering, <1>Restart, <1>Renaming, <1>Gather, <1>FindSlot, <1>GiveUp,
      <1>Claim, <1>Open, <1>Answered, <1>AnsweredWhole, <1>StopAsked, <1>Tick, <1>Chunk,
      <1>StreamEnds, <1>Trouble, <1>Fail, <1>LoadRows, <1>SaveRows, <1>Complete, <1>Verify,
      <1>Accept, <1>PlaceShard, <1>PlaceFile, <1>Extracted, Steps

LEMMA CensusKept ==
    ASSUME Basis, Next
    PROVE  Census'
<1>a. Types /\ Census /\ (\A v \in Workers : Assigned(v)) /\ \A u \in Ids : Known(u)
  BY DEF Basis, Census
<1>1. (\A v \in Workers : Assigned(v)') /\ \A t \in Ids : Known(t)'
  BY <1>a, CountedSteps, CountedKeeps
<1>2. Books  BY BooksKept
<1>3. Counted  BY CountedSteps
<1>4. ASSUME NEW r \in gathered' PROVE FileOf(r.t)' \in Files
  <2>1. FileOf(r.t) \in Files  BY <1>2, <1>4, <1>a DEF Books, Census
  <2>2. r.t \in Ids
    <3>1. Types'  BY TypesKept
    <3> QED  BY <1>4, <3>1 DEF Types
  <2> QED  BY <2>1, <2>2, <1>3, Facts DEF Counted, JobStep, FileOf
<1>n. \A k \in {"start", "pause", "cancel", "crash", "fault", "bump", "recover"} : spent[k] \in Nat /\ spent'[k] \in Nat
  <2>1. Types'  BY TypesKept
  <2>2. spent \in [Kinds -> Nat] /\ spent' \in [Kinds -> Nat]  BY <1>a, <2>1 DEF Types
  <2> QED  BY <2>2 DEF Kinds
<1>5. batches' \subseteq 1 .. spent'["start"]
  <2>1. batches \subseteq 1 .. spent["start"]  BY <1>a DEF Census
  <2>2. spent'["start"] >= spent["start"] /\ spent["start"] \in Nat /\ spent'["start"] \in Nat
    BY <1>2, <1>n DEF Books
  <2>3. CASE batches' \subseteq batches
    BY <2>1, <2>2, <2>3
  <2>4. CASE batches' = batches \cup {spent["start"] + 1} /\ spent'["start"] = spent["start"] + 1
    <3>1. PICK s \in Nat : s = spent["start"]  BY <2>2
    <3>2. batches \subseteq 1 .. s /\ batches' = batches \cup {s + 1} /\ spent'["start"] = s + 1
      BY <2>1, <2>4, <3>1
    <3>3. (1 .. s) \cup {s + 1} \subseteq 1 .. (s + 1)  OBVIOUS
    <3> QED  BY <3>2, <3>3
  <2> QED  BY <1>2, <2>3, <2>4 DEF Books
<1>6. (trash' # {} => spent'["cancel"] > 0) /\ (app' # "up" => spent'["crash"] > 0)
  BY <1>2, <1>a, <1>n DEF Books, Census
<1> QED  BY <1>1, <1>4, <1>5, <1>6 DEF Census

(***************************************************************************)
(* The inductive invariant: no number passes the size of its file.         *)
(***************************************************************************)
\* a worker that goes on, and one that starts
Fits(v) ==
    /\ worker[v].pc # "gone" /\ worker'[v].pc # "gone" /\ worker'[v].t = worker[v].t
    /\ worker'[v].seen \in {worker[v].seen, <<>>, rows}
    /\ worker'[v].off <= Size[F(v)] /\ worker'[v].pos <= Size[F(v)]
    /\ worker'[v].pc = "open" => worker'[v].off < Size[F(v)]
    /\ worker'[v].pc = "request" => worker'[v].pos < Size[F(v)]
    /\ worker'[v].pc \in {"request", "stream"} => worker'[v].on # "none"
    /\ worker'[v].pc \in {"unpack", "extract"} => F(v) \notin Shards
Starts(v) ==
    /\ worker'[v].pc \in {"wait", "extract"} /\ worker'[v].t \in Ids
    /\ worker'[v].off = 0 /\ worker'[v].pos = 0 /\ worker'[v].seen = <<>>
    /\ worker'[v].pc = "extract" => job'[worker'[v].t].file \notin Shards
Measured ==
    /\ \A t \in Ids : got'[t] = got[t] \/ got'[t] <= SizeOf(t)'
    /\ \A t \in Ids : rows'[t] \in {NoRow, rows[t]} \/ (rows'[t] \in Nat /\ rows'[t] <= SizeOf(t)')
    /\ \A f \in Files : part'[f] \in {part[f], Absent} \/ (part'[f] \in Seq(Chunks) /\ Len(part'[f]) <= Size[f])
    /\ \A v \in Workers : worker'[v].pc = "gone" \/ Fits(v) \/ Starts(v)

LEMMA Sizes ==
    ASSUME Types, Types', \A t \in Ids : JobStep(t)
    PROVE  \A t \in Ids : /\ SizeOf(t) \in Nat /\ SizeOf(t)' \in Nat /\ SizeOf(t) <= SizeOf(t)'
                          /\ FileOf(t) \in Files => job'[t] = job[t] /\ SizeOf(t) = Size[FileOf(t)] /\ SizeOf(t)' = SizeOf(t)
                          /\ job'[t].file \in Files => SizeOf(t)' = Size[job'[t].file]
<1> TAKE t \in Ids
<1>1. FileOf(t) \in Files \cup {"none"} /\ job'[t].file \in Files \cup {"none"}  BY DEF Types, FileOf
<1>2. \A f \in Files : Size[f] \in Nat  BY Facts
<1>3. SizeOf(t)' = IF job'[t].file \in Files THEN Size[job'[t].file] ELSE 0  BY DEF SizeOf, FileOf
<1>4. SizeOf(t) = IF FileOf(t) \in Files THEN Size[FileOf(t)] ELSE 0  BY DEF SizeOf
<1>5. job'[t] = job[t] \/ FileOf(t) = "none"  BY DEF JobStep
<1> QED  BY <1>1, <1>2, <1>3, <1>4, <1>5, Facts DEF FileOf

LEMMA MeasuredKeeps ==
    ASSUME Basis, Types', Books, Counted, Measured
    PROVE  Sized'
<1>a. Types /\ Census /\ Sized /\ \A t \in Ids : JobStep(t)  BY DEF Basis, Counted
<1>b. \A t \in Ids : /\ SizeOf(t) \in Nat /\ SizeOf(t)' \in Nat /\ SizeOf(t) <= SizeOf(t)'
                     /\ FileOf(t) \in Files => job'[t] = job[t] /\ SizeOf(t) = Size[FileOf(t)] /\ SizeOf(t)' = SizeOf(t)
                     /\ job'[t].file \in Files => SizeOf(t)' = Size[job'[t].file]
  BY <1>a, Sizes
<1>c. got \in [Ids -> Nat] /\ rows \in [Ids -> Int] /\ got' \in [Ids -> Nat]  BY <1>a DEF Types
<1>1. \A t \in Ids : got'[t] <= SizeOf(t)'  BY <1>a, <1>b, <1>c DEF Measured, Sized
<1>2. \A t \in Ids : rows'[t] \in -1 .. SizeOf(t)'
  <2> TAKE t \in Ids
  <2>1. rows[t] \in -1 .. SizeOf(t)  BY <1>a DEF Sized
  <2>2. SizeOf(t) \in Nat /\ SizeOf(t)' \in Nat /\ SizeOf(t) <= SizeOf(t)'  BY <1>b
  <2>3. rows'[t] = NoRow \/ rows'[t] = rows[t] \/ (rows'[t] \in Nat /\ rows'[t] <= SizeOf(t)')  BY DEF Measured
  <2> QED  BY <2>1, <2>2, <2>3 DEF NoRow
<1>3. \A r \in gathered' : r.off <= SizeOf(r.t)'
  <2> TAKE r \in gathered'
  <2>1. r.t \in Ids /\ r.off \in Nat  BY DEF Types
  <2>2. r.off <= SizeOf(r.t)  BY <1>a DEF Sized, Books
  <2> QED  BY <2>1, <2>2, <1>b
<1>4. \A f \in Files : Len0(f)' <= Size[f]
  <2> TAKE f \in Files
  <2>1. Len0(f) <= Size[f] /\ Size[f] \in Nat  BY <1>a, Facts DEF Sized
  <2>2. CASE part'[f] = part[f]  BY <2>1, <2>2 DEF Len0
  <2>3. CASE part'[f] = Absent  BY <2>1, <2>3 DEF Len0
  <2>4. CASE part'[f] \in Seq(Chunks) /\ Len(part'[f]) <= Size[f]  BY <2>1, <2>4 DEF Len0
  <2> QED  BY <2>2, <2>3, <2>4 DEF Measured
<1>5. ASSUME NEW v \in Workers, worker'[v].pc # "gone" PROVE Copied(v)' /\ Placed(v)'
  <2>1. CASE Fits(v)
    <3>1. worker'[v].t = worker[v].t /\ worker[v].t \in Ids /\ F(v) \in Files /\ Copied(v)
      BY <2>1, <1>a DEF Fits, Census, Assigned, Sized
    <3>2. SizeOf(worker[v].t)' = Size[F(v)] /\ job'[worker[v].t] = job[worker[v].t]  BY <3>1, <1>b DEF F
    <3>3. Placed(v)'  BY <2>1, <3>1, <3>2 DEF Fits, Placed, Writing, F, FileOf
    <3>4. Copied(v)'
      <4>1. CASE worker'[v].seen = <<>>  BY <4>1 DEF Copied
      <4>2. ASSUME NEW t \in Ids, worker'[v].seen # <<>>
            PROVE  worker'[v].seen[t] \in -1 .. SizeOf(t)' /\ (worker'[v].seen[t] # NoRow => FileOf(t)' \in Files)
        <5>1. worker'[v].seen \in {worker[v].seen, rows}  BY <2>1, <4>2 DEF Fits
        <5>2. worker'[v].seen[t] \in -1 .. SizeOf(t) /\ (worker'[v].seen[t] # NoRow => FileOf(t) \in Files)
          <6>1. CASE worker'[v].seen = worker[v].seen  BY <6>1, <4>2, <3>1 DEF Copied
          <6>2. CASE worker'[v].seen = rows
            BY <6>2, <1>a DEF Sized, Census, Known, Types, FileOf
          <6> QED  BY <6>1, <6>2, <5>1
        <5>3. SizeOf(t) \in Nat /\ SizeOf(t)' \in Nat /\ SizeOf(t) <= SizeOf(t)'  BY <1>b
        <5>4. FileOf(t) \in Files => FileOf(t)' \in Files  BY <1>b DEF FileOf
        <5>5. worker'[v].seen[t] \in -1 .. SizeOf(t)'  BY <5>2, <5>3
        <5> QED  BY <5>2, <5>4, <5>5
      <4> QED  BY <4>1, <4>2 DEF Copied
    <3> QED  BY <3>3, <3>4
  <2>2. CASE Starts(v)
    <3>0. PICK t \in Ids : t = worker'[v].t  BY <2>2 DEF Starts
    <3>1. SizeOf(t)' \in Nat  BY <1>b
    <3>2. Copied(v)'  BY <2>2 DEF Starts, Copied
    <3>3. Placed(v)'
      BY <2>2, <3>0, <3>1 DEF Starts, Placed, Writing, F, FileOf, SizeOf
    <3> QED  BY <3>2, <3>3
  <2> QED  BY <2>1, <2>2, <1>5 DEF Measured
<1> QED  BY <1>1, <1>2, <1>3, <1>4, <1>5 DEF Sized

LEMMA MeasuredSteps ==
    ASSUME Basis, Next
    PROVE  Measured
<1>a. Types /\ Census /\ Sized /\ (\A v \in Workers : Assigned(v)) /\ \A u \in Ids : Known(u)
  BY DEF Basis, Census
<1>t. Types' /\ Counted /\ (\A t \in Ids : JobStep(t))  BY TypesKept, CountedSteps DEF Counted
<1>z. \A t \in Ids : /\ SizeOf(t) \in Nat /\ SizeOf(t)' \in Nat /\ SizeOf(t) <= SizeOf(t)'
                     /\ FileOf(t) \in Files => job'[t] = job[t] /\ SizeOf(t) = Size[FileOf(t)] /\ SizeOf(t)' = SizeOf(t)
                     /\ job'[t].file \in Files => SizeOf(t)' = Size[job'[t].file]
  BY <1>a, <1>t, Sizes
<1>w. \A v \in Workers : worker[v].pc # "gone" =>
          /\ worker[v].t \in Ids /\ F(v) \in Files /\ SizeOf(worker[v].t) = Size[F(v)]
          /\ Size[F(v)] \in Nat /\ worker[v].off \in Nat /\ worker[v].pos \in Nat
          /\ worker[v].off <= Size[F(v)] /\ worker[v].pos <= Size[F(v)] /\ Placed(v)
  BY <1>a, <1>z, Facts DEF Sized, Assigned, Placed, F, Types, WorkerRecord
<1>g. \A t \in Ids : got[t] \in Nat /\ got[t] <= SizeOf(t)  BY <1>a DEF Types, Sized
<1>n. \A f \in Files : Len0(f) \in Nat /\ Size[f] \in Nat /\ Len0(f) <= Size[f]  BY <1>a, PartLength, Facts DEF Sized
<1>k. \A t \in Ids : FileOf(t) \in Files \cup {"none"}  BY <1>a DEF Types, FileOf
<1>p. \A v \in Workers : Stays(v) => worker'[v].pc = "gone" \/ Fits(v)
  BY <1>w DEF Stays, Fits, Placed, Writing
<1>q. \A v \in Workers : worker'[v] = worker[v] => worker'[v].pc = "gone" \/ Fits(v)
  BY <1>w DEF Fits, Placed, Writing
<1>i. Idle.pc = "gone"  BY IdleTyped
<1>j. \A n, m, k \in Nat : n <= m /\ m <= k => n <= k  OBVIOUS
<1>Enqueue. ASSUME NEW f \in Files, f \notin Shards, Enqueue(f)
             PROVE  Measured
  <2>0. PICK jobs : Added(jobs) /\ \A k \in jobs : k.file \in Files
    <3>1. Added({[file |-> f, batch |-> 0]})  BY <1>Enqueue, <1>a, EnqueueDoes
    <3> QED  BY <3>1, <1>Enqueue
  <2>p. part' = part  BY <1>Enqueue, <1>a, EnqueueDoes
  <2>1. \A u \in Ids : got'[u] = got[u] \/ got'[u] <= SizeOf(u)'
    <3> TAKE u \in Ids
    <3>1. CASE got'[u] = got[u]  BY <3>1
    <3>2. CASE job'[u] \in jobs /\ got'[u] \in {0, Len0(job'[u].file)}  BY <3>2, <2>0, <1>z, <1>n
    <3> QED  BY <3>1, <3>2, <2>0 DEF Added
  <2>2. \A u \in Ids : rows'[u] \in {NoRow, rows[u]} \/ (rows'[u] \in Nat /\ rows'[u] <= SizeOf(u)')
    <3> TAKE u \in Ids
    <3>1. CASE rows'[u] = rows[u]  BY <3>1
    <3>2. CASE job'[u] \in jobs /\ got'[u] \in {0, Len0(job'[u].file)} /\ rows'[u] = got'[u]
       BY <3>2, <2>0, <1>z, <1>n
    <3> QED  BY <3>1, <3>2, <2>0 DEF Added
  <2>3. \A g \in Files : part'[g] \in {part[g], Absent} \/ (part'[g] \in Seq(Chunks) /\ Len(part'[g]) <= Size[g])
    BY <2>p
  <2>4. \A v \in Workers : worker'[v].pc = "gone" \/ Fits(v) \/ Starts(v)
    <3>1. ASSUME NEW v \in Workers, worker'[v] # worker[v] PROVE Starts(v)
      <4>1. worker'[v].t \in Ids /\ worker'[v] = [Idle EXCEPT !.t = worker'[v].t, !.pc = "wait"]
        BY <3>1, <2>0 DEF Added
      <4> QED  BY <4>1 DEF Starts, Idle
    <3> QED  BY <3>1, <1>q
  <2> QED  BY <2>1, <2>2, <2>3, <2>4 DEF Measured
<1>Reextract. ASSUME NEW f \in Files, Reextract(f)
               PROVE  Measured
  <2>0. PICK x \in Ids, y \in Workers : Extracting(f, x, y)  BY <1>Reextract, <1>a, ReextractDoes
  <2>r. rows' = rows /\ part' = part /\ f \notin Shards  BY <1>Reextract, <1>a, ReextractDoes, Facts
  <2>1. \A u \in Ids : got'[u] = got[u] \/ got'[u] <= SizeOf(u)'
    <3>1. got'[x] = Size[f] /\ job'[x].file = f /\ \A u \in Ids \ {x} : got'[u] = got[u]  BY <2>0 DEF Extracting
    <3> QED  BY <3>1, <1>z, <1>n
  <2>2. \A u \in Ids : rows'[u] \in {NoRow, rows[u]} \/ (rows'[u] \in Nat /\ rows'[u] <= SizeOf(u)')
    BY <2>r
  <2>3. \A g \in Files : part'[g] \in {part[g], Absent} \/ (part'[g] \in Seq(Chunks) /\ Len(part'[g]) <= Size[g])
    BY <2>r
  <2>4. \A v \in Workers : worker'[v].pc = "gone" \/ Fits(v) \/ Starts(v)
    <3>1. \A v \in Workers : v # y => worker'[v] = worker[v]  BY <2>0 DEF Extracting, Others
    <3>2. Starts(y)  BY <2>0, <2>r DEF Extracting, Starts
    <3> QED  BY <3>1, <3>2, <1>q
  <2> QED  BY <2>1, <2>2, <2>3, <2>4 DEF Measured
<1>EmptyTrash. ASSUME NEW f \in Files, EmptyTrash(f)
                PROVE  Measured
  <2>1. \A u \in Ids : got'[u] = got[u] \/ got'[u] <= SizeOf(u)'
    BY <1>EmptyTrash, <1>a, EmptyTrashDoes DEF memory, disk, history
  <2>2. \A u \in Ids : rows'[u] \in {NoRow, rows[u]} \/ (rows'[u] \in Nat /\ rows'[u] <= SizeOf(u)')
    BY <1>EmptyTrash, <1>a, EmptyTrashDoes DEF memory, disk, history
  <2>3. \A g \in Files : part'[g] \in {part[g], Absent} \/ (part'[g] \in Seq(Chunks) /\ Len(part'[g]) <= Size[g])
    BY <1>EmptyTrash, <1>a, EmptyTrashDoes DEF memory, disk, history
  <2>4. \A v \in Workers : worker'[v].pc = "gone" \/ Fits(v) \/ Starts(v)
    BY <1>EmptyTrash, <1>a, <1>p, EmptyTrashDoes DEF Bystander
  <2> QED  BY <2>1, <2>2, <2>3, <2>4 DEF Measured
<1>Pause. ASSUME NEW t \in Ids, Pause(t)
           PROVE  Measured
  <2>1. \A u \in Ids : got'[u] = got[u] \/ got'[u] <= SizeOf(u)'
    BY <1>Pause DEF Pause, memory, disk
  <2>2. \A u \in Ids : rows'[u] \in {NoRow, rows[u]} \/ (rows'[u] \in Nat /\ rows'[u] <= SizeOf(u)')
    BY <1>Pause DEF Pause, memory, disk
  <2>3. \A g \in Files : part'[g] \in {part[g], Absent} \/ (part'[g] \in Seq(Chunks) /\ Len(part'[g]) <= Size[g])
    BY <1>Pause DEF Pause, memory, disk
  <2>4. \A v \in Workers : worker'[v].pc = "gone" \/ Fits(v) \/ Starts(v)
    BY <1>Pause, <1>q DEF Pause
  <2> QED  BY <2>1, <2>2, <2>3, <2>4 DEF Measured
<1>Resume. ASSUME NEW t \in Ids, Resume(t)
            PROVE  Measured
  <2>0. Known(t)  BY <1>a
  <2>y. /\ FileOf(t) \in Files /\ part' = part
        /\ got' \in [Ids -> Nat] /\ rows' \in [Ids -> Int] /\ rows'[t] = got'[t]
        /\ got'[t] \in {got[t], Len0(FileOf(t))}
        /\ \A u \in Ids \ {t} : got'[u] = got[u] /\ rows'[u] = rows[u]
        /\ \A v \in Workers : \/ worker'[v] = worker[v]
                              \/ /\ worker[v].pc = "gone" /\ worker'[v].t = t
                                 /\ worker'[v] = [Idle EXCEPT !.t = worker'[v].t, !.pc = "wait"]
    BY <2>0, <1>Resume, <1>a, ResumeDoes
  <2>z. got'[t] \in Nat /\ got'[t] <= SizeOf(t)'  BY <2>y, <1>z, <1>g, <1>n
  <2>1. \A u \in Ids : got'[u] = got[u] \/ got'[u] <= SizeOf(u)'
    BY <2>y, <2>z
  <2>2. \A u \in Ids : rows'[u] \in {NoRow, rows[u]} \/ (rows'[u] \in Nat /\ rows'[u] <= SizeOf(u)')
    BY <2>y, <2>z
  <2>3. \A g \in Files : part'[g] \in {part[g], Absent} \/ (part'[g] \in Seq(Chunks) /\ Len(part'[g]) <= Size[g])
    BY <2>y
  <2>4. \A v \in Workers : worker'[v].pc = "gone" \/ Fits(v) \/ Starts(v)
    <3>1. ASSUME NEW v \in Workers, worker'[v] # worker[v] PROVE Starts(v)
      <4>1. worker'[v].t \in Ids /\ worker'[v] = [Idle EXCEPT !.t = worker'[v].t, !.pc = "wait"]
        BY <3>1, <2>y
      <4> QED  BY <4>1 DEF Starts, Idle
    <3> QED  BY <3>1, <1>q
  <2> QED  BY <2>1, <2>2, <2>3, <2>4 DEF Measured
<1>Cancel. ASSUME NEW t \in Ids, Cancel(t)
            PROVE  Measured
  <2>0. PICK hit \in SUBSET Ids :
                 /\ \A u \in hit : status[u] # "none"
                 /\ status' = [u \in Ids |-> IF u \in hit THEN "Failed" ELSE status[u]]
                 /\ rows' = [u \in Ids |-> IF u \in hit THEN NoRow ELSE rows[u]]
    BY <1>Cancel, <1>a, CancelDoes
  <2>u. UNCHANGED <<got, part, worker>>  BY <1>Cancel, <1>a, CancelDoes
  <2>1. \A u \in Ids : got'[u] = got[u] \/ got'[u] <= SizeOf(u)'
    BY <2>u
  <2>2. \A u \in Ids : rows'[u] \in {NoRow, rows[u]} \/ (rows'[u] \in Nat /\ rows'[u] <= SizeOf(u)')
    BY <2>0
  <2>3. \A g \in Files : part'[g] \in {part[g], Absent} \/ (part'[g] \in Seq(Chunks) /\ Len(part'[g]) <= Size[g])
    BY <2>u
  <2>4. \A v \in Workers : worker'[v].pc = "gone" \/ Fits(v) \/ Starts(v)
    BY <2>u, <1>q
  <2> QED  BY <2>1, <2>2, <2>3, <2>4 DEF Measured
<1>Reprioritize. ASSUME NEW t \in Ids, NEW p \in 0 .. 1, Reprioritize(t, p)
                  PROVE  Measured
  <2>1. \A u \in Ids : got'[u] = got[u] \/ got'[u] <= SizeOf(u)'
    BY <1>Reprioritize DEF Reprioritize, memory, disk
  <2>2. \A u \in Ids : rows'[u] \in {NoRow, rows[u]} \/ (rows'[u] \in Nat /\ rows'[u] <= SizeOf(u)')
    BY <1>Reprioritize DEF Reprioritize, memory, disk
  <2>3. \A g \in Files : part'[g] \in {part[g], Absent} \/ (part'[g] \in Seq(Chunks) /\ Len(part'[g]) <= Size[g])
    BY <1>Reprioritize DEF Reprioritize, memory, disk
  <2>4. \A v \in Workers : worker'[v].pc = "gone" \/ Fits(v) \/ Starts(v)
    BY <1>Reprioritize, <1>q DEF Reprioritize
  <2> QED  BY <2>1, <2>2, <2>3, <2>4 DEF Measured
<1>StartQuant. ASSUME StartQuant
                PROVE  Measured
  <2>0. PICK jobs : Added(jobs) /\ \A k \in jobs : k.file \in Files
    BY <1>StartQuant, <1>a, StartQuantDoes, Facts
  <2>p. part' = part  BY <1>StartQuant, <1>a, StartQuantDoes
  <2>1. \A u \in Ids : got'[u] = got[u] \/ got'[u] <= SizeOf(u)'
    <3> TAKE u \in Ids
    <3>1. CASE got'[u] = got[u]  BY <3>1
    <3>2. CASE job'[u] \in jobs /\ got'[u] \in {0, Len0(job'[u].file)}  BY <3>2, <2>0, <1>z, <1>n
    <3> QED  BY <3>1, <3>2, <2>0 DEF Added
  <2>2. \A u \in Ids : rows'[u] \in {NoRow, rows[u]} \/ (rows'[u] \in Nat /\ rows'[u] <= SizeOf(u)')
    <3> TAKE u \in Ids
    <3>1. CASE rows'[u] = rows[u]  BY <3>1
    <3>2. CASE job'[u] \in jobs /\ got'[u] \in {0, Len0(job'[u].file)} /\ rows'[u] = got'[u]
       BY <3>2, <2>0, <1>z, <1>n
    <3> QED  BY <3>1, <3>2, <2>0 DEF Added
  <2>3. \A g \in Files : part'[g] \in {part[g], Absent} \/ (part'[g] \in Seq(Chunks) /\ Len(part'[g]) <= Size[g])
    BY <2>p
  <2>4. \A v \in Workers : worker'[v].pc = "gone" \/ Fits(v) \/ Starts(v)
    <3>1. ASSUME NEW v \in Workers, worker'[v] # worker[v] PROVE Starts(v)
      <4>1. worker'[v].t \in Ids /\ worker'[v] = [Idle EXCEPT !.t = worker'[v].t, !.pc = "wait"]
        BY <3>1, <2>0 DEF Added
      <4> QED  BY <4>1 DEF Starts, Idle
    <3> QED  BY <3>1, <1>q
  <2> QED  BY <2>1, <2>2, <2>3, <2>4 DEF Measured
<1>Recovering. ASSUME RecoverCommand \/ Recover
                PROVE  Measured
  <2>0. Reconciled  BY <1>Recovering, <1>a, RecoveringDoes
  <2>g. \A u \in Ids : (job'[u].file \in Files /\ got'[u] <= Size[job'[u].file]) \/ (job'[u] = job[u] /\ got'[u] = got[u])
    BY <2>0 DEF Reconciled
  <2>r. \A u \in Ids : rows'[u] = NoRow \/ (job'[u] = job[u] /\ rows'[u] = rows[u])
             \/ (rows'[u] \in Nat /\ job'[u].file \in Files /\ rows'[u] <= Size[job'[u].file])
    BY <2>0 DEF Reconciled
  <2>1. \A u \in Ids : got'[u] = got[u] \/ got'[u] <= SizeOf(u)'
    BY <2>g, <1>z
  <2>2. \A u \in Ids : rows'[u] \in {NoRow, rows[u]} \/ (rows'[u] \in Nat /\ rows'[u] <= SizeOf(u)')
    BY <2>r, <1>z
  <2>3. \A g \in Files : part'[g] \in {part[g], Absent} \/ (part'[g] \in Seq(Chunks) /\ Len(part'[g]) <= Size[g])
    <3>1. PICK done, moved : Renamed(done, moved)  BY <2>0 DEF Reconciled
    <3>2. \A g \in Files : part'[g] \in {part[g], Absent}  BY <3>1 DEF Renamed
    <3> QED  BY <3>2
  <2>4. \A v \in Workers : worker'[v].pc = "gone" \/ Fits(v) \/ Starts(v)
    BY <2>0, <1>p DEF Reconciled, Bystander
  <2> QED  BY <2>1, <2>2, <2>3, <2>4 DEF Measured
<1>Restart. ASSUME Restart
             PROVE  Measured
  <2>0. rows' = rows /\ got' = [u \in Ids |-> 0] /\ \A v \in Workers : worker'[v] = Idle
    BY <1>Restart, <1>a, RestartingDoes
  <2>p. part' = part  BY <1>Restart, <1>a, RestartingDoes DEF Restart, disk
  <2>1. \A u \in Ids : got'[u] = got[u] \/ got'[u] <= SizeOf(u)'
    BY <2>0, <1>z
  <2>2. \A u \in Ids : rows'[u] \in {NoRow, rows[u]} \/ (rows'[u] \in Nat /\ rows'[u] <= SizeOf(u)')
    BY <2>0
  <2>3. \A g \in Files : part'[g] \in {part[g], Absent} \/ (part'[g] \in Seq(Chunks) /\ Len(part'[g]) <= Size[g])
    BY <2>p
  <2>4. \A v \in Workers : worker'[v].pc = "gone" \/ Fits(v) \/ Starts(v)
    BY <2>0, <1>i
  <2> QED  BY <2>1, <2>2, <2>3, <2>4 DEF Measured
<1>Renaming. ASSUME NEW b \in batches, NEW some \in SUBSET Shards, RestartRenaming(b, some)
              PROVE  Measured
  <2>0. rows' = rows /\ got' = [u \in Ids |-> 0] /\ \A v \in Workers : worker'[v] = Idle
    BY <1>Renaming, <1>a, RestartingDoes
  <2>p. \A g \in Files : part'[g] \in {part[g], Absent}  BY <1>Renaming, <1>a, RenamingDoes
  <2>1. \A u \in Ids : got'[u] = got[u] \/ got'[u] <= SizeOf(u)'
    BY <2>0, <1>z
  <2>2. \A u \in Ids : rows'[u] \in {NoRow, rows[u]} \/ (rows'[u] \in Nat /\ rows'[u] <= SizeOf(u)')
    BY <2>0
  <2>3. \A g \in Files : part'[g] \in {part[g], Absent} \/ (part'[g] \in Seq(Chunks) /\ Len(part'[g]) <= Size[g])
    BY <2>p
  <2>4. \A v \in Workers : worker'[v].pc = "gone" \/ Fits(v) \/ Starts(v)
    BY <2>0, <1>i
  <2> QED  BY <2>1, <2>2, <2>3, <2>4 DEF Measured
<1>Gather. ASSUME Gather
            PROVE  Measured
  <2>0. UNCHANGED <<got, rows, part, worker>>  BY <1>Gather, <1>a, GatherDoes DEF disk
  <2>1. \A u \in Ids : got'[u] = got[u] \/ got'[u] <= SizeOf(u)'
    BY <2>0
  <2>2. \A u \in Ids : rows'[u] \in {NoRow, rows[u]} \/ (rows'[u] \in Nat /\ rows'[u] <= SizeOf(u)')
    BY <2>0
  <2>3. \A g \in Files : part'[g] \in {part[g], Absent} \/ (part'[g] \in Seq(Chunks) /\ Len(part'[g]) <= Size[g])
    BY <2>0
  <2>4. \A v \in Workers : worker'[v].pc = "gone" \/ Fits(v) \/ Starts(v)
    BY <2>0, <1>q
  <2> QED  BY <2>1, <2>2, <2>3, <2>4 DEF Measured
<1>FindSlot. ASSUME NEW w \in Workers, FindSlot(w)
              PROVE  Measured
  <2>1. \A u \in Ids : got'[u] = got[u] \/ got'[u] <= SizeOf(u)'
    BY <1>FindSlot, <1>a, FindSlotDoes DEF memory, disk, history
  <2>2. \A u \in Ids : rows'[u] \in {NoRow, rows[u]} \/ (rows'[u] \in Nat /\ rows'[u] <= SizeOf(u)')
    BY <1>FindSlot, <1>a, FindSlotDoes DEF memory, disk, history
  <2>3. \A g \in Files : part'[g] \in {part[g], Absent} \/ (part'[g] \in Seq(Chunks) /\ Len(part'[g]) <= Size[g])
    BY <1>FindSlot, <1>a, FindSlotDoes DEF memory, disk, history
  <2>4. \A v \in Workers : worker'[v].pc = "gone" \/ Fits(v) \/ Starts(v)
    <3>1. \A v \in Workers : v # w => worker'[v] = worker[v]  BY <1>FindSlot, <1>a, FindSlotDoes DEF Goes, Others
    <3>2. worker'[w].pc = "gone" \/ Fits(w)
      BY <1>FindSlot, <1>a, <1>w, <1>n, <1>i, FindSlotDoes DEF Goes, Fits, Placed, Writing
    <3> QED  BY <3>1, <3>2, <1>q
  <2> QED  BY <2>1, <2>2, <2>3, <2>4 DEF Measured
<1>GiveUp. ASSUME NEW w \in Workers, GiveUp(w)
            PROVE  Measured
  <2>1. \A u \in Ids : got'[u] = got[u] \/ got'[u] <= SizeOf(u)'
    BY <1>GiveUp, <1>a, GiveUpDoes DEF memory, disk, history
  <2>2. \A u \in Ids : rows'[u] \in {NoRow, rows[u]} \/ (rows'[u] \in Nat /\ rows'[u] <= SizeOf(u)')
    BY <1>GiveUp, <1>a, GiveUpDoes DEF memory, disk, history
  <2>3. \A g \in Files : part'[g] \in {part[g], Absent} \/ (part'[g] \in Seq(Chunks) /\ Len(part'[g]) <= Size[g])
    BY <1>GiveUp, <1>a, GiveUpDoes DEF memory, disk, history
  <2>4. \A v \in Workers : worker'[v].pc = "gone" \/ Fits(v) \/ Starts(v)
    <3>1. \A v \in Workers : v # w => worker'[v] = worker[v]  BY <1>GiveUp, <1>a, GiveUpDoes DEF Goes, Others
    <3>2. worker'[w].pc = "gone" \/ Fits(w)
      BY <1>GiveUp, <1>a, <1>w, <1>n, <1>i, GiveUpDoes DEF Goes, Fits, Placed, Writing
    <3> QED  BY <3>1, <3>2, <1>q
  <2> QED  BY <2>1, <2>2, <2>3, <2>4 DEF Measured
<1>Claim. ASSUME NEW w \in Workers, Claim(w)
           PROVE  Measured
  <2>0. worker[w].t \in Ids /\ worker[w].pc # "gone" /\ F(w) \in Files /\ part' = part /\ rows' = rows
    BY <1>Claim, <1>a, <1>w, ClaimDoes DEF disk
  <2>1. \A u \in Ids : got'[u] = got[u] \/ got'[u] <= SizeOf(u)'
    <3>0. PICK x \in Ids : x = worker[w].t  BY <2>0
    <3>1. got' = [got EXCEPT ![x] = Len0(F(w))] \/ got' = got  BY <3>0, <1>Claim, <1>a, ClaimDoes
    <3>2. Len0(F(w)) <= SizeOf(x)'  BY <2>0, <3>0, <1>n, <1>z DEF F
    <3>3. got \in [Ids -> Nat]  BY <1>a DEF Types
    <3> QED  BY <3>1, <3>2, <3>3
  <2>2. \A u \in Ids : rows'[u] \in {NoRow, rows[u]} \/ (rows'[u] \in Nat /\ rows'[u] <= SizeOf(u)')
    BY <2>0
  <2>3. \A g \in Files : part'[g] \in {part[g], Absent} \/ (part'[g] \in Seq(Chunks) /\ Len(part'[g]) <= Size[g])
    BY <2>0
  <2>4. \A v \in Workers : worker'[v].pc = "gone" \/ Fits(v) \/ Starts(v)
    <3>1. \A v \in Workers : v # w => worker'[v] = worker[v]  BY <1>Claim, <1>a, ClaimDoes DEF Goes, Others
    <3>2. worker'[w].pc = "gone" \/ Fits(w)
      BY <1>Claim, <1>a, <1>w, <1>n, <1>i, ClaimDoes DEF Goes, Fits, Placed, Writing
    <3> QED  BY <3>1, <3>2, <1>q
  <2> QED  BY <2>1, <2>2, <2>3, <2>4 DEF Measured
<1>Open. ASSUME NEW w \in Workers, Open(w)
          PROVE  Measured
  <2>1. \A u \in Ids : got'[u] = got[u] \/ got'[u] <= SizeOf(u)'
    BY <1>Open, <1>a, OpenDoes DEF memory, disk, history
  <2>2. \A u \in Ids : rows'[u] \in {NoRow, rows[u]} \/ (rows'[u] \in Nat /\ rows'[u] <= SizeOf(u)')
    BY <1>Open, <1>a, OpenDoes DEF memory, disk, history
  <2>3. \A g \in Files : part'[g] \in {part[g], Absent} \/ (part'[g] \in Seq(Chunks) /\ Len(part'[g]) <= Size[g])
    <3>1. /\ part'[F(w)] \in Seq(Chunks) /\ Len(part'[F(w)]) = worker[w].off
          /\ worker[w].off <= Size[F(w)] /\ \A g \in Files \ {F(w)} : part'[g] = part[g]
      BY <1>Open, <1>a, <1>w, OpenDoes
    <3> QED  BY <3>1
  <2>4. \A v \in Workers : worker'[v].pc = "gone" \/ Fits(v) \/ Starts(v)
    <3>1. \A v \in Workers : v # w => worker'[v] = worker[v]  BY <1>Open, <1>a, OpenDoes DEF Goes, Others
    <3>2. worker'[w].pc = "gone" \/ Fits(w)
      BY <1>Open, <1>a, <1>w, <1>n, <1>i, OpenDoes DEF Goes, Fits, Placed, Writing
    <3> QED  BY <3>1, <3>2, <1>q
  <2> QED  BY <2>1, <2>2, <2>3, <2>4 DEF Measured
<1>Answered. ASSUME NEW w \in Workers, Answered(w)
              PROVE  Measured
  <2>1. \A u \in Ids : got'[u] = got[u] \/ got'[u] <= SizeOf(u)'
    BY <1>Answered, <1>a, AnsweredDoes DEF memory, disk, history
  <2>2. \A u \in Ids : rows'[u] \in {NoRow, rows[u]} \/ (rows'[u] \in Nat /\ rows'[u] <= SizeOf(u)')
    BY <1>Answered, <1>a, AnsweredDoes DEF memory, disk, history
  <2>3. \A g \in Files : part'[g] \in {part[g], Absent} \/ (part'[g] \in Seq(Chunks) /\ Len(part'[g]) <= Size[g])
    BY <1>Answered, <1>a, AnsweredDoes DEF memory, disk, history
  <2>4. \A v \in Workers : worker'[v].pc = "gone" \/ Fits(v) \/ Starts(v)
    <3>1. \A v \in Workers : v # w => worker'[v] = worker[v]  BY <1>Answered, <1>a, AnsweredDoes DEF Goes, Others
    <3>2. worker'[w].pc = "gone" \/ Fits(w)
      BY <1>Answered, <1>a, <1>w, <1>n, <1>i, AnsweredDoes DEF Goes, Fits, Placed, Writing
    <3> QED  BY <3>1, <3>2, <1>q
  <2> QED  BY <2>1, <2>2, <2>3, <2>4 DEF Measured
<1>AnsweredWhole. ASSUME NEW w \in Workers, AnsweredWhole(w)
                   PROVE  Measured
  <2>1. \A u \in Ids : got'[u] = got[u] \/ got'[u] <= SizeOf(u)'
    <3>1. got' = [got EXCEPT ![worker[w].t] = 0]  BY <1>AnsweredWhole DEF AnsweredWhole
    <3> QED  BY <3>1, <1>z, <1>a DEF Types
  <2>2. \A u \in Ids : rows'[u] \in {NoRow, rows[u]} \/ (rows'[u] \in Nat /\ rows'[u] <= SizeOf(u)')
    BY <1>AnsweredWhole, <1>a, AnsweredWholeDoes DEF memory, disk, history
  <2>3. \A g \in Files : part'[g] \in {part[g], Absent} \/ (part'[g] \in Seq(Chunks) /\ Len(part'[g]) <= Size[g])
    <3>1. F(w) \in Files /\ part'[F(w)] = <<>> /\ part'[F(w)] \in Seq(Chunks) /\ \A g \in Files \ {F(w)} : part'[g] = part[g]
      BY <1>AnsweredWhole, <1>a, AnsweredWholeDoes
    <3>2. Len(<<>>) = 0 /\ 0 <= Size[F(w)]  BY <3>1, <1>n
    <3>3. part'[F(w)] \in Seq(Chunks) /\ Len(part'[F(w)]) <= Size[F(w)]  BY <3>1, <3>2
    <3> QED  BY <3>1, <3>3
  <2>4. \A v \in Workers : worker'[v].pc = "gone" \/ Fits(v) \/ Starts(v)
    <3>1. \A v \in Workers : v # w => worker'[v] = worker[v]
       BY <1>AnsweredWhole, <1>a, AnsweredWholeDoes DEF Goes, Others
    <3>2. worker'[w].pc = "gone" \/ Fits(w)
      BY <1>AnsweredWhole, <1>a, <1>w, <1>n, <1>i, AnsweredWholeDoes DEF Goes, Fits, Placed, Writing
    <3> QED  BY <3>1, <3>2, <1>q
  <2> QED  BY <2>1, <2>2, <2>3, <2>4 DEF Measured
<1>StopAsked. ASSUME NEW w \in Workers, StopAsked(w)
               PROVE  Measured
  <2>1. \A u \in Ids : got'[u] = got[u] \/ got'[u] <= SizeOf(u)'
    <3>1. Flush(w) /\ worker[w].pc # "gone" /\ job' = job  BY <1>StopAsked, <1>a, StopAskedDoes DEF StopAsked
    <3>2. worker[w].t \in Ids /\ F(w) \in Files  BY <3>1, <1>w
    <3>3. got'[worker[w].t] <= SizeOf(worker[w].t) /\ \A u \in Ids \ {worker[w].t} : got'[u] = got[u]
      BY <3>1, <3>2, <1>a, FlushDoes
    <3> QED  BY <3>1, <3>2, <3>3 DEF SizeOf, FileOf
  <2>2. \A u \in Ids : rows'[u] \in {NoRow, rows[u]} \/ (rows'[u] \in Nat /\ rows'[u] <= SizeOf(u)')
    BY <1>StopAsked, <1>a, StopAskedDoes DEF memory, disk, history
  <2>3. \A g \in Files : part'[g] \in {part[g], Absent} \/ (part'[g] \in Seq(Chunks) /\ Len(part'[g]) <= Size[g])
    BY <1>StopAsked, <1>a, StopAskedDoes DEF memory, disk, history
  <2>4. \A v \in Workers : worker'[v].pc = "gone" \/ Fits(v) \/ Starts(v)
    <3>1. \A v \in Workers : v # w => worker'[v] = worker[v]  BY <1>StopAsked, <1>a, StopAskedDoes DEF Goes, Others
    <3>2. worker'[w].pc = "gone" \/ Fits(w)
      BY <1>StopAsked, <1>a, <1>w, <1>n, <1>i, StopAskedDoes DEF Goes, Fits, Placed, Writing
    <3> QED  BY <3>1, <3>2, <1>q
  <2> QED  BY <2>1, <2>2, <2>3, <2>4 DEF Measured
<1>Tick. ASSUME NEW w \in Workers, Tick(w)
          PROVE  Measured
  <2>1. \A u \in Ids : got'[u] = got[u] \/ got'[u] <= SizeOf(u)'
    <3>1. Flush(w) /\ worker[w].pc # "gone" /\ job' = job  BY <1>Tick, <1>a, TickDoes DEF Tick
    <3>2. worker[w].t \in Ids /\ F(w) \in Files  BY <3>1, <1>w
    <3>3. got'[worker[w].t] <= SizeOf(worker[w].t) /\ \A u \in Ids \ {worker[w].t} : got'[u] = got[u]
      BY <3>1, <3>2, <1>a, FlushDoes
    <3> QED  BY <3>1, <3>2, <3>3 DEF SizeOf, FileOf
  <2>2. \A u \in Ids : rows'[u] \in {NoRow, rows[u]} \/ (rows'[u] \in Nat /\ rows'[u] <= SizeOf(u)')
    BY <1>Tick, <1>a, TickDoes DEF memory, disk, history
  <2>3. \A g \in Files : part'[g] \in {part[g], Absent} \/ (part'[g] \in Seq(Chunks) /\ Len(part'[g]) <= Size[g])
    BY <1>Tick, <1>a, TickDoes DEF memory, disk, history
  <2>4. \A v \in Workers : worker'[v].pc = "gone" \/ Fits(v) \/ Starts(v)
    <3>1. \A v \in Workers : v # w => worker'[v] = worker[v]  BY <1>Tick, <1>a, TickDoes DEF Goes, Others
    <3>2. worker'[w].pc = "gone" \/ Fits(w)
      BY <1>Tick, <1>a, <1>w, <1>n, <1>i, TickDoes DEF Goes, Fits, Placed, Writing
    <3> QED  BY <3>1, <3>2, <1>q
  <2> QED  BY <2>1, <2>2, <2>3, <2>4 DEF Measured
<1>Chunk. ASSUME NEW w \in Workers, NEW c \in Chunks, Chunk(w, c)
           PROVE  Measured
  <2>1. \A u \in Ids : got'[u] = got[u] \/ got'[u] <= SizeOf(u)'
    BY <1>Chunk, <1>a, ChunkDoes DEF memory, disk, history
  <2>2. \A u \in Ids : rows'[u] \in {NoRow, rows[u]} \/ (rows'[u] \in Nat /\ rows'[u] <= SizeOf(u)')
    BY <1>Chunk, <1>a, ChunkDoes DEF memory, disk, history
  <2>3. \A g \in Files : part'[g] \in {part[g], Absent} \/ (part'[g] \in Seq(Chunks) /\ Len(part'[g]) <= Size[g])
    <3>1. F(w) \in Files /\ worker[w].pos < Size[F(w)] /\ worker[w].pos \in Nat
      BY <1>Chunk, <1>a, <1>w, ChunkDoes
    <3>2. CASE worker[w].on = "part"
      <4>1. /\ part'[F(w)] \in Seq(Chunks) /\ \A g \in Files \ {F(w)} : part'[g] = part[g]
            /\ Len(part'[F(w)]) = IF Len0(F(w)) < worker[w].pos + 1 THEN worker[w].pos + 1 ELSE Len0(F(w))
        BY <1>Chunk, <1>a, <3>2, ChunkDoes
      <4>2. Len(part'[F(w)]) <= Size[F(w)]  BY <4>1, <3>1, <1>n
      <4> QED  BY <4>1, <4>2
    <3>3. CASE worker[w].on # "part"  BY <1>Chunk, <1>a, <3>3, ChunkDoes
    <3> QED  BY <3>2, <3>3
  <2>4. \A v \in Workers : worker'[v].pc = "gone" \/ Fits(v) \/ Starts(v)
    <3>1. \A v \in Workers : v # w => worker'[v] = worker[v]  BY <1>Chunk, <1>a, ChunkDoes DEF Goes, Others
    <3>2. worker'[w].pc = "gone" \/ Fits(w)
      BY <1>Chunk, <1>a, <1>w, <1>n, <1>i, ChunkDoes DEF Goes, Fits, Placed, Writing
    <3> QED  BY <3>1, <3>2, <1>q
  <2> QED  BY <2>1, <2>2, <2>3, <2>4 DEF Measured
<1>StreamEnds. ASSUME NEW w \in Workers, StreamEnds(w)
                PROVE  Measured
  <2>1. \A u \in Ids : got'[u] = got[u] \/ got'[u] <= SizeOf(u)'
    <3>1. Flush(w) /\ worker[w].pc # "gone" /\ job' = job  BY <1>StreamEnds, <1>a, StreamEndsDoes DEF StreamEnds
    <3>2. worker[w].t \in Ids /\ F(w) \in Files  BY <3>1, <1>w
    <3>3. got'[worker[w].t] <= SizeOf(worker[w].t) /\ \A u \in Ids \ {worker[w].t} : got'[u] = got[u]
      BY <3>1, <3>2, <1>a, FlushDoes
    <3> QED  BY <3>1, <3>2, <3>3 DEF SizeOf, FileOf
  <2>2. \A u \in Ids : rows'[u] \in {NoRow, rows[u]} \/ (rows'[u] \in Nat /\ rows'[u] <= SizeOf(u)')
    BY <1>StreamEnds, <1>a, StreamEndsDoes DEF memory, disk, history
  <2>3. \A g \in Files : part'[g] \in {part[g], Absent} \/ (part'[g] \in Seq(Chunks) /\ Len(part'[g]) <= Size[g])
    BY <1>StreamEnds, <1>a, StreamEndsDoes DEF memory, disk, history
  <2>4. \A v \in Workers : worker'[v].pc = "gone" \/ Fits(v) \/ Starts(v)
    <3>1. \A v \in Workers : v # w => worker'[v] = worker[v]  BY <1>StreamEnds, <1>a, StreamEndsDoes DEF Goes, Others
    <3>2. worker'[w].pc = "gone" \/ Fits(w)
      BY <1>StreamEnds, <1>a, <1>w, <1>n, <1>i, StreamEndsDoes DEF Goes, Fits, Placed, Writing
    <3> QED  BY <3>1, <3>2, <1>q
  <2> QED  BY <2>1, <2>2, <2>3, <2>4 DEF Measured
<1>Trouble. ASSUME NEW w \in Workers, Trouble(w)
             PROVE  Measured
  <2>1. \A u \in Ids : got'[u] = got[u] \/ got'[u] <= SizeOf(u)'
    BY <1>Trouble, <1>a, TroubleDoes DEF memory, disk, history
  <2>2. \A u \in Ids : rows'[u] \in {NoRow, rows[u]} \/ (rows'[u] \in Nat /\ rows'[u] <= SizeOf(u)')
    BY <1>Trouble, <1>a, TroubleDoes DEF memory, disk, history
  <2>3. \A g \in Files : part'[g] \in {part[g], Absent} \/ (part'[g] \in Seq(Chunks) /\ Len(part'[g]) <= Size[g])
    BY <1>Trouble, <1>a, TroubleDoes DEF memory, disk, history
  <2>4. \A v \in Workers : worker'[v].pc = "gone" \/ Fits(v) \/ Starts(v)
    <3>1. \A v \in Workers : v # w => worker'[v] = worker[v]  BY <1>Trouble, <1>a, TroubleDoes DEF Goes, Others
    <3>2. worker'[w].pc = "gone" \/ Fits(w)
      BY <1>Trouble, <1>a, <1>w, <1>n, <1>i, TroubleDoes DEF Goes, Fits, Placed, Writing
    <3> QED  BY <3>1, <3>2, <1>q
  <2> QED  BY <2>1, <2>2, <2>3, <2>4 DEF Measured
<1>Fail. ASSUME NEW w \in Workers, Fail(w)
          PROVE  Measured
  <2>0. worker[w].pc # "gone" /\ worker[w].t \in Ids  BY <1>Fail, <1>a, <1>w, FailDoes
  <2>1. \A u \in Ids : got'[u] = got[u] \/ got'[u] <= SizeOf(u)'
    BY <1>Fail, <1>a, FailDoes DEF memory, disk, history
  <2>2. \A u \in Ids : rows'[u] \in {NoRow, rows[u]} \/ (rows'[u] \in Nat /\ rows'[u] <= SizeOf(u)')
    <3>1. \A u \in Ids : rows'[u] \in {NoRow, rows[u], got[u]}
      BY <2>0, <1>Fail, <1>a, FailDoes DEF Types
    <3>2. \A u \in Ids : got[u] \in Nat /\ got[u] <= SizeOf(u)'  BY <1>g, <1>z
    <3> QED  BY <3>1, <3>2
  <2>3. \A g \in Files : part'[g] \in {part[g], Absent} \/ (part'[g] \in Seq(Chunks) /\ Len(part'[g]) <= Size[g])
    BY <1>Fail, <1>a, FailDoes DEF memory, disk, history
  <2>4. \A v \in Workers : worker'[v].pc = "gone" \/ Fits(v) \/ Starts(v)
    <3>1. \A v \in Workers : v # w => worker'[v] = worker[v]  BY <1>Fail, <1>a, FailDoes DEF Goes, Others
    <3>2. worker'[w].pc = "gone" \/ Fits(w)
      BY <1>Fail, <1>a, <1>w, <1>n, <1>i, FailDoes DEF Goes, Fits, Placed, Writing
    <3> QED  BY <3>1, <3>2, <1>q
  <2> QED  BY <2>1, <2>2, <2>3, <2>4 DEF Measured
<1>LoadRows. ASSUME NEW w \in Workers, LoadRows(w)
              PROVE  Measured
  <2>1. \A u \in Ids : got'[u] = got[u] \/ got'[u] <= SizeOf(u)'
    BY <1>LoadRows, <1>a, LoadRowsDoes DEF memory, disk, history
  <2>2. \A u \in Ids : rows'[u] \in {NoRow, rows[u]} \/ (rows'[u] \in Nat /\ rows'[u] <= SizeOf(u)')
    BY <1>LoadRows, <1>a, LoadRowsDoes DEF memory, disk, history
  <2>3. \A g \in Files : part'[g] \in {part[g], Absent} \/ (part'[g] \in Seq(Chunks) /\ Len(part'[g]) <= Size[g])
    BY <1>LoadRows, <1>a, LoadRowsDoes DEF memory, disk, history
  <2>4. \A v \in Workers : worker'[v].pc = "gone" \/ Fits(v) \/ Starts(v)
    <3>1. \A v \in Workers : v # w => worker'[v] = worker[v]  BY <1>LoadRows, <1>a, LoadRowsDoes DEF Goes, Others
    <3>2. worker'[w].pc = "gone" \/ Fits(w)
      BY <1>LoadRows, <1>a, <1>w, <1>n, <1>i, LoadRowsDoes DEF Goes, Fits, Placed, Writing
    <3> QED  BY <3>1, <3>2, <1>q
  <2> QED  BY <2>1, <2>2, <2>3, <2>4 DEF Measured
<1>SaveRows. ASSUME NEW w \in Workers, SaveRows(w)
              PROVE  Measured
  <2>1. \A u \in Ids : got'[u] = got[u] \/ got'[u] <= SizeOf(u)'
    BY <1>SaveRows, <1>a, SaveRowsDoes DEF memory, disk, history
  <2>2. \A u \in Ids : rows'[u] \in {NoRow, rows[u]} \/ (rows'[u] \in Nat /\ rows'[u] <= SizeOf(u)')
    <3>1. /\ rows' = [worker[w].seen EXCEPT ![worker[w].t] = NoRow] /\ worker[w].seen # <<>>
          /\ worker[w].seen \in [Ids -> Int] /\ worker[w].pc # "gone"
      BY <1>SaveRows, <1>a, SaveRowsDoes
    <3>2. \A u \in Ids : worker[w].seen[u] \in -1 .. SizeOf(u)  BY <3>1, <1>a DEF Sized, Copied
    <3>3. \A u \in Ids : rows'[u] = NoRow \/ (rows'[u] = worker[w].seen[u])  BY <3>1
    <3>4. \A u \in Ids : worker[w].seen[u] = NoRow \/ (worker[w].seen[u] \in Nat /\ worker[w].seen[u] <= SizeOf(u)')
      BY <3>2, <1>z DEF NoRow
    <3> QED  BY <3>3, <3>4
  <2>3. \A g \in Files : part'[g] \in {part[g], Absent} \/ (part'[g] \in Seq(Chunks) /\ Len(part'[g]) <= Size[g])
    BY <1>SaveRows, <1>a, SaveRowsDoes DEF memory, disk, history
  <2>4. \A v \in Workers : worker'[v].pc = "gone" \/ Fits(v) \/ Starts(v)
    <3>0. worker[w].pc = "unrow" \/ worker[w].pc = "forget" \/ (worker[w].pc = "unpack" /\ F(w) \notin Shards)
      BY <1>SaveRows, <1>a, <1>w, SaveRowsDoes DEF Placed
    <3>1. \A v \in Workers : v # w => worker'[v] = worker[v]  BY <1>SaveRows, <1>a, SaveRowsDoes DEF Goes, Others
    <3>2. worker'[w].pc = "gone" \/ Fits(w)
      BY <3>0, <1>SaveRows, <1>a, <1>w, <1>n, <1>i, SaveRowsDoes DEF Fits, Placed
    <3> QED  BY <3>1, <3>2, <1>q
  <2> QED  BY <2>1, <2>2, <2>3, <2>4 DEF Measured
<1>Complete. ASSUME NEW w \in Workers, Complete(w)
              PROVE  Measured
  <2>0. worker[w].pc # "gone" /\ worker[w].t \in Ids  BY <1>Complete, <1>a, <1>w, CompleteDoes
  <2>1. \A u \in Ids : got'[u] = got[u] \/ got'[u] <= SizeOf(u)'
    BY <1>Complete, <1>a, CompleteDoes DEF memory, disk, history
  <2>2. \A u \in Ids : rows'[u] \in {NoRow, rows[u]} \/ (rows'[u] \in Nat /\ rows'[u] <= SizeOf(u)')
    <3>1. \A u \in Ids : rows'[u] \in {NoRow, rows[u], got[u]}
      BY <2>0, <1>Complete, <1>a, CompleteDoes DEF Types
    <3>2. \A u \in Ids : got[u] \in Nat /\ got[u] <= SizeOf(u)'  BY <1>g, <1>z
    <3> QED  BY <3>1, <3>2
  <2>3. \A g \in Files : part'[g] \in {part[g], Absent} \/ (part'[g] \in Seq(Chunks) /\ Len(part'[g]) <= Size[g])
    BY <1>Complete, <1>a, CompleteDoes DEF memory, disk, history
  <2>4. \A v \in Workers : worker'[v].pc = "gone" \/ Fits(v) \/ Starts(v)
    <3>1. \A v \in Workers : v # w => worker'[v] = worker[v]  BY <1>Complete, <1>a, CompleteDoes DEF Goes, Others
    <3>2. worker'[w].pc = "gone" \/ Fits(w)
      BY <1>Complete, <1>a, <1>w, <1>n, <1>i, CompleteDoes DEF Goes, Fits, Placed, Writing
    <3> QED  BY <3>1, <3>2, <1>q
  <2> QED  BY <2>1, <2>2, <2>3, <2>4 DEF Measured
<1>Verify. ASSUME NEW w \in Workers, Verify(w)
            PROVE  Measured
  <2>1. \A u \in Ids : got'[u] = got[u] \/ got'[u] <= SizeOf(u)'
    BY <1>Verify, <1>a, VerifyDoes DEF memory, disk, history
  <2>2. \A u \in Ids : rows'[u] \in {NoRow, rows[u]} \/ (rows'[u] \in Nat /\ rows'[u] <= SizeOf(u)')
    BY <1>Verify, <1>a, VerifyDoes DEF memory, disk, history
  <2>3. \A g \in Files : part'[g] \in {part[g], Absent} \/ (part'[g] \in Seq(Chunks) /\ Len(part'[g]) <= Size[g])
    BY <1>Verify, <1>a, VerifyDoes
  <2>4. \A v \in Workers : worker'[v].pc = "gone" \/ Fits(v) \/ Starts(v)
    <3>1. \A v \in Workers : v # w => Stays(v)
      BY <1>Verify, <1>a, VerifyDoes DEF Bystander, Goes, Others, Stays
    <3>2. worker'[w].pc = "gone" \/ Fits(w) \/ Starts(w)
      BY <1>Verify, <1>a, <1>w, <1>n, VerifyDoes DEF Goes, Fits, Placed
    <3> QED  BY <3>1, <3>2, <1>p
  <2> QED  BY <2>1, <2>2, <2>3, <2>4 DEF Measured
<1>Accept. ASSUME NEW w \in Workers, Accept(w)
            PROVE  Measured
  <2>1. \A u \in Ids : got'[u] = got[u] \/ got'[u] <= SizeOf(u)'
    BY <1>Accept, <1>a, AcceptDoes DEF memory, disk, history
  <2>2. \A u \in Ids : rows'[u] \in {NoRow, rows[u]} \/ (rows'[u] \in Nat /\ rows'[u] <= SizeOf(u)')
    BY <1>Accept, <1>a, AcceptDoes DEF memory, disk, history
  <2>3. \A g \in Files : part'[g] \in {part[g], Absent} \/ (part'[g] \in Seq(Chunks) /\ Len(part'[g]) <= Size[g])
    BY <1>Accept, <1>a, AcceptDoes DEF memory, disk, history
  <2>4. \A v \in Workers : worker'[v].pc = "gone" \/ Fits(v) \/ Starts(v)
    <3>1. \A v \in Workers : v # w => worker'[v] = worker[v]  BY <1>Accept, <1>a, AcceptDoes DEF Goes, Others
    <3>2. worker'[w].pc = "gone" \/ Fits(w)
      BY <1>Accept, <1>a, <1>w, <1>n, <1>i, AcceptDoes DEF Goes, Fits, Placed, Writing
    <3> QED  BY <3>1, <3>2, <1>q
  <2> QED  BY <2>1, <2>2, <2>3, <2>4 DEF Measured
<1>PlaceShard. ASSUME NEW w \in Workers, PlaceShard(w)
                PROVE  Measured
  <2>1. \A u \in Ids : got'[u] = got[u] \/ got'[u] <= SizeOf(u)'
    BY <1>PlaceShard, <1>a, PlaceShardDoes DEF memory, disk, history
  <2>2. \A u \in Ids : rows'[u] \in {NoRow, rows[u]} \/ (rows'[u] \in Nat /\ rows'[u] <= SizeOf(u)')
    BY <1>PlaceShard, <1>a, PlaceShardDoes
  <2>3. \A g \in Files : part'[g] \in {part[g], Absent} \/ (part'[g] \in Seq(Chunks) /\ Len(part'[g]) <= Size[g])
    <3>1. PICK done, moved : Renamed(done, moved)  BY <1>PlaceShard, <1>a, PlaceShardDoes
    <3>2. \A g \in Files : part'[g] \in {part[g], Absent}  BY <3>1 DEF Renamed
    <3> QED  BY <3>2
  <2>4. \A v \in Workers : worker'[v].pc = "gone" \/ Fits(v) \/ Starts(v)
    <3>1. \A v \in Workers : v # w => Stays(v)
      BY <1>PlaceShard, <1>a, PlaceShardDoes DEF Bystander, Goes, Others, Stays
    <3>2. worker'[w].pc = "gone" \/ Fits(w) \/ Starts(w)
      BY <1>PlaceShard, <1>a, <1>i, PlaceShardDoes
    <3> QED  BY <3>1, <3>2, <1>p
  <2> QED  BY <2>1, <2>2, <2>3, <2>4 DEF Measured
<1>PlaceFile. ASSUME NEW w \in Workers, PlaceFile(w)
               PROVE  Measured
  <2>1. \A u \in Ids : got'[u] = got[u] \/ got'[u] <= SizeOf(u)'
    BY <1>PlaceFile, <1>a, PlaceFileDoes DEF memory, disk, history
  <2>2. \A u \in Ids : rows'[u] \in {NoRow, rows[u]} \/ (rows'[u] \in Nat /\ rows'[u] <= SizeOf(u)')
    BY <1>PlaceFile, <1>a, PlaceFileDoes DEF memory, disk, history
  <2>3. \A g \in Files : part'[g] \in {part[g], Absent} \/ (part'[g] \in Seq(Chunks) /\ Len(part'[g]) <= Size[g])
    BY <1>PlaceFile, <1>a, PlaceFileDoes
  <2>4. \A v \in Workers : worker'[v].pc = "gone" \/ Fits(v) \/ Starts(v)
    <3>1. \A v \in Workers : v # w => Stays(v)
      BY <1>PlaceFile, <1>a, PlaceFileDoes DEF Bystander, Goes, Others, Stays
    <3>2. worker'[w].pc = "gone" \/ Fits(w) \/ Starts(w)
      <4>1. CASE worker'[w] = Idle  BY <4>1, <1>i
      <4>2. CASE /\ F(w) \in Packs /\ worker'[w].t = worker[w].t /\ worker'[w].pc = "unpack" /\ worker'[w].off = 0
                 /\ worker'[w].pos = 0 /\ worker'[w].seen = <<>>
        <5>1. worker[w].pc = "place" /\ F(w) \notin Shards  BY <4>2, <1>PlaceFile, <1>a, PlaceFileDoes, Facts
        <5> QED  BY <4>2, <5>1, <1>w DEF Fits
      <4> QED  BY <4>1, <4>2, <1>PlaceFile, <1>a, PlaceFileDoes
    <3> QED  BY <3>1, <3>2, <1>p
  <2> QED  BY <2>1, <2>2, <2>3, <2>4 DEF Measured
<1>Extracted. ASSUME NEW w \in Workers, NEW ok \in BOOLEAN, ExtractArchive(w, ok) \/ ActivateProvider(w, ok)
               PROVE  Measured
  <2>0. worker[w].pc # "gone" /\ worker[w].t \in Ids  BY <1>Extracted, <1>a, <1>w, ExtractedDoes
  <2>1. \A u \in Ids : got'[u] = got[u] \/ got'[u] <= SizeOf(u)'
    BY <1>Extracted, <1>a, ExtractedDoes DEF memory, disk, history
  <2>2. \A u \in Ids : rows'[u] \in {NoRow, rows[u]} \/ (rows'[u] \in Nat /\ rows'[u] <= SizeOf(u)')
    <3>1. \A u \in Ids : rows'[u] \in {NoRow, rows[u], got[u]}
      BY <2>0, <1>Extracted, <1>a, ExtractedDoes DEF Types
    <3>2. \A u \in Ids : got[u] \in Nat /\ got[u] <= SizeOf(u)'  BY <1>g, <1>z
    <3> QED  BY <3>1, <3>2
  <2>3. \A g \in Files : part'[g] \in {part[g], Absent} \/ (part'[g] \in Seq(Chunks) /\ Len(part'[g]) <= Size[g])
    BY <1>Extracted, <1>a, ExtractedDoes DEF memory, disk, history
  <2>4. \A v \in Workers : worker'[v].pc = "gone" \/ Fits(v) \/ Starts(v)
    <3>1. \A v \in Workers : v # w => worker'[v] = worker[v]  BY <1>Extracted, <1>a, ExtractedDoes DEF Goes, Others
    <3>2. worker'[w].pc = "gone" \/ Fits(w)
      BY <1>Extracted, <1>a, <1>w, <1>n, <1>i, ExtractedDoes DEF Goes, Fits, Placed, Writing
    <3> QED  BY <3>1, <3>2, <1>q
  <2> QED  BY <2>1, <2>2, <2>3, <2>4 DEF Measured
<1> QED
   BY <1>Enqueue, <1>Reextract, <1>EmptyTrash, <1>Pause, <1>Resume, <1>Cancel, <1>Reprioritize,
      <1>StartQuant, <1>Recovering, <1>Restart, <1>Renaming, <1>Gather, <1>FindSlot, <1>GiveUp,
      <1>Claim, <1>Open, <1>Answered, <1>AnsweredWhole, <1>StopAsked, <1>Tick, <1>Chunk,
      <1>StreamEnds, <1>Trouble, <1>Fail, <1>LoadRows, <1>SaveRows, <1>Complete, <1>Verify,
      <1>Accept, <1>PlaceShard, <1>PlaceFile, <1>Extracted, Steps

LEMMA BasisKept ==
    ASSUME Basis, Next
    PROVE  Basis'
  BY TypesKept, CensusKept, CountedSteps, BooksKept, MeasuredSteps, MeasuredKeeps DEF Basis

(***************************************************************************)
(* The inductive invariant: an active task is in somebody's hands.         *)
(***************************************************************************)
Lit(t) == status'[t] \in {"Queued", "Downloading", "Scanning"}
\* its worker goes on, or it gets one
Tended(t) == Lit(t) =>
    \/ \E v \in Workers : worker'[v].t = t /\ Attends(v, status[t])'
    \/ /\ status'[t] = status[t]
       /\ \A v \in Workers : worker[v].t = t /\ Attends(v, status[t]) =>
              worker'[v].t = t /\ worker'[v].pc = worker[v].pc
\* what the worker that takes a step owes its task
Owes(w) == \A t \in Ids : t = worker[w].t /\ Lit(t) =>
    \/ worker'[w].t = t /\ Attends(w, status[t])'
    \/ status'[t] = status[t] /\ ~Attends(w, status[t])

LEMMA TendedKeeps ==
    ASSUME Basis, Counted, Attended, \A t \in Ids : Tended(t)
    PROVE  Attended'
<1> SUFFICES ASSUME NEW t \in Ids, Lit(t)
             PROVE  \E v \in Workers : worker'[v].t = t /\ Attends(v, status[t])'
  BY DEF Attended, Lit
<1>1. CASE /\ status'[t] = status[t]
           /\ \A v \in Workers : worker[v].t = t /\ Attends(v, status[t]) =>
                  worker'[v].t = t /\ worker'[v].pc = worker[v].pc
  <2>1. PICK v \in Workers : worker[v].t = t /\ Attends(v, status[t])  BY <1>1 DEF Attended, Lit
  <2>2. worker'[v].t = t /\ worker'[v].pc = worker[v].pc  BY <1>1, <2>1
  <2>3. F(v) \in Files  BY <2>1 DEF Basis, Census, Assigned, Attends
  <2>4. F(v)' = F(v)
    <3>1. job'[t] = job[t]  BY <2>1, <2>3, Facts DEF Counted, JobStep, F
    <3> QED  BY <2>1, <2>2, <3>1 DEF F, FileOf
  <2>5. Attends(v, status[t])'  BY <1>1, <2>1, <2>2, <2>4 DEF Attends
  <2> QED  BY <2>2, <2>5
<1> QED  BY <1>1 DEF Tended

LEMMA TendedSteps ==
    ASSUME Basis, Next
    PROVE  \A u \in Ids : Tended(u)
<1>a. Types /\ Census /\ Sized /\ (\A v \in Workers : Assigned(v)) /\ \A u \in Ids : Known(u)
  BY DEF Basis, Census
<1>j. \A u \in Ids : JobStep(u)  BY CountedSteps DEF Counted
<1>d. status \in [Ids -> Statuses] /\ worker \in [Workers -> WorkerRecord]  BY <1>a DEF Types
<1>w. \A v \in Workers : worker[v].pc # "gone" => worker[v].t \in Ids /\ F(v) \in Files /\ job'[worker[v].t] = job[worker[v].t]
  BY <1>a, <1>j, Facts DEF Assigned, F, JobStep
<1>f. \A v \in Workers : worker[v].pc # "gone" /\ worker'[v].t = worker[v].t => F(v)' = F(v)
  BY <1>w DEF F, FileOf
<1>o. \A w \in Workers : /\ \A v \in Workers \ {w} : Stays(v)
                         /\ \A u \in Ids : u # worker[w].t => status'[u] = status[u] \/ ~Lit(u)
                         /\ worker[w].pc # "gone" /\ Owes(w)
                         => \A u \in Ids : Tended(u)
  <2> SUFFICES ASSUME NEW w \in Workers, \A v \in Workers \ {w} : Stays(v),
                      \A u \in Ids : u # worker[w].t => status'[u] = status[u] \/ ~Lit(u),
                      worker[w].pc # "gone", Owes(w), NEW u \in Ids, Lit(u)
               PROVE  \/ \E v \in Workers : worker'[v].t = u /\ Attends(v, status[u])'
                      \/ /\ status'[u] = status[u]
                         /\ \A v \in Workers : worker[v].t = u /\ Attends(v, status[u]) =>
                               worker'[v].t = u /\ worker'[v].pc = worker[v].pc
    BY DEF Tended
  <2>1. \A v \in Workers \ {w} : worker'[v].t = worker[v].t /\ worker'[v].pc = worker[v].pc  BY DEF Stays
  <2>2. CASE u # worker[w].t  BY <2>1, <2>2
  <2>3. CASE u = worker[w].t /\ worker'[w].t = u /\ Attends(w, status[u])'  BY <2>3
  <2>4. CASE u = worker[w].t /\ status'[u] = status[u] /\ ~Attends(w, status[u])  BY <2>1, <2>4
  <2> QED  BY <2>2, <2>3, <2>4 DEF Owes
<1>l. \A u \in Ids : status'[u] \notin {"Queued", "Downloading", "Scanning"} => ~Lit(u) /\ Tended(u)
   BY DEF Lit, Tended
<1>y. \A v \in Workers : worker'[v] = worker[v] => Stays(v)  BY DEF Stays
<1>k. \A u \in Ids : status'[u] = status[u] /\ (\A v \in Workers : worker'[v] = worker[v] \/ Stays(v) \/ worker[v].pc = "gone") => Tended(u)
  BY DEF Tended, Stays, Attends
<1>Enqueue. ASSUME NEW f \in Files, f \notin Shards, Enqueue(f)
             PROVE  \A u \in Ids : Tended(u)
  <2>0. PICK jobs : Added(jobs)  BY <1>Enqueue, <1>a, EnqueueDoes
  <2>1. \A v \in Workers : worker'[v] = worker[v] \/ worker[v].pc = "gone"  BY <2>0 DEF Added
  <2>2. ASSUME NEW u \in Ids PROVE Tended(u)
    <3>1. CASE status'[u] = status[u]  BY <2>1, <3>1, <1>k
    <3>2. CASE status'[u] = "Queued" /\ \E v \in Workers : worker'[v].t = u /\ worker'[v].pc = "wait"
      BY <3>2 DEF Tended, Attends
    <3> QED  BY <2>0, <3>1, <3>2 DEF Added
  <2> QED  BY <2>2
<1>Reextract. ASSUME NEW f \in Files, Reextract(f)
               PROVE  \A u \in Ids : Tended(u)
  <2>0. PICK x \in Ids, y \in Workers : Extracting(f, x, y)  BY <1>Reextract, <1>a, ReextractDoes
  <2>1. \A v \in Workers : worker'[v] = worker[v] \/ worker[v].pc = "gone"  BY <2>0 DEF Extracting, Others
  <2>2. ASSUME NEW u \in Ids PROVE Tended(u)
    <3>1. CASE status'[u] = status[u]  BY <2>1, <3>1, <1>k
    <3>2. CASE u = x  BY <2>0, <3>2 DEF Extracting, Tended, Attends
    <3>3. CASE status'[u] = "none"  BY <3>3, <1>l
    <3> QED  BY <2>0, <3>1, <3>2, <3>3 DEF Extracting
  <2> QED  BY <2>2
<1>EmptyTrash. ASSUME NEW f \in Files, EmptyTrash(f)
                PROVE  \A u \in Ids : Tended(u)
  BY <1>EmptyTrash, <1>a, <1>k, EmptyTrashDoes DEF Bystander, memory
<1>Pause. ASSUME NEW t \in Ids, Pause(t)
           PROVE  \A u \in Ids : Tended(u)
  BY <1>Pause, <1>k, <1>l, <1>d DEF Pause
<1>Resume. ASSUME NEW t \in Ids, Resume(t)
            PROVE  \A u \in Ids : Tended(u)
  <2>0. Known(t)  BY <1>a
  <2>y. /\ \A v \in Workers : \/ worker'[v] = worker[v]
                              \/ /\ worker[v].pc = "gone" /\ worker'[v].t = t
                                 /\ worker'[v] = [Idle EXCEPT !.t = worker'[v].t, !.pc = "wait"]
        /\ \E v \in Workers : worker'[v].t = t /\ worker'[v].pc = "wait"
    BY <2>0, <1>Resume, <1>a, ResumeDoes
  <2>s. status' = [status EXCEPT ![t] = "Queued"]  BY <1>Resume DEF Resume
  <2>1. \A v \in Workers : worker'[v] = worker[v] \/ worker[v].pc = "gone"  BY <2>y
  <2>2. ASSUME NEW u \in Ids PROVE Tended(u)
    <3>1. CASE u # t  BY <2>1, <2>s, <3>1, <1>d, <1>k
    <3>2. CASE u = t  BY <2>y, <2>s, <3>2, <1>d DEF Tended, Attends
    <3> QED  BY <3>1, <3>2
  <2> QED  BY <2>2
<1>Cancel. ASSUME NEW t \in Ids, Cancel(t)
            PROVE  \A u \in Ids : Tended(u)
  <2>0. PICK hit \in SUBSET Ids :
                 /\ \A u \in hit : status[u] # "none"
                 /\ status' = [u \in Ids |-> IF u \in hit THEN "Failed" ELSE status[u]]
                 /\ rows' = [u \in Ids |-> IF u \in hit THEN NoRow ELSE rows[u]]
    BY <1>Cancel, <1>a, CancelDoes
  <2>u. worker' = worker  BY <1>Cancel, <1>a, CancelDoes
  <2>s. \A u \in Ids : status'[u] = status[u] \/ status'[u] = "Failed"  BY <2>0
  <2> QED  BY <2>u, <2>s, <1>k, <1>l
<1>Reprioritize. ASSUME NEW t \in Ids, NEW p \in 0 .. 1, Reprioritize(t, p)
                  PROVE  \A u \in Ids : Tended(u)
  BY <1>Reprioritize, <1>k, <1>l, <1>d DEF Reprioritize
<1>StartQuant. ASSUME StartQuant
                PROVE  \A u \in Ids : Tended(u)
  <2>0. PICK jobs : Added(jobs)  BY <1>StartQuant, <1>a, StartQuantDoes
  <2>1. \A v \in Workers : worker'[v] = worker[v] \/ worker[v].pc = "gone"  BY <2>0 DEF Added
  <2>2. ASSUME NEW u \in Ids PROVE Tended(u)
    <3>1. CASE status'[u] = status[u]  BY <2>1, <3>1, <1>k
    <3>2. CASE status'[u] = "Queued" /\ \E v \in Workers : worker'[v].t = u /\ worker'[v].pc = "wait"
      BY <3>2 DEF Tended, Attends
    <3> QED  BY <2>0, <3>1, <3>2 DEF Added
  <2> QED  BY <2>2
<1>Recovering. ASSUME RecoverCommand \/ Recover
                PROVE  \A u \in Ids : Tended(u)
  <2>0. Reconciled  BY <1>Recovering, <1>a, RecoveringDoes
  <2>1. \A v \in Workers : Stays(v)  BY <2>0 DEF Reconciled, Bystander
  <2>2. \A u \in Ids : status'[u] \in {status[u], "Paused", "Completed"}  BY <2>0 DEF Reconciled
  <2> QED  BY <2>1, <2>2, <1>k, <1>l
<1>Restart. ASSUME Restart
             PROVE  \A u \in Ids : Tended(u)
  <2>0. status' = [u \in Ids |-> "none"]  BY <1>Restart, <1>a, RestartingDoes
  <2> QED  BY <2>0, <1>l
<1>Renaming. ASSUME NEW b \in batches, NEW some \in SUBSET Shards, RestartRenaming(b, some)
              PROVE  \A u \in Ids : Tended(u)
  <2>0. status' = [u \in Ids |-> "none"]  BY <1>Renaming, <1>a, RestartingDoes
  <2> QED  BY <2>0, <1>l
<1>Gather. ASSUME Gather
            PROVE  \A u \in Ids : Tended(u)
  BY <1>Gather, <1>a, <1>k, GatherDoes
<1>FindSlot. ASSUME NEW w \in Workers, FindSlot(w)
              PROVE  \A u \in Ids : Tended(u)
  <2>1. worker[w].pc # "gone" /\ worker[w].t \in Ids  BY <1>FindSlot, <1>a, <1>w, FindSlotDoes
  <2>2. \A v \in Workers \ {w} : Stays(v)  BY <1>FindSlot, <1>a, <1>y, FindSlotDoes DEF Goes, Others
  <2>3. \A u \in Ids : u # worker[w].t => status'[u] = status[u] \/ ~Lit(u)
    BY <1>FindSlot, <1>a, <1>d, <1>l, FindSlotDoes DEF memory
  <2>4. Owes(w)
    BY <2>1, <1>FindSlot, <1>a, <1>d, <1>w, <1>f, <1>l, FindSlotDoes, Facts DEF Owes, Lit, Attends, Goes, Others, memory, Stopped
  <2> QED  BY <2>1, <2>2, <2>3, <2>4, <1>o
<1>GiveUp. ASSUME NEW w \in Workers, GiveUp(w)
            PROVE  \A u \in Ids : Tended(u)
  <2>1. worker[w].pc # "gone" /\ worker[w].t \in Ids  BY <1>GiveUp, <1>a, <1>w, GiveUpDoes
  <2>2. \A v \in Workers \ {w} : Stays(v)  BY <1>GiveUp, <1>a, <1>y, GiveUpDoes DEF Goes, Others
  <2>3. \A u \in Ids : u # worker[w].t => status'[u] = status[u] \/ ~Lit(u)
    BY <1>GiveUp, <1>a, <1>d, <1>l, GiveUpDoes DEF memory
  <2>4. Owes(w)
    BY <2>1, <1>GiveUp, <1>a, <1>d, <1>w, <1>f, <1>l, GiveUpDoes, Facts DEF Owes, Lit, Attends, Goes, Others, memory, Stopped
  <2> QED  BY <2>1, <2>2, <2>3, <2>4, <1>o
<1>Claim. ASSUME NEW w \in Workers, Claim(w)
           PROVE  \A u \in Ids : Tended(u)
  <2>1. worker[w].pc # "gone" /\ worker[w].t \in Ids  BY <1>Claim, <1>a, <1>w, ClaimDoes
  <2>2. \A v \in Workers \ {w} : Stays(v)  BY <1>Claim, <1>a, <1>y, ClaimDoes DEF Goes, Others
  <2>3. \A u \in Ids : u # worker[w].t => status'[u] = status[u] \/ ~Lit(u)
    BY <1>Claim, <1>a, <1>d, <1>l, ClaimDoes DEF memory
  <2>4. Owes(w)
    BY <2>1, <1>Claim, <1>a, <1>d, <1>w, <1>f, <1>l, ClaimDoes, Facts DEF Owes, Lit, Attends, Goes, Others, memory, Stopped
  <2> QED  BY <2>1, <2>2, <2>3, <2>4, <1>o
<1>Open. ASSUME NEW w \in Workers, Open(w)
          PROVE  \A u \in Ids : Tended(u)
  <2>1. worker[w].pc # "gone" /\ worker[w].t \in Ids  BY <1>Open, <1>a, <1>w, OpenDoes
  <2>2. \A v \in Workers \ {w} : Stays(v)  BY <1>Open, <1>a, <1>y, OpenDoes DEF Goes, Others
  <2>3. \A u \in Ids : u # worker[w].t => status'[u] = status[u] \/ ~Lit(u)
    BY <1>Open, <1>a, <1>d, <1>l, OpenDoes DEF memory
  <2>4. Owes(w)
    BY <2>1, <1>Open, <1>a, <1>d, <1>w, <1>f, <1>l, OpenDoes, Facts DEF Owes, Lit, Attends, Goes, Others, memory, Stopped
  <2> QED  BY <2>1, <2>2, <2>3, <2>4, <1>o
<1>Answered. ASSUME NEW w \in Workers, Answered(w)
              PROVE  \A u \in Ids : Tended(u)
  <2>1. worker[w].pc # "gone" /\ worker[w].t \in Ids  BY <1>Answered, <1>a, <1>w, AnsweredDoes
  <2>2. \A v \in Workers \ {w} : Stays(v)  BY <1>Answered, <1>a, <1>y, AnsweredDoes DEF Goes, Others
  <2>3. \A u \in Ids : u # worker[w].t => status'[u] = status[u] \/ ~Lit(u)
    BY <1>Answered, <1>a, <1>d, <1>l, AnsweredDoes DEF memory
  <2>4. Owes(w)
    BY <2>1, <1>Answered, <1>a, <1>d, <1>w, <1>f, <1>l, AnsweredDoes, Facts DEF Owes, Lit, Attends, Goes, Others, memory, Stopped
  <2> QED  BY <2>1, <2>2, <2>3, <2>4, <1>o
<1>AnsweredWhole. ASSUME NEW w \in Workers, AnsweredWhole(w)
                   PROVE  \A u \in Ids : Tended(u)
  <2>1. worker[w].pc # "gone" /\ worker[w].t \in Ids  BY <1>AnsweredWhole, <1>a, <1>w, AnsweredWholeDoes
  <2>2. \A v \in Workers \ {w} : Stays(v)  BY <1>AnsweredWhole, <1>a, <1>y, AnsweredWholeDoes DEF Goes, Others
  <2>3. \A u \in Ids : u # worker[w].t => status'[u] = status[u] \/ ~Lit(u)
    BY <1>AnsweredWhole, <1>a, <1>d, <1>l, AnsweredWholeDoes DEF memory
  <2>4. Owes(w)
    BY <2>1, <1>AnsweredWhole, <1>a, <1>d, <1>w, <1>f, <1>l, AnsweredWholeDoes, Facts DEF Owes, Lit, Attends, Goes, Others, memory, Stopped
  <2> QED  BY <2>1, <2>2, <2>3, <2>4, <1>o
<1>StopAsked. ASSUME NEW w \in Workers, StopAsked(w)
               PROVE  \A u \in Ids : Tended(u)
  <2>1. worker[w].pc # "gone" /\ worker[w].t \in Ids  BY <1>StopAsked, <1>a, <1>w, StopAskedDoes
  <2>2. \A v \in Workers \ {w} : Stays(v)  BY <1>StopAsked, <1>a, <1>y, StopAskedDoes DEF Goes, Others
  <2>3. \A u \in Ids : u # worker[w].t => status'[u] = status[u] \/ ~Lit(u)
    BY <1>StopAsked, <1>a, <1>d, <1>l, StopAskedDoes DEF memory
  <2>4. Owes(w)
    BY <2>1, <1>StopAsked, <1>a, <1>d, <1>w, <1>f, <1>l, StopAskedDoes, Facts DEF Owes, Lit, Attends, Goes, Others, memory, Stopped
  <2> QED  BY <2>1, <2>2, <2>3, <2>4, <1>o
<1>Tick. ASSUME NEW w \in Workers, Tick(w)
          PROVE  \A u \in Ids : Tended(u)
  <2>1. worker[w].pc # "gone" /\ worker[w].t \in Ids  BY <1>Tick, <1>a, <1>w, TickDoes
  <2>2. \A v \in Workers \ {w} : Stays(v)  BY <1>Tick, <1>a, <1>y, TickDoes DEF Goes, Others
  <2>3. \A u \in Ids : u # worker[w].t => status'[u] = status[u] \/ ~Lit(u)
    BY <1>Tick, <1>a, <1>d, <1>l, TickDoes DEF memory
  <2>4. Owes(w)
    BY <2>1, <1>Tick, <1>a, <1>d, <1>w, <1>f, <1>l, TickDoes, Facts DEF Owes, Lit, Attends, Goes, Others, memory, Stopped
  <2> QED  BY <2>1, <2>2, <2>3, <2>4, <1>o
<1>Chunk. ASSUME NEW w \in Workers, NEW c \in Chunks, Chunk(w, c)
           PROVE  \A u \in Ids : Tended(u)
  <2>1. worker[w].pc # "gone" /\ worker[w].t \in Ids  BY <1>Chunk, <1>a, <1>w, ChunkDoes
  <2>2. \A v \in Workers \ {w} : Stays(v)  BY <1>Chunk, <1>a, <1>y, ChunkDoes DEF Goes, Others
  <2>3. \A u \in Ids : u # worker[w].t => status'[u] = status[u] \/ ~Lit(u)
    BY <1>Chunk, <1>a, <1>d, <1>l, ChunkDoes DEF memory
  <2>4. Owes(w)
    BY <2>1, <1>Chunk, <1>a, <1>d, <1>w, <1>f, <1>l, ChunkDoes, Facts DEF Owes, Lit, Attends, Goes, Others, memory, Stopped
  <2> QED  BY <2>1, <2>2, <2>3, <2>4, <1>o
<1>StreamEnds. ASSUME NEW w \in Workers, StreamEnds(w)
                PROVE  \A u \in Ids : Tended(u)
  <2>1. worker[w].pc # "gone" /\ worker[w].t \in Ids  BY <1>StreamEnds, <1>a, <1>w, StreamEndsDoes
  <2>2. \A v \in Workers \ {w} : Stays(v)  BY <1>StreamEnds, <1>a, <1>y, StreamEndsDoes DEF Goes, Others
  <2>3. \A u \in Ids : u # worker[w].t => status'[u] = status[u] \/ ~Lit(u)
    BY <1>StreamEnds, <1>a, <1>d, <1>l, StreamEndsDoes DEF memory
  <2>4. Owes(w)
    BY <2>1, <1>StreamEnds, <1>a, <1>d, <1>w, <1>f, <1>l, StreamEndsDoes, Facts DEF Owes, Lit, Attends, Goes, Others, memory, Stopped
  <2> QED  BY <2>1, <2>2, <2>3, <2>4, <1>o
<1>Trouble. ASSUME NEW w \in Workers, Trouble(w)
             PROVE  \A u \in Ids : Tended(u)
  <2>1. worker[w].pc # "gone" /\ worker[w].t \in Ids  BY <1>Trouble, <1>a, <1>w, TroubleDoes
  <2>2. \A v \in Workers \ {w} : Stays(v)  BY <1>Trouble, <1>a, <1>y, TroubleDoes DEF Goes, Others
  <2>3. \A u \in Ids : u # worker[w].t => status'[u] = status[u] \/ ~Lit(u)
    BY <1>Trouble, <1>a, <1>d, <1>l, TroubleDoes DEF memory
  <2>4. Owes(w)
    BY <2>1, <1>Trouble, <1>a, <1>d, <1>w, <1>f, <1>l, TroubleDoes, Facts DEF Owes, Lit, Attends, Goes, Others, memory, Stopped
  <2> QED  BY <2>1, <2>2, <2>3, <2>4, <1>o
<1>Fail. ASSUME NEW w \in Workers, Fail(w)
          PROVE  \A u \in Ids : Tended(u)
  <2>1. worker[w].pc # "gone" /\ worker[w].t \in Ids  BY <1>Fail, <1>a, <1>w, FailDoes
  <2>2. \A v \in Workers \ {w} : Stays(v)  BY <1>Fail, <1>a, <1>y, FailDoes DEF Goes, Others
  <2>3. \A u \in Ids : u # worker[w].t => status'[u] = status[u] \/ ~Lit(u)
    BY <1>Fail, <1>a, <1>d, <1>l, FailDoes DEF memory
  <2>4. Owes(w)
    BY <2>1, <1>Fail, <1>a, <1>d, <1>w, <1>f, <1>l, FailDoes, Facts DEF Owes, Lit, Attends, Goes, Others, memory, Stopped
  <2> QED  BY <2>1, <2>2, <2>3, <2>4, <1>o
<1>LoadRows. ASSUME NEW w \in Workers, LoadRows(w)
              PROVE  \A u \in Ids : Tended(u)
  <2>1. \A v \in Workers : v # w => worker'[v] = worker[v]  BY <1>LoadRows, <1>a, LoadRowsDoes DEF Others
  <2>2. worker'[w].pc = worker[w].pc /\ worker'[w].t = worker[w].t /\ status' = status
    BY <1>LoadRows, <1>a, LoadRowsDoes DEF memory
  <2> QED  BY <2>1, <2>2 DEF Tended
<1>SaveRows. ASSUME NEW w \in Workers, SaveRows(w)
              PROVE  \A u \in Ids : Tended(u)
  <2>1. worker[w].pc # "gone" /\ worker[w].t \in Ids  BY <1>SaveRows, <1>a, <1>w, SaveRowsDoes
  <2>2. \A v \in Workers \ {w} : Stays(v)  BY <1>SaveRows, <1>a, <1>y, SaveRowsDoes DEF Goes, Others
  <2>3. \A u \in Ids : u # worker[w].t => status'[u] = status[u] \/ ~Lit(u)
    BY <1>SaveRows, <1>a, <1>d, <1>l, SaveRowsDoes DEF memory
  <2>4. Owes(w)
    BY <2>1, <1>SaveRows, <1>a, <1>d, <1>w, <1>f, <1>l, SaveRowsDoes, Facts DEF Owes, Lit, Attends, Goes, Others, memory, Stopped
  <2> QED  BY <2>1, <2>2, <2>3, <2>4, <1>o
<1>Complete. ASSUME NEW w \in Workers, Complete(w)
              PROVE  \A u \in Ids : Tended(u)
  <2>1. worker[w].pc # "gone" /\ worker[w].t \in Ids  BY <1>Complete, <1>a, <1>w, CompleteDoes
  <2>2. \A v \in Workers \ {w} : Stays(v)  BY <1>Complete, <1>a, <1>y, CompleteDoes DEF Goes, Others
  <2>3. \A u \in Ids : u # worker[w].t => status'[u] = status[u] \/ ~Lit(u)
    BY <1>Complete, <1>a, <1>d, <1>l, CompleteDoes DEF memory
  <2>4. Owes(w)
    BY <2>1, <1>Complete, <1>a, <1>d, <1>w, <1>f, <1>l, CompleteDoes, Facts DEF Owes, Lit, Attends, Goes, Others, memory, Stopped
  <2> QED  BY <2>1, <2>2, <2>3, <2>4, <1>o
<1>Verify. ASSUME NEW w \in Workers, Verify(w)
            PROVE  \A u \in Ids : Tended(u)
  <2>1. worker[w].pc # "gone" /\ worker[w].t \in Ids  BY <1>Verify, <1>a, <1>w, VerifyDoes
  <2>2. \A v \in Workers \ {w} : Stays(v)  BY <1>Verify, <1>a, VerifyDoes DEF Bystander, Goes, Others, Stays
  <2>3. \A u \in Ids : u # worker[w].t => status'[u] = status[u] \/ ~Lit(u)
    BY <1>Verify, <1>a, VerifyDoes DEF memory
  <2>4. Owes(w)
    <3>1. worker'[w].t = worker[w].t /\ worker'[w].pc \in {"accept", "failing"} /\ worker[w].pc = "verify" /\ status' = status
      BY <1>Verify, <1>a, VerifyDoes DEF memory, Goes
    <3> QED  BY <3>1 DEF Owes, Lit, Attends
  <2> QED  BY <2>1, <2>2, <2>3, <2>4, <1>o
<1>Accept. ASSUME NEW w \in Workers, Accept(w)
            PROVE  \A u \in Ids : Tended(u)
  <2>1. worker[w].pc # "gone" /\ worker[w].t \in Ids  BY <1>Accept, <1>a, <1>w, AcceptDoes
  <2>2. \A v \in Workers \ {w} : Stays(v)  BY <1>Accept, <1>a, <1>y, AcceptDoes DEF Goes, Others
  <2>3. \A u \in Ids : u # worker[w].t => status'[u] = status[u] \/ ~Lit(u)
    BY <1>Accept, <1>a, <1>d, <1>l, AcceptDoes DEF memory
  <2>4. Owes(w)
    BY <2>1, <1>Accept, <1>a, <1>d, <1>w, <1>f, <1>l, AcceptDoes, Facts DEF Owes, Lit, Attends, Goes, Others, memory, Stopped
  <2> QED  BY <2>1, <2>2, <2>3, <2>4, <1>o
<1>PlaceShard. ASSUME NEW w \in Workers, PlaceShard(w)
                PROVE  \A u \in Ids : Tended(u)
  <2>1. worker[w].pc # "gone" /\ worker[w].t \in Ids  BY <1>PlaceShard, <1>a, <1>w, PlaceShardDoes
  <2>2. \A v \in Workers \ {w} : Stays(v)  
    <3>1. PICK done, moved : \A v \in Workers \ {w} : Bystander(v, moved)  BY <1>PlaceShard, <1>a, PlaceShardDoes
    <3> QED  BY <3>1 DEF Bystander
  <2>3. \A u \in Ids : u # worker[w].t => status'[u] = status[u] \/ ~Lit(u)
    BY <1>PlaceShard, <1>a, <1>l, PlaceShardDoes
  <2>4. Owes(w)
    <3>1. worker[w].pc = "place" /\ F(w) \in Shards
      <4>1. worker[w].t \in Ids /\ job[worker[w].t].batch # 0 /\ worker[w].pc = "place"
         BY <1>PlaceShard, <1>a, PlaceShardDoes
      <4> QED  BY <4>1, <1>a DEF Known, F
    <3>2. F(w) \notin Packs  BY <3>1, Facts
    <3>3. status'[worker[w].t] = status[worker[w].t] \/ status'[worker[w].t] = "Completed"
      BY <2>1, <1>PlaceShard, <1>a, PlaceShardDoes
    <3> QED  BY <3>1, <3>2, <3>3 DEF Owes, Lit, Attends
  <2> QED  BY <2>1, <2>2, <2>3, <2>4, <1>o
<1>PlaceFile. ASSUME NEW w \in Workers, PlaceFile(w)
               PROVE  \A u \in Ids : Tended(u)
  <2>1. worker[w].pc # "gone" /\ worker[w].t \in Ids  BY <1>PlaceFile, <1>a, <1>w, PlaceFileDoes
  <2>2. \A v \in Workers \ {w} : Stays(v)  BY <1>PlaceFile, <1>a, PlaceFileDoes DEF Bystander, Goes, Others, Stays
  <2>3. \A u \in Ids : u # worker[w].t => status'[u] = status[u] \/ ~Lit(u)
    BY <1>PlaceFile, <1>a, <1>d, PlaceFileDoes
  <2>4. Owes(w)
    <3>1. worker[w].pc = "place" /\ F(w) \in Files  BY <1>PlaceFile, <1>a, PlaceFileDoes
    <3>2. CASE part[F(w)] = Absent
      <4>1. status' = [status EXCEPT ![worker[w].t] = "Failed"]  BY <3>2, <1>PlaceFile, <1>a, PlaceFileDoes
      <4> QED  BY <2>1, <4>1, <1>d DEF Owes, Lit
    <3>3. CASE part[F(w)] # Absent /\ F(w) \in Packs
      <4>1. status' = [status EXCEPT ![worker[w].t] = "Scanning"] /\ worker'[w].t = worker[w].t /\ worker'[w].pc = "unpack"
        BY <3>3, <1>PlaceFile, <1>a, PlaceFileDoes
      <4> QED  BY <2>1, <4>1, <1>d DEF Owes, Attends
    <3>4. CASE part[F(w)] # Absent /\ F(w) \notin Packs
      <4>1. status' = [status EXCEPT ![worker[w].t] = status[worker[w].t]]
        BY <3>4, <1>PlaceFile, <1>a, PlaceFileDoes
      <4> QED  BY <2>1, <3>1, <3>4, <4>1, <1>d DEF Owes, Attends
    <3> QED  BY <3>2, <3>3, <3>4
  <2> QED  BY <2>1, <2>2, <2>3, <2>4, <1>o
<1>Extracted. ASSUME NEW w \in Workers, NEW ok \in BOOLEAN, ExtractArchive(w, ok) \/ ActivateProvider(w, ok)
               PROVE  \A u \in Ids : Tended(u)
  <2>1. worker[w].pc # "gone" /\ worker[w].t \in Ids  BY <1>Extracted, <1>a, <1>w, ExtractedDoes
  <2>2. \A v \in Workers \ {w} : Stays(v)  BY <1>Extracted, <1>a, <1>y, ExtractedDoes DEF Goes, Others
  <2>3. \A u \in Ids : u # worker[w].t => status'[u] = status[u] \/ ~Lit(u)
    BY <1>Extracted, <1>a, <1>d, <1>l, ExtractedDoes DEF memory
  <2>4. Owes(w)
    BY <2>1, <1>Extracted, <1>a, <1>d, <1>w, <1>f, <1>l, ExtractedDoes, Facts DEF Owes, Lit, Attends, Goes, Others, memory, Stopped
  <2> QED  BY <2>1, <2>2, <2>3, <2>4, <1>o
<1> QED
   BY <1>Enqueue, <1>Reextract, <1>EmptyTrash, <1>Pause, <1>Resume, <1>Cancel, <1>Reprioritize,
      <1>StartQuant, <1>Recovering, <1>Restart, <1>Renaming, <1>Gather, <1>FindSlot, <1>GiveUp,
      <1>Claim, <1>Open, <1>Answered, <1>AnsweredWhole, <1>StopAsked, <1>Tick, <1>Chunk,
      <1>StreamEnds, <1>Trouble, <1>Fail, <1>LoadRows, <1>SaveRows, <1>Complete, <1>Verify,
      <1>Accept, <1>PlaceShard, <1>PlaceFile, <1>Extracted, Steps

LEMMA AttendedKept ==
    ASSUME Basis, Attended, Next
    PROVE  Attended'
  BY CountedSteps, TendedSteps, TendedKeeps

(***************************************************************************)
(* The inductive invariant: what a worker may rely on about its .part.     *)
(***************************************************************************)
\* it will not write the file any more
Harmless(v) == /\ worker[v].pc \notin {"open", "request"}
               /\ worker[v].pc = "stream" => worker[v].pos = Size[F(v)]
\* a worker with a file in hand that goes on with it ...
Advances(v) == /\ InHand(v) /\ worker'[v].t = worker[v].t /\ Relies(v)'
               /\ Harmless(v) => Harmless(v)'
\* ... because nobody touched it
Undisturbed(v) ==
    /\ InHand(v) /\ worker'[v].pc = worker[v].pc /\ worker'[v].t = worker[v].t /\ worker'[v].pos = worker[v].pos
    /\ \/ part'[F(v)] = part[F(v)] /\ worker'[v].on = worker[v].on
       \/ part'[F(v)] = Absent /\ (Writing(v) => worker'[v].on # "part")

LEMMA UndisturbedAdvances ==
    ASSUME Types, NEW v \in Workers, F(v) \in Files, F(v)' = F(v), Relies(v), Undisturbed(v)
    PROVE  Advances(v)
<1>1. Harmless(v) => Harmless(v)'  BY DEF Undisturbed, Harmless
<1>2. Size[F(v)] \in Nat /\ Size[F(v)] > 0  BY Facts
<1>3. worker'[v].pc = worker[v].pc /\ worker'[v].pos = worker[v].pos  BY DEF Undisturbed
<1>4. CASE part'[F(v)] = part[F(v)] /\ worker'[v].on = worker[v].on
  <2>1. Len0(F(v))' = Len0(F(v)) /\ (Whole(F(v)) => Whole(F(v))')  BY <1>4 DEF Len0, Whole
  <2>2. Relies(v)'  BY <1>3, <1>4, <2>1 DEF Relies, Writing, Late
  <2> QED  BY <1>1, <2>2 DEF Undisturbed, Advances
<1>5. CASE part'[F(v)] = Absent /\ (Writing(v) => worker'[v].on # "part")
  <2>1. Len0(F(v))' = 0 /\ part'[F(v)'] = Absent  BY <1>5 DEF Len0
  <2>2. Relies(v)'  BY <1>2, <1>3, <1>5, <2>1 DEF Relies, Writing, Late
  <2> QED  BY <1>1, <2>2 DEF Undisturbed, Advances
<1> QED  BY <1>4, <1>5 DEF Undisturbed

LEMMA SoloKeeps ==
    ASSUME \A v \in Workers : Relies(v), \A v, w \in Workers : Alone(v, w),
           \A v \in Workers : InHand(v) => F(v)' = F(v) \/ worker'[v].t # worker[v].t,
           \A v \in Workers : InHand(v)' => Advances(v)
    PROVE  Solo'
<1>1. ASSUME NEW v \in Workers PROVE Relies(v)'
  <2>1. CASE InHand(v)'  BY <2>1 DEF Advances
  <2>2. CASE ~InHand(v)'  BY <2>2 DEF InHand, Relies, Writing, Late
  <2> QED  BY <2>1, <2>2
<1>2. ASSUME NEW v \in Workers, NEW w \in Workers PROVE Alone(v, w)'
  <2> SUFFICES ASSUME v # w, InHand(v)', InHand(w)', F(v)' = F(w)' PROVE Harmless(v)'
    BY DEF Alone, Harmless
  <2>1. InHand(v) /\ InHand(w) /\ (Harmless(v) => Harmless(v)') /\ F(v) = F(w)
    BY DEF Advances
  <2>2. Harmless(v)  BY <2>1 DEF Alone, Harmless
  <2> QED  BY <2>1, <2>2
<1> QED  BY <1>1, <1>2 DEF Solo

LEMMA SoloKept ==
    ASSUME Basis, Solo, Next
    PROVE  Solo'
<1> SUFFICES ASSUME ~shared' PROVE Solo'
  BY DEF Solo
<1>a. Types /\ Census /\ Sized /\ (\A v \in Workers : Assigned(v)) /\ \A u \in Ids : Known(u)
  BY DEF Basis, Census
<1>b. ~shared /\ (\A v \in Workers : Relies(v)) /\ (\A v, w \in Workers : Alone(v, w))
  BY BooksKept DEF Books, Solo
<1>j. \A u \in Ids : JobStep(u)  BY CountedSteps DEF Counted
<1>w. \A v \in Workers : worker[v].pc # "gone" =>
          /\ worker[v].t \in Ids /\ F(v) \in Files /\ job'[worker[v].t] = job[worker[v].t]
          /\ Size[F(v)] \in Nat /\ Size[F(v)] > 0 /\ worker[v].pos \in Nat /\ Placed(v)
  BY <1>a, <1>j, Facts DEF Assigned, F, JobStep, Types, WorkerRecord, Sized
<1>f. \A v \in Workers : worker[v].pc # "gone" /\ worker'[v].t = worker[v].t => F(v)' = F(v)
  BY <1>w DEF F, FileOf
<1>h. \A v \in Workers : InHand(v) => worker[v].pc # "gone"  BY DEF InHand
<1>k. (\A v \in Workers : InHand(v)' => Advances(v)) => Solo'
  BY <1>b, <1>f, <1>h, SoloKeeps
<1>u. \A v \in Workers : Undisturbed(v) => Advances(v)
  BY <1>a, <1>b, <1>f, <1>h, <1>w, UndisturbedAdvances DEF Undisturbed
<1>e. \A v \in Workers : worker'[v] = worker[v] /\ InHand(v)' /\ part'[F(v)] = part[F(v)] => Advances(v)
  <2>1. \A v \in Workers : worker'[v] = worker[v] /\ InHand(v)' /\ part'[F(v)] = part[F(v)] => Undisturbed(v)
    BY DEF Undisturbed, InHand
  <2> QED  BY <2>1, <1>u
<1>m. ASSUME NEW v \in Workers, NEW moved, Bystander(v, moved), InHand(v)',
             F(v) \in moved => part'[F(v)] = Absent, F(v) \notin moved => part'[F(v)] = part[F(v)]
      PROVE  Advances(v)
  <2>1. Undisturbed(v)  BY <1>m DEF Undisturbed, Bystander, Stays, InHand
  <2> QED  BY <2>1, <1>u
<1>l. \A v, x \in Workers : InHand(v) /\ InHand(x) /\ F(v) = F(x) /\ ~Harmless(x) => v = x
  BY <1>b DEF Alone, Harmless
<1>n. \A f \in Files : Len0(f) \in Nat /\ Len0(f) <= Size[f] /\ (part[f] = Absent => Len0(f) = 0)
                       /\ (part[f] # Absent => part[f] \in Seq(Chunks) /\ Len0(f) = Len(part[f]))
  BY <1>a, PartLength DEF Sized
<1>i. Idle.pc = "gone"  BY IdleTyped
<1>Enqueue. ASSUME NEW f \in Files, f \notin Shards, Enqueue(f)
             PROVE  Solo'
  <2>0. PICK jobs : Added(jobs)  BY <1>Enqueue, <1>a, EnqueueDoes
  <2>p. part' = part  BY <1>Enqueue, <1>a, EnqueueDoes
  <2>1. ASSUME NEW v \in Workers, InHand(v)' PROVE worker'[v] = worker[v]
    <3>1. CASE worker'[v] = [Idle EXCEPT !.t = worker'[v].t, !.pc = "wait"]
      <4>1. worker'[v].pc = "wait"  BY <3>1 DEF Idle
      <4> QED  BY <4>1, <2>1 DEF InHand
    <3> QED  BY <2>0, <3>1 DEF Added
  <2> QED  BY <2>p, <2>1, <1>e, <1>k
<1>Reextract. ASSUME NEW f \in Files, Reextract(f)
               PROVE  Solo'
  <2>0. PICK x \in Ids, y \in Workers : Extracting(f, x, y)  BY <1>Reextract, <1>a, ReextractDoes
  <2>p. part' = part  BY <1>Reextract, <1>a, ReextractDoes
  <2>1. ASSUME NEW v \in Workers, InHand(v)' PROVE worker'[v] = worker[v]
    BY <2>0, <2>1 DEF Extracting, Others, InHand
  <2> QED  BY <2>p, <2>1, <1>e, <1>k
<1>EmptyTrash. ASSUME NEW f \in Files, EmptyTrash(f)
                PROVE  Solo'
  <2>1. \A v \in Workers : Bystander(v, {f})  BY <1>EmptyTrash, <1>a, EmptyTrashDoes
  <2>2. part'[f] = Absent /\ \A g \in Files \ {f} : part'[g] = part[g]  BY <1>EmptyTrash, <1>a, EmptyTrashDoes
  <2>3. ASSUME NEW v \in Workers, InHand(v)' PROVE Advances(v)
    <3>1. Bystander(v, {f}) /\ F(v) \in Files  BY <2>1, <2>3, <1>w DEF Bystander, Stays, InHand
    <3> QED  BY <2>2, <2>3, <3>1, <1>m
  <2> QED  BY <2>3, <1>k
<1>Pause. ASSUME NEW t \in Ids, Pause(t)
           PROVE  Solo'
  BY <1>Pause, <1>k, <1>e DEF Pause
<1>Resume. ASSUME NEW t \in Ids, Resume(t)
            PROVE  Solo'
  <2>0. Known(t)  BY <1>a
  <2>y. /\ part' = part
        /\ \A v \in Workers : \/ worker'[v] = worker[v]
                              \/ /\ worker[v].pc = "gone" /\ worker'[v].t = t
                                 /\ worker'[v] = [Idle EXCEPT !.t = worker'[v].t, !.pc = "wait"]
    BY <2>0, <1>Resume, <1>a, ResumeDoes
  <2>1. ASSUME NEW v \in Workers, InHand(v)' PROVE worker'[v] = worker[v]
    <3>1. CASE worker'[v] = [Idle EXCEPT !.t = worker'[v].t, !.pc = "wait"]
      <4>1. worker'[v].pc = "wait"  BY <3>1 DEF Idle
      <4> QED  BY <4>1, <2>1 DEF InHand
    <3> QED  BY <2>y, <3>1
  <2> QED  BY <2>y, <2>1, <1>e, <1>k
<1>Cancel. ASSUME NEW t \in Ids, Cancel(t)
            PROVE  Solo'
  BY <1>Cancel, <1>a, <1>e, <1>k, CancelDoes
<1>Reprioritize. ASSUME NEW t \in Ids, NEW p \in 0 .. 1, Reprioritize(t, p)
                  PROVE  Solo'
  BY <1>Reprioritize, <1>k, <1>e DEF Reprioritize
<1>StartQuant. ASSUME StartQuant
                PROVE  Solo'
  <2>0. PICK jobs : Added(jobs)  BY <1>StartQuant, <1>a, StartQuantDoes
  <2>p. part' = part  BY <1>StartQuant, <1>a, StartQuantDoes
  <2>1. ASSUME NEW v \in Workers, InHand(v)' PROVE worker'[v] = worker[v]
    <3>1. CASE worker'[v] = [Idle EXCEPT !.t = worker'[v].t, !.pc = "wait"]
      <4>1. worker'[v].pc = "wait"  BY <3>1 DEF Idle
      <4> QED  BY <4>1, <2>1 DEF InHand
    <3> QED  BY <2>0, <3>1 DEF Added
  <2> QED  BY <2>p, <2>1, <1>e, <1>k
<1>Recovering. ASSUME RecoverCommand \/ Recover
                PROVE  Solo'
  <2>0. Reconciled  BY <1>Recovering, <1>a, RecoveringDoes
  <2>1. PICK done, moved : Renamed(done, moved) /\ \A v \in Workers : Bystander(v, moved)  BY <2>0 DEF Reconciled
  <2>2. \A g \in Files : (g \in moved => part'[g] = Absent) /\ (g \notin moved => part'[g] = part[g])
    BY <2>1 DEF Renamed
  <2>3. ASSUME NEW v \in Workers, InHand(v)' PROVE Advances(v)
    <3>1. Bystander(v, moved) /\ F(v) \in Files  BY <2>1, <2>3, <1>w DEF Bystander, Stays, InHand
    <3> QED  BY <2>2, <2>3, <3>1, <1>m
  <2> QED  BY <2>3, <1>k
<1>Restart. ASSUME Restart
             PROVE  Solo'
  <2>0. \A v \in Workers : worker'[v] = Idle  BY <1>Restart, <1>a, RestartingDoes
  <2> QED  BY <2>0, <1>i, <1>k DEF InHand
<1>Renaming. ASSUME NEW b \in batches, NEW some \in SUBSET Shards, RestartRenaming(b, some)
              PROVE  Solo'
  <2>0. \A v \in Workers : worker'[v] = Idle  BY <1>Renaming, <1>a, RestartingDoes
  <2> QED  BY <2>0, <1>i, <1>k DEF InHand
<1>Gather. ASSUME Gather
            PROVE  Solo'
  BY <1>Gather, <1>a, <1>e, <1>k, GatherDoes DEF disk
<1>FindSlot. ASSUME NEW w \in Workers, FindSlot(w)
              PROVE  Solo'
  <2>1. \A v \in Workers : v # w => worker'[v] = worker[v]  BY <1>FindSlot, <1>a, FindSlotDoes DEF Goes, Others
  <2>2. part' = part  BY <1>FindSlot, <1>a, FindSlotDoes DEF disk, memory
  <2>3. InHand(w)' => Advances(w)
    BY <2>2, <1>FindSlot, <1>a, FindSlotDoes, <1>b, <1>w, <1>f, <1>i DEF InHand, Advances, Harmless, Relies, Writing, Late, Goes, Others, Placed, Len0, Whole
  <2> QED  BY <2>1, <2>2, <2>3, <1>e, <1>k
<1>GiveUp. ASSUME NEW w \in Workers, GiveUp(w)
            PROVE  Solo'
  <2>1. \A v \in Workers : v # w => worker'[v] = worker[v]  BY <1>GiveUp, <1>a, GiveUpDoes DEF Goes, Others
  <2>2. part' = part  BY <1>GiveUp, <1>a, GiveUpDoes DEF disk, memory
  <2>3. InHand(w)' => Advances(w)
    BY <2>2, <1>GiveUp, <1>a, GiveUpDoes, <1>b, <1>w, <1>f, <1>i DEF InHand, Advances, Harmless, Relies, Writing, Late, Goes, Others, Placed, Len0, Whole
  <2> QED  BY <2>1, <2>2, <2>3, <1>e, <1>k
<1>Claim. ASSUME NEW w \in Workers, Claim(w)
           PROVE  Solo'
  <2>1. /\ \A v \in Workers : v # w => worker'[v] = worker[v]
        /\ part' = part /\ worker[w].pc = "claim" /\ worker[w].t \in Ids /\ F(w) \in Files
    BY <1>Claim, <1>a, ClaimDoes DEF disk, Others
  <2>2. CASE worker'[w] = Idle  BY <2>1, <2>2, <1>e, <1>k, <1>i DEF InHand
  <2>3. CASE /\ worker'[w].t = worker[w].t /\ worker'[w].pc = IF Len0(F(w)) >= Size[F(w)] THEN "complete" ELSE "open"
             /\ shared' = (shared \/ (Len0(F(w)) < Size[F(w)] /\ Hands(F(w)) # {}))
    <3>1. F(w)' = F(w) /\ Len0(F(w))' = Len0(F(w))  BY <2>1, <2>3, <1>f DEF Len0
    <3>2. Len0(F(w)) \in Nat /\ Len0(F(w)) <= Size[F(w)] /\ Size[F(w)] \in Nat  BY <2>1, <1>n, <1>w
    <3>3. Relies(w)'
      BY <2>3, <3>1, <3>2 DEF Relies, Writing, Late
    <3>4. \A v \in Workers : v # w /\ InHand(v)' => Advances(v) /\ InHand(v) /\ F(v)' = F(v)
      BY <2>1, <1>e, <1>f, <1>h DEF Advances
    <3>5. ASSUME NEW v \in Workers, v # w, InHand(v), F(v) = F(w)
          PROVE  Harmless(v) /\ worker'[w].pc = "complete"
      <4>1. v \in Hands(F(w))
        <5>1. worker[v].t \in Ids /\ worker[v].t # 0  BY <3>5, <1>h, <1>w DEF Ids
        <5> QED  BY <3>5, <5>1 DEF Hands, InHand, F, Workers
      <4>2. ~(Len0(F(w)) < Size[F(w)])  BY <2>3, <4>1
      <4>3. Len0(F(v)) = Size[F(v)] /\ Size[F(v)] > 0 /\ Size[F(v)] \in Nat  BY <3>2, <3>5, <4>2, <1>h, <1>w
      <4>4. Relies(v) /\ Placed(v) /\ (part[F(v)] = Absent => Len0(F(v)) = 0)  BY <3>5, <1>b, <1>h, <1>w, <1>n
      <4>s. SizeOf(worker[v].t) = Size[F(v)] /\ worker[v].pos \in Nat  BY <3>5, <1>h, <1>w DEF SizeOf, F
      <4>o. worker[v].pc # "open"  BY <4>3, <4>4 DEF Relies
      <4>w. Writing(v) => worker[v].on = "part" /\ worker[v].pos = Size[F(v)]  BY <4>3, <4>4 DEF Relies
      <4>q. worker[v].pc = "request" => worker[v].pos < Size[F(v)]  BY <4>4, <4>s DEF Placed
      <4>5. Harmless(v)  BY <4>3, <4>s, <4>o, <4>w, <4>q DEF Harmless, Writing
      <4> QED  BY <2>3, <3>2, <4>2, <4>5
    <3>6. ASSUME NEW v \in Workers PROVE Relies(v)'
      <4>1. CASE v = w  BY <3>3, <4>1
      <4>2. CASE v # w /\ InHand(v)'  BY <3>4, <4>2 DEF Advances
      <4>3. CASE ~InHand(v)'  BY <4>3 DEF InHand, Relies, Writing, Late
      <4> QED  BY <4>1, <4>2, <4>3
    <3>7. ASSUME NEW v \in Workers, NEW x \in Workers PROVE Alone(v, x)'
      <4> SUFFICES ASSUME v # x, InHand(v)', InHand(x)', F(v)' = F(x)' PROVE Harmless(v)'
        BY DEF Alone, Harmless
      <4>1. CASE v # w /\ x # w
        <5>1. InHand(v) /\ InHand(x) /\ F(v) = F(x) /\ (Harmless(v) => Harmless(v)')  BY <4>1, <3>4 DEF Advances
        <5> QED  BY <5>1, <1>l
      <4>2. CASE x = w
        <5>1. InHand(v) /\ F(v) = F(w) /\ (Harmless(v) => Harmless(v)')  BY <4>2, <3>1, <3>4 DEF Advances
        <5> QED  BY <5>1, <4>2, <3>5
      <4>3. CASE v = w
        <5>1. InHand(x) /\ F(x) = F(w)  BY <4>3, <3>1, <3>4
        <5>2. worker'[w].pc = "complete"  BY <5>1, <4>3, <3>5
        <5> QED  BY <5>2, <4>3 DEF Harmless
      <4> QED  BY <4>1, <4>2, <4>3
    <3> QED  BY <3>6, <3>7 DEF Solo
  <2> QED  BY <2>2, <2>3, <1>Claim, <1>a, ClaimDoes
<1>Open. ASSUME NEW w \in Workers, Open(w)
          PROVE  Solo'
  <2>1. \A v \in Workers : v # w => worker'[v] = worker[v]  BY <1>Open, <1>a, OpenDoes DEF Others
  <2>2. /\ InHand(w) /\ ~Harmless(w) /\ F(w) \in Files /\ \A g \in Files \ {F(w)} : part'[g] = part[g]
    BY <1>Open, <1>a, <1>w, OpenDoes DEF InHand, Harmless
  <2>3. ASSUME NEW v \in Workers, v # w, InHand(v)' PROVE Advances(v)
    <3>1. InHand(v) /\ worker'[v] = worker[v]  BY <2>1, <2>3 DEF InHand
    <3>2. F(v) # F(w) /\ F(v) \in Files  BY <2>2, <2>3, <3>1, <1>l, <1>h, <1>w
    <3> QED  BY <2>2, <2>3, <3>1, <3>2, <1>e
  <2>4. Advances(w)
    <3>1. /\ worker'[w].pc = "request" /\ worker'[w].t = worker[w].t /\ worker'[w].on = "part"
          /\ worker'[w].pos = worker[w].off /\ part'[F(w)] \in Seq(Chunks) /\ Len(part'[F(w)]) = worker[w].off
      BY <1>Open, <1>a, OpenDoes
    <3>2. F(w)' = F(w)  BY <2>2, <3>1, <1>f, <1>h
    <3>3. part'[F(w)] # Absent  BY <3>1, Facts
    <3> QED  BY <2>2, <3>1, <3>2, <3>3 DEF Advances, Relies, Writing, Late, Len0
  <2> QED  BY <2>3, <2>4, <1>k
<1>Answered. ASSUME NEW w \in Workers, Answered(w)
              PROVE  Solo'
  <2>1. \A v \in Workers : v # w => worker'[v] = worker[v]  BY <1>Answered, <1>a, AnsweredDoes DEF Goes, Others
  <2>2. part' = part  BY <1>Answered, <1>a, AnsweredDoes DEF disk, memory
  <2>3. InHand(w)' => Advances(w)
    BY <2>2, <1>Answered, <1>a, AnsweredDoes, <1>b, <1>w, <1>f, <1>i DEF InHand, Advances, Harmless, Relies, Writing, Late, Goes, Others, Placed, Len0, Whole
  <2> QED  BY <2>1, <2>2, <2>3, <1>e, <1>k
<1>AnsweredWhole. ASSUME NEW w \in Workers, AnsweredWhole(w)
                   PROVE  Solo'
  <2>1. \A v \in Workers : v # w => worker'[v] = worker[v]  BY <1>AnsweredWhole, <1>a, AnsweredWholeDoes DEF Others
  <2>2. /\ InHand(w) /\ ~Harmless(w) /\ F(w) \in Files /\ \A g \in Files \ {F(w)} : part'[g] = part[g]
    BY <1>AnsweredWhole, <1>a, <1>w, AnsweredWholeDoes DEF InHand, Harmless
  <2>3. ASSUME NEW v \in Workers, v # w, InHand(v)' PROVE Advances(v)
    <3>1. InHand(v) /\ worker'[v] = worker[v]  BY <2>1, <2>3 DEF InHand
    <3>2. F(v) # F(w) /\ F(v) \in Files  BY <2>2, <2>3, <3>1, <1>l, <1>h, <1>w
    <3> QED  BY <2>2, <2>3, <3>1, <3>2, <1>e
  <2>4. Advances(w)
    <3>1. /\ worker'[w].pc = "stream" /\ worker'[w].t = worker[w].t /\ worker'[w].on = "part"
          /\ worker'[w].pos = 0 /\ part'[F(w)] \in Seq(Chunks) /\ part'[F(w)] = <<>>
      BY <1>AnsweredWhole, <1>a, AnsweredWholeDoes
    <3>2. F(w)' = F(w)  BY <2>2, <3>1, <1>f, <1>h
    <3>3. part'[F(w)] # Absent /\ Len(part'[F(w)]) = 0  BY <3>1, Facts
    <3> QED  BY <2>2, <3>1, <3>2, <3>3 DEF Advances, Relies, Writing, Late, Len0
  <2> QED  BY <2>3, <2>4, <1>k
<1>StopAsked. ASSUME NEW w \in Workers, StopAsked(w)
               PROVE  Solo'
  <2>1. \A v \in Workers : v # w => worker'[v] = worker[v]  BY <1>StopAsked, <1>a, StopAskedDoes DEF Goes, Others
  <2>2. part' = part  BY <1>StopAsked, <1>a, StopAskedDoes DEF disk, memory
  <2>3. InHand(w)' => Advances(w)
    BY <2>2, <1>StopAsked, <1>a, StopAskedDoes, <1>b, <1>w, <1>f, <1>i DEF InHand, Advances, Harmless, Relies, Writing, Late, Goes, Others, Placed, Len0, Whole
  <2> QED  BY <2>1, <2>2, <2>3, <1>e, <1>k
<1>Tick. ASSUME NEW w \in Workers, Tick(w)
          PROVE  Solo'
  <2>1. \A v \in Workers : v # w => worker'[v] = worker[v]  BY <1>Tick, <1>a, TickDoes DEF Goes, Others
  <2>2. part' = part  BY <1>Tick, <1>a, TickDoes DEF disk, memory
  <2>3. InHand(w)' => Advances(w)
    BY <2>2, <1>Tick, <1>a, TickDoes, <1>b, <1>w, <1>f, <1>i DEF InHand, Advances, Harmless, Relies, Writing, Late, Goes, Others, Placed, Len0, Whole
  <2> QED  BY <2>1, <2>2, <2>3, <1>e, <1>k
<1>Chunk. ASSUME NEW w \in Workers, NEW c \in Chunks, Chunk(w, c)
           PROVE  Solo'
  <2>1. \A v \in Workers : v # w => worker'[v] = worker[v]  BY <1>Chunk, <1>a, ChunkDoes DEF Others
  <2>2. /\ InHand(w) /\ ~Harmless(w) /\ F(w) \in Files /\ \A g \in Files \ {F(w)} : part'[g] = part[g]
    <3>1. InHand(w) /\ ~Harmless(w) /\ F(w) \in Files  BY <1>Chunk, <1>a, <1>w, ChunkDoes DEF InHand, Harmless
    <3>2. \A g \in Files \ {F(w)} : part'[g] = part[g]  BY <1>Chunk, <1>a, ChunkDoes
    <3> QED  BY <3>1, <3>2
  <2>3. ASSUME NEW v \in Workers, v # w, InHand(v)' PROVE Advances(v)
    <3>1. InHand(v) /\ worker'[v] = worker[v]  BY <2>1, <2>3 DEF InHand
    <3>2. F(v) # F(w) /\ F(v) \in Files  BY <2>2, <2>3, <3>1, <1>l, <1>h, <1>w
    <3> QED  BY <2>2, <2>3, <3>1, <3>2, <1>e
  <2>4. Advances(w)
    <3>1. /\ worker[w].pc = "stream" /\ worker'[w].pc = "stream" /\ worker'[w].t = worker[w].t /\ worker'[w].on = worker[w].on
          /\ worker'[w].pos = worker[w].pos + 1
      BY <1>Chunk, <1>a, ChunkDoes
    <3>2. F(w)' = F(w)  BY <2>2, <3>1, <1>f, <1>h
    <3>3. CASE worker[w].on = "part"
      <4>1. /\ part'[F(w)] \in Seq(Chunks)
            /\ Len(part'[F(w)]) = IF Len0(F(w)) < worker[w].pos + 1 THEN worker[w].pos + 1 ELSE Len0(F(w))
        BY <3>3, <1>Chunk, <1>a, ChunkDoes
      <4>2. Len0(F(w)) = worker[w].pos /\ worker[w].pos \in Nat  BY <3>1, <3>3, <1>b, <1>w DEF Relies, Writing
      <4>3. part'[F(w)] # Absent /\ Len(part'[F(w)]) = worker[w].pos + 1  BY <4>1, <4>2, Facts
      <4> QED  BY <2>2, <3>1, <3>2, <3>3, <4>3 DEF Advances, Relies, Writing, Late, Len0
    <3>4. CASE worker[w].on # "part"
      <4>1. part' = part  BY <3>4, <1>Chunk, <1>a, ChunkDoes
      <4>2. part[F(w)] = Absent  BY <3>1, <3>4, <1>b DEF Relies, Writing
      <4> QED  BY <2>2, <3>1, <3>2, <3>4, <4>1, <4>2 DEF Advances, Relies, Writing, Late
    <3> QED  BY <3>3, <3>4
  <2> QED  BY <2>3, <2>4, <1>k
<1>StreamEnds. ASSUME NEW w \in Workers, StreamEnds(w)
                PROVE  Solo'
  <2>1. \A v \in Workers : v # w => worker'[v] = worker[v]  BY <1>StreamEnds, <1>a, StreamEndsDoes DEF Goes, Others
  <2>2. part' = part  BY <1>StreamEnds, <1>a, StreamEndsDoes DEF disk, memory
  <2>3. InHand(w)' => Advances(w)
    BY <2>2, <1>StreamEnds, <1>a, StreamEndsDoes, <1>b, <1>w, <1>f, <1>i DEF InHand, Advances, Harmless, Relies, Writing, Late, Goes, Others, Placed, Len0, Whole
  <2> QED  BY <2>1, <2>2, <2>3, <1>e, <1>k
<1>Trouble. ASSUME NEW w \in Workers, Trouble(w)
             PROVE  Solo'
  <2>1. \A v \in Workers : v # w => worker'[v] = worker[v]  BY <1>Trouble, <1>a, TroubleDoes DEF Goes, Others
  <2>2. part' = part  BY <1>Trouble, <1>a, TroubleDoes DEF disk, memory
  <2>3. InHand(w)' => Advances(w)
    BY <2>2, <1>Trouble, <1>a, TroubleDoes, <1>b, <1>w, <1>f, <1>i DEF InHand, Advances, Harmless, Relies, Writing, Late, Goes, Others, Placed, Len0, Whole
  <2> QED  BY <2>1, <2>2, <2>3, <1>e, <1>k
<1>Fail. ASSUME NEW w \in Workers, Fail(w)
          PROVE  Solo'
  <2>1. \A v \in Workers : v # w => worker'[v] = worker[v]  BY <1>Fail, <1>a, FailDoes DEF Goes, Others
  <2>2. part' = part  BY <1>Fail, <1>a, FailDoes DEF disk, memory
  <2>3. InHand(w)' => Advances(w)
    BY <2>2, <1>Fail, <1>a, FailDoes, <1>b, <1>w, <1>f, <1>i DEF InHand, Advances, Harmless, Relies, Writing, Late, Goes, Others, Placed, Len0, Whole
  <2> QED  BY <2>1, <2>2, <2>3, <1>e, <1>k
<1>LoadRows. ASSUME NEW w \in Workers, LoadRows(w)
              PROVE  Solo'
  <2>1. \A v \in Workers : v # w => worker'[v] = worker[v]  BY <1>LoadRows, <1>a, LoadRowsDoes DEF Goes, Others
  <2>2. part' = part  BY <1>LoadRows, <1>a, LoadRowsDoes DEF disk, memory
  <2>3. InHand(w)' => Advances(w)
    BY <2>2, <1>LoadRows, <1>a, LoadRowsDoes, <1>b, <1>w, <1>f, <1>i DEF InHand, Advances, Harmless, Relies, Writing, Late, Goes, Others, Placed, Len0, Whole
  <2> QED  BY <2>1, <2>2, <2>3, <1>e, <1>k
<1>SaveRows. ASSUME NEW w \in Workers, SaveRows(w)
              PROVE  Solo'
  <2>1. \A v \in Workers : v # w => worker'[v] = worker[v]  BY <1>SaveRows, <1>a, SaveRowsDoes DEF Goes, Others
  <2>2. part' = part  BY <1>SaveRows, <1>a, SaveRowsDoes DEF disk, memory
  <2>3. InHand(w)' => Advances(w)
    BY <2>2, <1>SaveRows, <1>a, SaveRowsDoes, <1>b, <1>w, <1>f, <1>i DEF InHand, Advances, Harmless, Relies, Writing, Late, Goes, Others, Placed, Len0, Whole
  <2> QED  BY <2>1, <2>2, <2>3, <1>e, <1>k
<1>Complete. ASSUME NEW w \in Workers, Complete(w)
              PROVE  Solo'
  <2>1. \A v \in Workers : v # w => worker'[v] = worker[v]  BY <1>Complete, <1>a, CompleteDoes DEF Goes, Others
  <2>2. part' = part  BY <1>Complete, <1>a, CompleteDoes DEF disk, memory
  <2>3. InHand(w)' => Advances(w)
    BY <2>2, <1>Complete, <1>a, CompleteDoes, <1>b, <1>w, <1>f, <1>i DEF InHand, Advances, Harmless, Relies, Writing, Late, Goes, Others, Placed, Len0, Whole
  <2> QED  BY <2>1, <2>2, <2>3, <1>e, <1>k
<1>Verify. ASSUME NEW w \in Workers, Verify(w)
            PROVE  Solo'
  <2>a. CASE /\ IF part[F(w)] # Absent THEN Whole(F(w)) ELSE final[F(w)] = "whole"
             /\ Goes(w, "accept") /\ UNCHANGED <<part, final>>
    <3>1. worker[w].pc = "verify" /\ F(w) \in Files  BY <1>Verify, <1>a, VerifyDoes
    <3>2. F(w)' = F(w)  BY <2>a, <3>1, <1>f DEF Goes
    <3>3. Advances(w)
      BY <2>a, <3>1, <3>2 DEF Advances, InHand, Relies, Harmless, Writing, Late, Goes, Whole, Len0
    <3> QED  BY <2>a, <3>3, <1>e, <1>k DEF Goes, Others
  <2>b. CASE /\ worker'[w].pc = "failing" /\ part'[F(w)] = Absent
             /\ \A v \in Workers \ {w} : Bystander(v, {F(w)})
             /\ \A f \in Files \ {F(w)} : part'[f] = part[f]
    <3>1. ASSUME NEW v \in Workers, v # w, InHand(v)' PROVE Advances(v)
      <4>1. Bystander(v, {F(w)}) /\ F(v) \in Files  BY <2>b, <3>1, <1>w DEF Bystander, Stays, InHand
      <4> QED  BY <2>b, <3>1, <4>1, <1>m
    <3>2. ~InHand(w)'  BY <2>b DEF InHand
    <3> QED  BY <3>1, <3>2, <1>k
  <2> QED  BY <2>a, <2>b, <1>Verify, <1>a, VerifyDoes
<1>Accept. ASSUME NEW w \in Workers, Accept(w)
            PROVE  Solo'
  <2>1. \A v \in Workers : v # w => worker'[v] = worker[v]  BY <1>Accept, <1>a, AcceptDoes DEF Goes, Others
  <2>2. part' = part  BY <1>Accept, <1>a, AcceptDoes DEF disk, memory
  <2>3. InHand(w)' => Advances(w)
    BY <2>2, <1>Accept, <1>a, AcceptDoes, <1>b, <1>w, <1>f, <1>i DEF InHand, Advances, Harmless, Relies, Writing, Late, Goes, Others, Placed, Len0, Whole
  <2> QED  BY <2>1, <2>2, <2>3, <1>e, <1>k
<1>PlaceShard. ASSUME NEW w \in Workers, PlaceShard(w)
                PROVE  Solo'
  <2>1. PICK done, moved : Renamed(done, moved) /\ \A v \in Workers \ {w} : Bystander(v, moved)
    BY <1>PlaceShard, <1>a, PlaceShardDoes
  <2>2. \A g \in Files : (g \in moved => part'[g] = Absent) /\ (g \notin moved => part'[g] = part[g])
    BY <2>1 DEF Renamed
  <2>3. ASSUME NEW v \in Workers, v # w, InHand(v)' PROVE Advances(v)
    <3>1. Bystander(v, moved) /\ F(v) \in Files  BY <2>1, <2>3, <1>w DEF Bystander, Stays, InHand
    <3> QED  BY <2>2, <2>3, <3>1, <1>m
  <2>4. ~InHand(w)'  BY <1>PlaceShard, <1>a, <1>i, PlaceShardDoes DEF InHand
  <2> QED  BY <2>3, <2>4, <1>k
<1>PlaceFile. ASSUME NEW w \in Workers, PlaceFile(w)
               PROVE  Solo'
  <2>1. \A v \in Workers \ {w} : Bystander(v, {F(w)})  BY <1>PlaceFile, <1>a, PlaceFileDoes
  <2>2. part'[F(w)] = Absent /\ \A g \in Files \ {F(w)} : part'[g] = part[g]  BY <1>PlaceFile, <1>a, PlaceFileDoes
  <2>3. ASSUME NEW v \in Workers, v # w, InHand(v)' PROVE Advances(v)
    <3>1. Bystander(v, {F(w)}) /\ F(v) \in Files  BY <2>1, <2>3, <1>w DEF Bystander, Stays, InHand
    <3> QED  BY <2>2, <2>3, <3>1, <1>m
  <2>4. ~InHand(w)'  BY <1>PlaceFile, <1>a, <1>i, PlaceFileDoes DEF InHand
  <2> QED  BY <2>3, <2>4, <1>k
<1>Extracted. ASSUME NEW w \in Workers, NEW ok \in BOOLEAN, ExtractArchive(w, ok) \/ ActivateProvider(w, ok)
               PROVE  Solo'
  <2>1. \A v \in Workers : v # w => worker'[v] = worker[v]  BY <1>Extracted, <1>a, ExtractedDoes DEF Goes, Others
  <2>2. part' = part  BY <1>Extracted, <1>a, ExtractedDoes DEF disk, memory
  <2>3. InHand(w)' => Advances(w)
    BY <2>2, <1>Extracted, <1>a, ExtractedDoes, <1>b, <1>w, <1>f, <1>i DEF InHand, Advances, Harmless, Relies, Writing, Late, Goes, Others, Placed, Len0, Whole
  <2> QED  BY <2>1, <2>2, <2>3, <1>e, <1>k
<1> QED
   BY <1>Enqueue, <1>Reextract, <1>EmptyTrash, <1>Pause, <1>Resume, <1>Cancel, <1>Reprioritize,
      <1>StartQuant, <1>Recovering, <1>Restart, <1>Renaming, <1>Gather, <1>FindSlot, <1>GiveUp,
      <1>Claim, <1>Open, <1>Answered, <1>AnsweredWhole, <1>StopAsked, <1>Tick, <1>Chunk,
      <1>StreamEnds, <1>Trouble, <1>Fail, <1>LoadRows, <1>SaveRows, <1>Complete, <1>Verify,
      <1>Accept, <1>PlaceShard, <1>PlaceFile, <1>Extracted, Steps

(***************************************************************************)
(* The inductive invariant: how a step may change a file.                  *)
(***************************************************************************)
Writes(w, f) ==
    /\ F(w) = f /\ worker'[w].pc \in {"request", "stream"}
    /\ \/ worker[w].pc \in {"open", "request"}
       \/ worker[w].pc = "stream" /\ worker[w].on = "part" /\ worker[w].pos < Size[f]
    /\ (/\ spent'["fault"] = spent["fault"] /\ Right(f)
        /\ worker[w].pc = "open" => worker[w].off <= Len0(f)
        /\ worker[w].pc = "stream" => worker[w].pos = Len0(f)) => Right(f)'
    /\ final'[f] = final[f]
Drops(f) == part'[f] = Absent /\ final'[f] = final[f] /\ spent["cancel"] > 0
Rejects(w, f) ==
    /\ F(w) = f /\ worker[w].pc = "verify" /\ part'[f] = Absent
    /\ IF part[f] # Absent THEN ~Whole(f) /\ final'[f] = final[f]
                           ELSE final[f] # "whole" /\ final'[f] = "absent"
Renames(f) ==
    /\ f \in Shards /\ final[f] = "absent" /\ Len0(f) = Size[f]
    /\ part'[f] = Absent /\ final'[f] = (IF Whole(f) THEN "whole" ELSE "bad")
    /\ f \in unvouched' \/ \E t \in Ids : status[t] = "Completed" /\ FileOf(t) = f
Places(w, f) ==
    /\ f \notin Shards /\ F(w) = f /\ worker[w].pc = "place" /\ part'[f] = Absent
    /\ final'[f] = IF part[f] = Absent THEN "absent" ELSE IF Whole(f) THEN "whole" ELSE "bad"
FileStep(f) ==
    \/ part'[f] = part[f] /\ final'[f] = final[f]
    \/ Drops(f) \/ Renames(f)
    \/ \E w \in Workers : Writes(w, f) \/ Rejects(w, f) \/ Places(w, f)

LEMMA FilesSteps ==
    ASSUME Basis, Next
    PROVE  \A g \in Files : FileStep(g)
<1>a. Types /\ Census /\ Sized /\ (\A v \in Workers : Assigned(v)) /\ \A u \in Ids : Known(u)
  BY DEF Basis, Census
<1>s. part' = part /\ final' = final => \A g \in Files : FileStep(g)  BY DEF FileStep
<1>r. ASSUME NEW done, NEW moved, Renamed(done, moved) PROVE \A g \in Files : FileStep(g)
  <2>1. ASSUME NEW f \in moved PROVE Renames(f)  BY <1>r, <2>1 DEF Renamed, Renames
  <2>2. \A f \in Files \ moved : part'[f] = part[f] /\ final'[f] = final[f]  BY <1>r DEF Renamed
  <2> QED  BY <2>1, <2>2 DEF FileStep
<1>w. ASSUME NEW w \in Workers, NEW g \in Files, g = F(w), Writes(w, g) \/ Rejects(w, g) \/ Places(w, g),
             \A f \in Files \ {g} : part'[f] = part[f] /\ final'[f] = final[f]
      PROVE  \A f \in Files : FileStep(f)
  BY <1>w DEF FileStep
<1>Enqueue. ASSUME NEW f \in Files, f \notin Shards, Enqueue(f)
             PROVE  \A g \in Files : FileStep(g)
  <2>1. part' = part /\ final' = final  BY <1>Enqueue, <1>a, EnqueueDoes DEF disk, memory
  <2> QED  BY <2>1, <1>s
<1>Reextract. ASSUME NEW f \in Files, Reextract(f)
               PROVE  \A g \in Files : FileStep(g)
  <2>1. part' = part /\ final' = final  BY <1>Reextract, <1>a, ReextractDoes DEF disk, memory
  <2> QED  BY <2>1, <1>s
<1>EmptyTrash. ASSUME NEW f \in Files, EmptyTrash(f)
                PROVE  \A g \in Files : FileStep(g)
  <2>1. /\ f \in trash /\ part'[f] = Absent /\ final' = final
        /\ \A g \in Files \ {f} : part'[g] = part[g]
    BY <1>EmptyTrash, <1>a, EmptyTrashDoes
  <2>2. Drops(f)  BY <2>1, <1>a DEF Drops, Census
  <2> QED  BY <2>1, <2>2 DEF FileStep
<1>Pause. ASSUME NEW t \in Ids, Pause(t)
           PROVE  \A g \in Files : FileStep(g)
  <2>1. part' = part /\ final' = final  BY <1>Pause, <1>a DEF disk, memory, Pause
  <2> QED  BY <2>1, <1>s
<1>Resume. ASSUME NEW t \in Ids, Resume(t)
            PROVE  \A g \in Files : FileStep(g)
  <2>k. Known(t)  BY <1>a
  <2>1. part' = part /\ final' = final  BY <1>Resume, <1>a, ResumeDoes, <2>k DEF disk, memory
  <2> QED  BY <2>1, <1>s
<1>Cancel. ASSUME NEW t \in Ids, Cancel(t)
            PROVE  \A g \in Files : FileStep(g)
  <2>1. part' = part /\ final' = final  BY <1>Cancel, <1>a, CancelDoes DEF disk, memory
  <2> QED  BY <2>1, <1>s
<1>Reprioritize. ASSUME NEW t \in Ids, NEW p \in 0 .. 1, Reprioritize(t, p)
                  PROVE  \A g \in Files : FileStep(g)
  <2>1. part' = part /\ final' = final  BY <1>Reprioritize, <1>a DEF disk, memory, Reprioritize
  <2> QED  BY <2>1, <1>s
<1>StartQuant. ASSUME StartQuant
                PROVE  \A g \in Files : FileStep(g)
  <2>1. part' = part /\ final' = final  BY <1>StartQuant, <1>a, StartQuantDoes DEF disk, memory
  <2> QED  BY <2>1, <1>s
<1>Recovering. ASSUME RecoverCommand \/ Recover
                PROVE  \A g \in Files : FileStep(g)
  <2>0. Reconciled  BY <1>Recovering, <1>a, RecoveringDoes
  <2>1. PICK done, moved : Renamed(done, moved)  BY <2>0 DEF Reconciled
  <2> QED  BY <2>1, <1>r
<1>Restart. ASSUME Restart
             PROVE  \A g \in Files : FileStep(g)
  <2>1. part' = part /\ final' = final  BY <1>Restart, <1>a, RestartingDoes DEF disk, memory, Restart
  <2> QED  BY <2>1, <1>s
<1>Renaming. ASSUME NEW b \in batches, NEW some \in SUBSET Shards, RestartRenaming(b, some)
              PROVE  \A g \in Files : FileStep(g)
  <2>1. ASSUME NEW f \in some PROVE Renames(f)  BY <1>Renaming, <1>a, <2>1, RenamingDoes DEF Renames
  <2>2. \A f \in Files \ some : part'[f] = part[f] /\ final'[f] = final[f]  BY <1>Renaming, <1>a, RenamingDoes
  <2> QED  BY <2>1, <2>2 DEF FileStep
<1>Gather. ASSUME Gather
            PROVE  \A g \in Files : FileStep(g)
  <2>1. part' = part /\ final' = final  BY <1>Gather, <1>a, GatherDoes DEF disk, memory
  <2> QED  BY <2>1, <1>s
<1>FindSlot. ASSUME NEW w \in Workers, FindSlot(w)
              PROVE  \A g \in Files : FileStep(g)
  <2>1. part' = part /\ final' = final  BY <1>FindSlot, <1>a, FindSlotDoes DEF disk, memory
  <2> QED  BY <2>1, <1>s
<1>GiveUp. ASSUME NEW w \in Workers, GiveUp(w)
            PROVE  \A g \in Files : FileStep(g)
  <2>1. part' = part /\ final' = final  BY <1>GiveUp, <1>a, GiveUpDoes DEF disk, memory
  <2> QED  BY <2>1, <1>s
<1>Claim. ASSUME NEW w \in Workers, Claim(w)
           PROVE  \A g \in Files : FileStep(g)
  <2>1. part' = part /\ final' = final  BY <1>Claim, <1>a, ClaimDoes DEF disk, memory
  <2> QED  BY <2>1, <1>s
<1>Open. ASSUME NEW w \in Workers, Open(w)
          PROVE  \A g \in Files : FileStep(g)
  <2>1. /\ F(w) \in Files /\ final' = final /\ worker[w].pc = "open" /\ worker'[w].pc = "request"
        /\ \A f \in Files \ {F(w)} : part'[f] = part[f]
    BY <1>Open, <1>a, OpenDoes
  <2>2. /\ spent'["fault"] = spent["fault"] /\ Right(F(w))
        /\ worker[w].pc = "open" => worker[w].off <= Len0(F(w))
        /\ worker[w].pc = "stream" => worker[w].pos = Len0(F(w))
        => \A i \in 1 .. Len(part'[F(w)]) : part'[F(w)][i] = "ok"
    BY <2>1, <1>Open, <1>a, OpenDoes
  <2>g. PICK g \in Files : g = F(w)  BY <2>1
  <2>3. (\A i \in 1 .. Len(part'[g]) : part'[g][i] = "ok") => Right(g)'  BY DEF Right
  <2>4. Writes(w, g)  BY <2>1, <2>2, <2>3, <2>g DEF Writes
  <2> QED  BY <2>1, <2>4, <2>g, <1>w
<1>Answered. ASSUME NEW w \in Workers, Answered(w)
              PROVE  \A g \in Files : FileStep(g)
  <2>1. part' = part /\ final' = final  BY <1>Answered, <1>a, AnsweredDoes DEF disk, memory
  <2> QED  BY <2>1, <1>s
<1>AnsweredWhole. ASSUME NEW w \in Workers, AnsweredWhole(w)
                   PROVE  \A g \in Files : FileStep(g)
  <2>1. /\ F(w) \in Files /\ final' = final /\ worker[w].pc = "request" /\ worker'[w].pc = "stream"
        /\ \A f \in Files \ {F(w)} : part'[f] = part[f]
    BY <1>AnsweredWhole, <1>a, AnsweredWholeDoes
  <2>2. /\ spent'["fault"] = spent["fault"] /\ Right(F(w))
        /\ worker[w].pc = "open" => worker[w].off <= Len0(F(w))
        /\ worker[w].pc = "stream" => worker[w].pos = Len0(F(w))
        => \A i \in 1 .. Len(part'[F(w)]) : part'[F(w)][i] = "ok"
    <3>1. part'[F(w)] = <<>>  BY <1>AnsweredWhole, <1>a, AnsweredWholeDoes
    <3> QED  BY <3>1
  <2>g. PICK g \in Files : g = F(w)  BY <2>1
  <2>3. (\A i \in 1 .. Len(part'[g]) : part'[g][i] = "ok") => Right(g)'  BY DEF Right
  <2>4. Writes(w, g)  BY <2>1, <2>2, <2>3, <2>g DEF Writes
  <2> QED  BY <2>1, <2>4, <2>g, <1>w
<1>StopAsked. ASSUME NEW w \in Workers, StopAsked(w)
               PROVE  \A g \in Files : FileStep(g)
  <2>1. part' = part /\ final' = final  BY <1>StopAsked, <1>a, StopAskedDoes DEF disk, memory
  <2> QED  BY <2>1, <1>s
<1>Tick. ASSUME NEW w \in Workers, Tick(w)
          PROVE  \A g \in Files : FileStep(g)
  <2>1. part' = part /\ final' = final  BY <1>Tick, <1>a, TickDoes DEF disk, memory
  <2> QED  BY <2>1, <1>s
<1>Chunk. ASSUME NEW w \in Workers, NEW c \in Chunks, Chunk(w, c)
           PROVE  \A g \in Files : FileStep(g)
  <2>a. CASE worker[w].on # "part"
    <3>1. part' = part /\ final' = final  BY <2>a, <1>Chunk, <1>a, ChunkDoes
    <3> QED  BY <3>1, <1>s
  <2>b. CASE worker[w].on = "part"
    <3>1. /\ F(w) \in Files /\ final' = final /\ worker[w].pc = "stream" /\ worker'[w].pc = "stream" /\ worker[w].pos < Size[F(w)]
          /\ \A f \in Files \ {F(w)} : part'[f] = part[f]
      BY <2>b, <1>Chunk, <1>a, ChunkDoes
    <3>2. /\ spent'["fault"] = spent["fault"] /\ Right(F(w))
          /\ worker[w].pc = "open" => worker[w].off <= Len0(F(w))
          /\ worker[w].pc = "stream" => worker[w].pos = Len0(F(w))
          => \A i \in 1 .. Len(part'[F(w)]) : part'[F(w)][i] = "ok"
      <4>1. c = "ok" \/ spent'["fault"] # spent["fault"]
        <5>1. CASE c = "ok"  BY <5>1
        <5>2. CASE c # "ok"
          <6>1. Spend("fault")  BY <5>2, <1>Chunk DEF Chunk
          <6>2. spent'["fault"] = spent["fault"] + 1 /\ spent["fault"] \in Nat
             BY <6>1, <1>a, SpentOnce DEF Types, Kinds
          <6> QED  BY <6>2
        <5> QED  BY <5>1, <5>2
      <4> QED  BY <2>b, <4>1, <1>Chunk, <1>a, ChunkDoes
    <3>g. PICK g \in Files : g = F(w)  BY <3>1
    <3>3. (\A i \in 1 .. Len(part'[g]) : part'[g][i] = "ok") => Right(g)'  BY DEF Right
    <3>4. Writes(w, g)  BY <2>b, <3>1, <3>2, <3>3, <3>g DEF Writes
    <3> QED  BY <3>1, <3>4, <3>g, <1>w
  <2> QED  BY <2>a, <2>b
<1>StreamEnds. ASSUME NEW w \in Workers, StreamEnds(w)
                PROVE  \A g \in Files : FileStep(g)
  <2>1. part' = part /\ final' = final  BY <1>StreamEnds, <1>a, StreamEndsDoes DEF disk, memory
  <2> QED  BY <2>1, <1>s
<1>Trouble. ASSUME NEW w \in Workers, Trouble(w)
             PROVE  \A g \in Files : FileStep(g)
  <2>1. part' = part /\ final' = final  BY <1>Trouble, <1>a, TroubleDoes DEF disk, memory
  <2> QED  BY <2>1, <1>s
<1>Fail. ASSUME NEW w \in Workers, Fail(w)
          PROVE  \A g \in Files : FileStep(g)
  <2>1. part' = part /\ final' = final  BY <1>Fail, <1>a, FailDoes DEF disk, memory
  <2> QED  BY <2>1, <1>s
<1>LoadRows. ASSUME NEW w \in Workers, LoadRows(w)
              PROVE  \A g \in Files : FileStep(g)
  <2>1. part' = part /\ final' = final  BY <1>LoadRows, <1>a, LoadRowsDoes DEF disk, memory
  <2> QED  BY <2>1, <1>s
<1>SaveRows. ASSUME NEW w \in Workers, SaveRows(w)
              PROVE  \A g \in Files : FileStep(g)
  <2>1. part' = part /\ final' = final  BY <1>SaveRows, <1>a, SaveRowsDoes DEF disk, memory
  <2> QED  BY <2>1, <1>s
<1>Complete. ASSUME NEW w \in Workers, Complete(w)
              PROVE  \A g \in Files : FileStep(g)
  <2>1. part' = part /\ final' = final  BY <1>Complete, <1>a, CompleteDoes DEF disk, memory
  <2> QED  BY <2>1, <1>s
<1>Verify. ASSUME NEW w \in Workers, Verify(w)
            PROVE  \A g \in Files : FileStep(g)
  <2>1. worker[w].pc = "verify" /\ F(w) \in Files  BY <1>Verify, <1>a, VerifyDoes
  <2>2. CASE part' = part /\ final' = final  BY <2>2, <1>s
  <2>3. CASE /\ IF part[F(w)] # Absent THEN ~Whole(F(w)) ELSE final[F(w)] # "whole"
             /\ part'[F(w)] = Absent /\ \A f \in Files \ {F(w)} : part'[f] = part[f]
             /\ final' = IF part[F(w)] # Absent THEN final ELSE [final EXCEPT ![F(w)] = "absent"]
    <3>1. Rejects(w, F(w)) /\ \A f \in Files \ {F(w)} : final'[f] = final[f]
      BY <2>1, <2>3, <1>a DEF Rejects, Types
    <3> QED  BY <2>1, <2>3, <3>1, <1>w
  <2> QED  BY <2>2, <2>3, <1>Verify, <1>a, VerifyDoes
<1>Accept. ASSUME NEW w \in Workers, Accept(w)
            PROVE  \A g \in Files : FileStep(g)
  <2>1. part' = part /\ final' = final  BY <1>Accept, <1>a, AcceptDoes DEF disk, memory
  <2> QED  BY <2>1, <1>s
<1>PlaceShard. ASSUME NEW w \in Workers, PlaceShard(w)
                PROVE  \A g \in Files : FileStep(g)
  <2>1. PICK done, moved : Renamed(done, moved)  BY <1>PlaceShard, <1>a, PlaceShardDoes
  <2> QED  BY <2>1, <1>r
<1>PlaceFile. ASSUME NEW w \in Workers, PlaceFile(w)
               PROVE  \A g \in Files : FileStep(g)
  <2>1. /\ worker[w].pc = "place" /\ F(w) \in Files /\ worker[w].t \in Ids /\ job[worker[w].t].batch = 0
        /\ part'[F(w)] = Absent /\ \A f \in Files \ {F(w)} : part'[f] = part[f]
        /\ final' = [final EXCEPT ![F(w)] = IF part[F(w)] = Absent THEN "absent"
                                             ELSE IF Whole(F(w)) THEN "whole" ELSE "bad"]
    BY <1>PlaceFile, <1>a, PlaceFileDoes
  <2>2. F(w) \notin Shards  BY <2>1, <1>a DEF Known, F
  <2>3. Places(w, F(w)) /\ \A f \in Files \ {F(w)} : final'[f] = final[f]
    BY <2>1, <2>2, <1>a DEF Places, Types
  <2> QED  BY <2>1, <2>3, <1>w
<1>Extracted. ASSUME NEW w \in Workers, NEW ok \in BOOLEAN, ExtractArchive(w, ok) \/ ActivateProvider(w, ok)
               PROVE  \A g \in Files : FileStep(g)
  <2>1. part' = part /\ final' = final  BY <1>Extracted, <1>a, ExtractedDoes DEF disk, memory
  <2> QED  BY <2>1, <1>s
<1> QED
   BY <1>Enqueue, <1>Reextract, <1>EmptyTrash, <1>Pause, <1>Resume, <1>Cancel, <1>Reprioritize,
      <1>StartQuant, <1>Recovering, <1>Restart, <1>Renaming, <1>Gather, <1>FindSlot, <1>GiveUp,
      <1>Claim, <1>Open, <1>Answered, <1>AnsweredWhole, <1>StopAsked, <1>Tick, <1>Chunk,
      <1>StreamEnds, <1>Trouble, <1>Fail, <1>LoadRows, <1>SaveRows, <1>Complete, <1>Verify,
      <1>Accept, <1>PlaceShard, <1>PlaceFile, <1>Extracted, Steps

(***************************************************************************)
(* The inductive invariant: how a step may change the tasks of the shards, *)
(* and which workers it brings to the places that matter.                  *)
(***************************************************************************)
Closing == \A f \in Shards : final'[f] # "absent"
StillShown(t) == status[t] # "none" /\ FileOf(t) \in Shards =>
    (status'[t] # "none" /\ job'[t] = job[t]) \/ (app' # "up" /\ spent'["crash"] > 0)
Finishes(t) == status'[t] = "Completed" /\ job'[t].file \in Shards =>
    \/ status[t] = "Completed" /\ job'[t] = job[t]
    \/ \E w \in Workers : Late(w) /\ F(w) = job'[t].file
    \/ Closing
TurnsLate(v) == worker'[v].pc \in {"accept", "unrow", "place"} =>
    /\ worker'[v].t = worker[v].t
    /\ \/ Late(v)
       \/ worker[v].pc = "verify" /\ part' = part /\ final' = final /\ (Whole(F(v)) \/ final[F(v)] = "whole")
Opens(v) == worker'[v].pc = "open" =>
    /\ worker'[v].t = worker[v].t
    /\ \/ worker[v].pc = "open" /\ worker'[v].off = worker[v].off
       \/ worker[v].pc = "claim" /\ part' = part /\ worker'[v].off = Len0(F(v))
TasksStep == /\ \A u \in Ids : StillShown(u) /\ Finishes(u)
             /\ \A v \in Workers : TurnsLate(v) /\ Opens(v)

LEMMA ClosingWhenDone ==
    ASSUME NEW done, NEW moved, Renamed(done, moved), done # {}
    PROVE  Closing
  BY Facts DEF Renamed, Closing

LEMMA TasksSteps ==
    ASSUME Basis, Next
    PROVE  TasksStep
<1>a. Types /\ Census /\ Sized /\ (\A v \in Workers : Assigned(v)) /\ \A u \in Ids : Known(u)
  BY DEF Basis, Census
<1>d. /\ status \in [Ids -> Statuses] /\ worker \in [Workers -> WorkerRecord]
      /\ job \in [Ids -> [file : Files \cup {"none"}, batch : Nat]]
  BY <1>a DEF Types
<1>w. \A v \in Workers : worker[v].pc # "gone" =>
          /\ worker[v].t \in Ids /\ F(v) \in Files /\ Placed(v)
          /\ F(v) \in Shards => status[worker[v].t] # "none"
  BY <1>a DEF Assigned, Sized
<1>n. \A u \in Ids : (job[u].batch # 0 <=> FileOf(u) \in Shards) /\ (FileOf(u) \in Files => job[u].file # "none")
                     /\ (FileOf(u) = "none" => status[u] = "none")
  BY <1>a, Facts DEF Known, FileOf
<1>v. \A v \in Workers : Stays(v) \/ worker'[v].pc \in {"wait", "gone", "extract"} => TurnsLate(v) /\ Opens(v)
  BY DEF Stays, TurnsLate, Late, Opens
<1>t. \A u \in Ids : job'[u] = job[u] /\ status'[u] = status[u] => StillShown(u) /\ Finishes(u)
  BY DEF StillShown, Finishes
<1>y. \A v \in Workers : worker'[v] = worker[v] => Stays(v)  BY DEF Stays
<1>q. \A u \in Ids : job'[u] = job[u] /\ status'[u] \notin {"none", "Completed"} => StillShown(u) /\ Finishes(u)
  BY DEF StillShown, Finishes
<1>o. \A w \in Workers : /\ \A v \in Workers \ {w} : Stays(v)
                         /\ job' = job
                         /\ \A u \in Ids : u # worker[w].t => status'[u] = status[u]
                         /\ \A u \in Ids : u = worker[w].t => StillShown(u) /\ Finishes(u)
                         /\ TurnsLate(w) /\ Opens(w)
                         => TasksStep
  BY <1>v, <1>t DEF TasksStep
<1>Enqueue. ASSUME NEW f \in Files, f \notin Shards, Enqueue(f)
             PROVE  TasksStep
  <2>0. PICK jobs : Added(jobs)  BY <1>Enqueue, <1>a, EnqueueDoes
  <2>1. \A v \in Workers : worker'[v] = worker[v] \/ worker'[v].pc = "wait"
    <3>1. ASSUME NEW v \in Workers, worker'[v] = [Idle EXCEPT !.t = worker'[v].t, !.pc = "wait"] PROVE worker'[v].pc = "wait"
      BY <3>1 DEF Idle
    <3> QED  BY <2>0, <3>1 DEF Added
  <2>2. ASSUME NEW u \in Ids PROVE StillShown(u) /\ Finishes(u)
    <3>1. CASE job'[u] = job[u] /\ status'[u] = status[u]  BY <3>1, <1>t
    <3>2. CASE FileOf(u) = "none" /\ status'[u] = "Queued"  BY <3>2, <1>n DEF StillShown, Finishes
    <3> QED  BY <2>0, <3>1, <3>2 DEF Added
  <2> QED  BY <2>1, <2>2, <1>v, <1>y DEF TasksStep
<1>Reextract. ASSUME NEW f \in Files, Reextract(f)
               PROVE  TasksStep
  <2>0. PICK x \in Ids, y \in Workers : Extracting(f, x, y)  BY <1>Reextract, <1>a, ReextractDoes
  <2>f. f \notin Shards  BY <1>Reextract, <1>a, ReextractDoes, Facts
  <2>1. \A v \in Workers : worker'[v] = worker[v] \/ worker'[v].pc = "extract"  BY <2>0 DEF Extracting, Others
  <2>2. ASSUME NEW u \in Ids PROVE StillShown(u) /\ Finishes(u)
    <3>1. CASE u = x  BY <2>0, <3>1, <1>n DEF Extracting, StillShown, Finishes
    <3>2. CASE u # x /\ FileOf(u) = f  BY <2>0, <2>f, <3>2 DEF Extracting, StillShown, Finishes, FileOf
    <3>3. CASE u # x /\ FileOf(u) # f  BY <2>0, <3>3, <1>t DEF Extracting
    <3> QED  BY <3>1, <3>2, <3>3
  <2> QED  BY <2>1, <2>2, <1>v, <1>y DEF TasksStep
<1>EmptyTrash. ASSUME NEW f \in Files, EmptyTrash(f)
                PROVE  TasksStep
  <2>1. status' = status /\ job' = job /\ \A v \in Workers : Stays(v)
    BY <1>EmptyTrash, <1>a, EmptyTrashDoes DEF Bystander, memory
  <2> QED  BY <2>1, <1>v, <1>t DEF TasksStep
<1>Pause. ASSUME NEW t \in Ids, Pause(t)
           PROVE  TasksStep
  <2>1. worker' = worker /\ job' = job /\ \A u \in Ids : status'[u] \in {status[u], "Paused"}
    BY <1>Pause, <1>d DEF Pause
  <2> QED  BY <2>1, <1>v, <1>y, <1>t, <1>q DEF TasksStep
<1>Resume. ASSUME NEW t \in Ids, Resume(t)
            PROVE  TasksStep
  <2>0. Known(t)  BY <1>a
  <2>1. \A v \in Workers : worker'[v] = worker[v] \/ worker'[v].pc = "wait"
    <3>1. ASSUME NEW v \in Workers, worker'[v] = [Idle EXCEPT !.t = worker'[v].t, !.pc = "wait"] PROVE worker'[v].pc = "wait"
      BY <3>1 DEF Idle
    <3>2. \A v \in Workers : \/ worker'[v] = worker[v]
                              \/ /\ worker[v].pc = "gone" /\ worker'[v].t = t
                                 /\ worker'[v] = [Idle EXCEPT !.t = worker'[v].t, !.pc = "wait"]
      BY <2>0, <1>Resume, <1>a, ResumeDoes
    <3> QED  BY <3>1, <3>2
  <2>2. job' = job /\ \A u \in Ids : status'[u] \in {status[u], "Queued"}  BY <1>Resume, <1>d DEF Resume
  <2> QED  BY <2>1, <2>2, <1>v, <1>y, <1>t, <1>q DEF TasksStep
<1>Cancel. ASSUME NEW t \in Ids, Cancel(t)
            PROVE  TasksStep
  <2>0. PICK hit \in SUBSET Ids :
                 /\ \A u \in hit : status[u] # "none"
                 /\ status' = [u \in Ids |-> IF u \in hit THEN "Failed" ELSE status[u]]
                 /\ rows' = [u \in Ids |-> IF u \in hit THEN NoRow ELSE rows[u]]
    BY <1>Cancel, <1>a, CancelDoes
  <2>u. worker' = worker /\ job' = job  BY <1>Cancel, <1>a, CancelDoes
  <2>s. \A u \in Ids : status'[u] \in {status[u], "Failed"}  BY <2>0
  <2> QED  BY <2>u, <2>s, <1>v, <1>y, <1>t, <1>q DEF TasksStep
<1>Reprioritize. ASSUME NEW t \in Ids, NEW p \in 0 .. 1, Reprioritize(t, p)
                  PROVE  TasksStep
  <2>1. worker' = worker /\ job' = job /\ \A u \in Ids : status'[u] \in {status[u], "Paused"}
    BY <1>Reprioritize, <1>d DEF Reprioritize
  <2> QED  BY <2>1, <1>v, <1>y, <1>t, <1>q DEF TasksStep
<1>StartQuant. ASSUME StartQuant
                PROVE  TasksStep
  <2>0. PICK jobs : Added(jobs)  BY <1>StartQuant, <1>a, StartQuantDoes
  <2>1. \A v \in Workers : worker'[v] = worker[v] \/ worker'[v].pc = "wait"
    <3>1. ASSUME NEW v \in Workers, worker'[v] = [Idle EXCEPT !.t = worker'[v].t, !.pc = "wait"] PROVE worker'[v].pc = "wait"
      BY <3>1 DEF Idle
    <3> QED  BY <2>0, <3>1 DEF Added
  <2>2. ASSUME NEW u \in Ids PROVE StillShown(u) /\ Finishes(u)
    <3>1. CASE job'[u] = job[u] /\ status'[u] = status[u]  BY <3>1, <1>t
    <3>2. CASE FileOf(u) = "none" /\ status'[u] = "Queued"  BY <3>2, <1>n DEF StillShown, Finishes
    <3> QED  BY <2>0, <3>1, <3>2 DEF Added
  <2> QED  BY <2>1, <2>2, <1>v, <1>y DEF TasksStep
<1>Recovering. ASSUME RecoverCommand \/ Recover
                PROVE  TasksStep
  <2>0. Reconciled  BY <1>Recovering, <1>a, RecoveringDoes
  <2>p. PICK done, moved : Renamed(done, moved) /\ (\A v \in Workers : Bystander(v, moved)) /\ Settled(done)
    BY <2>0 DEF Reconciled
  <2>1. /\ Renamed(done, moved) /\ \A v \in Workers : Bystander(v, moved)
        /\ \A t \in Ids : status'[t] = "Completed" =>
              (job'[t] = job[t] /\ status[t] = "Completed") \/ job'[t].batch \in done
    BY <2>p DEF Settled
  <2>2. ASSUME NEW u \in Ids PROVE StillShown(u) /\ Finishes(u)
    <3>1. Finishes(u)  BY <2>1, ClosingWhenDone DEF Finishes
    <3>2. status'[u] \in {status[u], "Paused", "Completed"} /\ (job'[u] = job[u] \/ FileOf(u) = "none")
      BY <2>0 DEF Reconciled
    <3>3. StillShown(u)  BY <3>2, <1>n DEF StillShown
    <3> QED  BY <3>1, <3>3
  <2> QED  BY <2>1, <2>2, <1>v DEF TasksStep, Bystander
<1>Restart. ASSUME Restart
             PROVE  TasksStep
  <2>1. /\ app' = "starting" /\ Spend("crash") /\ status' = [t \in Ids |-> "none"]
        /\ \A v \in Workers : worker'[v] = Idle
    BY <1>Restart, <1>a, RestartingDoes
  <2>2. spent'["crash"] > 0
    <3>1. spent'["crash"] = spent["crash"] + 1 /\ spent["crash"] \in Nat  BY <2>1, <1>a, SpentOnce DEF Types, Kinds
    <3> QED  BY <3>1
  <2>3. \A u \in Ids : StillShown(u) /\ Finishes(u)  BY <2>1, <2>2 DEF StillShown, Finishes
  <2>4. \A v \in Workers : TurnsLate(v) /\ Opens(v)  BY <2>1, <1>v, IdleTyped
  <2> QED  BY <2>3, <2>4 DEF TasksStep
<1>Renaming. ASSUME NEW b \in batches, NEW some \in SUBSET Shards, RestartRenaming(b, some)
              PROVE  TasksStep
  <2>1. /\ app' = "starting" /\ Spend("crash") /\ status' = [t \in Ids |-> "none"]
        /\ \A v \in Workers : worker'[v] = Idle
    BY <1>Renaming, <1>a, RestartingDoes
  <2>2. spent'["crash"] > 0
    <3>1. spent'["crash"] = spent["crash"] + 1 /\ spent["crash"] \in Nat  BY <2>1, <1>a, SpentOnce DEF Types, Kinds
    <3> QED  BY <3>1
  <2>3. \A u \in Ids : StillShown(u) /\ Finishes(u)  BY <2>1, <2>2 DEF StillShown, Finishes
  <2>4. \A v \in Workers : TurnsLate(v) /\ Opens(v)  BY <2>1, <1>v, IdleTyped
  <2> QED  BY <2>3, <2>4 DEF TasksStep
<1>Gather. ASSUME Gather
            PROVE  TasksStep
  <2>1. status' = status /\ job' = job /\ worker' = worker  BY <1>Gather, <1>a, GatherDoes
  <2> QED  BY <2>1, <1>v, <1>y, <1>t DEF TasksStep
<1>FindSlot. ASSUME NEW w \in Workers, FindSlot(w)
              PROVE  TasksStep
  <2>1. \A v \in Workers \ {w} : Stays(v)  BY <1>FindSlot, <1>a, <1>y, FindSlotDoes DEF Goes, Others
  <2>2. job' = job /\ \A u \in Ids : u # worker[w].t => status'[u] = status[u]
    BY <1>FindSlot, <1>a, <1>d, FindSlotDoes DEF memory
  <2>3. \A u \in Ids : u = worker[w].t => StillShown(u) /\ Finishes(u)
    BY <2>2, <1>FindSlot, <1>a, <1>d, <1>t, <1>q, FindSlotDoes DEF memory
  <2>4. TurnsLate(w) /\ Opens(w)
    BY <1>FindSlot, <1>a, <1>d, <1>v, <1>y, FindSlotDoes, IdleTyped DEF Goes, TurnsLate, Opens, Late, disk
  <2> QED  BY <2>1, <2>2, <2>3, <2>4, <1>o
<1>GiveUp. ASSUME NEW w \in Workers, GiveUp(w)
            PROVE  TasksStep
  <2>1. \A v \in Workers \ {w} : Stays(v)  BY <1>GiveUp, <1>a, <1>y, GiveUpDoes DEF Goes, Others
  <2>2. job' = job /\ \A u \in Ids : u # worker[w].t => status'[u] = status[u]
    BY <1>GiveUp, <1>a, <1>d, GiveUpDoes DEF memory
  <2>3. \A u \in Ids : u = worker[w].t => StillShown(u) /\ Finishes(u)
    BY <2>2, <1>GiveUp, <1>a, <1>d, <1>t, <1>q, GiveUpDoes DEF memory
  <2>4. TurnsLate(w) /\ Opens(w)
    BY <1>GiveUp, <1>a, <1>d, <1>v, <1>y, GiveUpDoes, IdleTyped DEF Goes, TurnsLate, Opens, Late, disk
  <2> QED  BY <2>1, <2>2, <2>3, <2>4, <1>o
<1>Claim. ASSUME NEW w \in Workers, Claim(w)
           PROVE  TasksStep
  <2>1. \A v \in Workers \ {w} : Stays(v)  BY <1>Claim, <1>a, <1>y, ClaimDoes DEF Goes, Others
  <2>2. job' = job /\ \A u \in Ids : u # worker[w].t => status'[u] = status[u]
    BY <1>Claim, <1>a, <1>d, ClaimDoes DEF memory
  <2>3. \A u \in Ids : u = worker[w].t => StillShown(u) /\ Finishes(u)
    BY <2>2, <1>Claim, <1>a, <1>d, <1>t, <1>q, ClaimDoes
  <2>4. TurnsLate(w) /\ Opens(w)
    BY <1>Claim, <1>a, <1>v, ClaimDoes, IdleTyped DEF TurnsLate, Opens, disk
  <2> QED  BY <2>1, <2>2, <2>3, <2>4, <1>o
<1>Open. ASSUME NEW w \in Workers, Open(w)
          PROVE  TasksStep
  <2>1. \A v \in Workers \ {w} : Stays(v)  BY <1>Open, <1>a, <1>y, OpenDoes DEF Goes, Others
  <2>2. job' = job /\ \A u \in Ids : u # worker[w].t => status'[u] = status[u]
    BY <1>Open, <1>a, <1>d, OpenDoes DEF memory
  <2>3. \A u \in Ids : u = worker[w].t => StillShown(u) /\ Finishes(u)
    BY <2>2, <1>Open, <1>a, <1>d, <1>t, <1>q, OpenDoes DEF memory
  <2>4. TurnsLate(w) /\ Opens(w)
    BY <1>Open, <1>a, <1>d, <1>v, <1>y, OpenDoes, IdleTyped DEF Goes, TurnsLate, Opens, Late, disk
  <2> QED  BY <2>1, <2>2, <2>3, <2>4, <1>o
<1>Answered. ASSUME NEW w \in Workers, Answered(w)
              PROVE  TasksStep
  <2>1. \A v \in Workers \ {w} : Stays(v)  BY <1>Answered, <1>a, <1>y, AnsweredDoes DEF Goes, Others
  <2>2. job' = job /\ \A u \in Ids : u # worker[w].t => status'[u] = status[u]
    BY <1>Answered, <1>a, <1>d, AnsweredDoes DEF memory
  <2>3. \A u \in Ids : u = worker[w].t => StillShown(u) /\ Finishes(u)
    BY <2>2, <1>Answered, <1>a, <1>d, <1>t, <1>q, AnsweredDoes DEF memory
  <2>4. TurnsLate(w) /\ Opens(w)
    BY <1>Answered, <1>a, <1>d, <1>v, <1>y, AnsweredDoes, IdleTyped DEF Goes, TurnsLate, Opens, Late, disk
  <2> QED  BY <2>1, <2>2, <2>3, <2>4, <1>o
<1>AnsweredWhole. ASSUME NEW w \in Workers, AnsweredWhole(w)
                   PROVE  TasksStep
  <2>1. \A v \in Workers \ {w} : Stays(v)  BY <1>AnsweredWhole, <1>a, <1>y, AnsweredWholeDoes DEF Goes, Others
  <2>2. job' = job /\ \A u \in Ids : u # worker[w].t => status'[u] = status[u]
    BY <1>AnsweredWhole, <1>a, <1>d, AnsweredWholeDoes DEF memory
  <2>3. \A u \in Ids : u = worker[w].t => StillShown(u) /\ Finishes(u)
    BY <2>2, <1>AnsweredWhole, <1>a, <1>d, <1>t, <1>q, AnsweredWholeDoes DEF memory
  <2>4. TurnsLate(w) /\ Opens(w)
    BY <1>AnsweredWhole, <1>a, <1>d, <1>v, <1>y, AnsweredWholeDoes, IdleTyped DEF Goes, TurnsLate, Opens, Late, disk
  <2> QED  BY <2>1, <2>2, <2>3, <2>4, <1>o
<1>StopAsked. ASSUME NEW w \in Workers, StopAsked(w)
               PROVE  TasksStep
  <2>1. \A v \in Workers \ {w} : Stays(v)  BY <1>StopAsked, <1>a, <1>y, StopAskedDoes DEF Goes, Others
  <2>2. job' = job /\ \A u \in Ids : u # worker[w].t => status'[u] = status[u]
    BY <1>StopAsked, <1>a, <1>d, StopAskedDoes DEF memory
  <2>3. \A u \in Ids : u = worker[w].t => StillShown(u) /\ Finishes(u)
    BY <2>2, <1>StopAsked, <1>a, <1>d, <1>t, <1>q, StopAskedDoes DEF memory
  <2>4. TurnsLate(w) /\ Opens(w)
    BY <1>StopAsked, <1>a, <1>d, <1>v, <1>y, StopAskedDoes, IdleTyped DEF Goes, TurnsLate, Opens, Late, disk
  <2> QED  BY <2>1, <2>2, <2>3, <2>4, <1>o
<1>Tick. ASSUME NEW w \in Workers, Tick(w)
          PROVE  TasksStep
  <2>1. \A v \in Workers \ {w} : Stays(v)  BY <1>Tick, <1>a, <1>y, TickDoes DEF Goes, Others
  <2>2. job' = job /\ \A u \in Ids : u # worker[w].t => status'[u] = status[u]
    BY <1>Tick, <1>a, <1>d, TickDoes DEF memory
  <2>3. \A u \in Ids : u = worker[w].t => StillShown(u) /\ Finishes(u)
    BY <2>2, <1>Tick, <1>a, <1>d, <1>t, <1>q, TickDoes DEF memory
  <2>4. TurnsLate(w) /\ Opens(w)
    BY <1>Tick, <1>a, <1>d, <1>v, <1>y, TickDoes, IdleTyped DEF Goes, TurnsLate, Opens, Late, disk
  <2> QED  BY <2>1, <2>2, <2>3, <2>4, <1>o
<1>Chunk. ASSUME NEW w \in Workers, NEW c \in Chunks, Chunk(w, c)
           PROVE  TasksStep
  <2>1. \A v \in Workers \ {w} : Stays(v)  BY <1>Chunk, <1>a, <1>y, ChunkDoes DEF Goes, Others
  <2>2. job' = job /\ \A u \in Ids : u # worker[w].t => status'[u] = status[u]
    BY <1>Chunk, <1>a, <1>d, ChunkDoes DEF memory
  <2>3. \A u \in Ids : u = worker[w].t => StillShown(u) /\ Finishes(u)
    BY <2>2, <1>Chunk, <1>a, <1>d, <1>t, <1>q, ChunkDoes DEF memory
  <2>4. TurnsLate(w) /\ Opens(w)
    BY <1>Chunk, <1>a, <1>d, <1>v, <1>y, ChunkDoes, IdleTyped DEF Goes, TurnsLate, Opens, Late, disk
  <2> QED  BY <2>1, <2>2, <2>3, <2>4, <1>o
<1>StreamEnds. ASSUME NEW w \in Workers, StreamEnds(w)
                PROVE  TasksStep
  <2>1. \A v \in Workers \ {w} : Stays(v)  BY <1>StreamEnds, <1>a, <1>y, StreamEndsDoes DEF Goes, Others
  <2>2. job' = job /\ \A u \in Ids : u # worker[w].t => status'[u] = status[u]
    BY <1>StreamEnds, <1>a, <1>d, StreamEndsDoes DEF memory
  <2>3. \A u \in Ids : u = worker[w].t => StillShown(u) /\ Finishes(u)
    BY <2>2, <1>StreamEnds, <1>a, <1>d, <1>t, <1>q, StreamEndsDoes DEF memory
  <2>4. TurnsLate(w) /\ Opens(w)
    BY <1>StreamEnds, <1>a, <1>d, <1>v, <1>y, StreamEndsDoes, IdleTyped DEF Goes, TurnsLate, Opens, Late, disk
  <2> QED  BY <2>1, <2>2, <2>3, <2>4, <1>o
<1>Trouble. ASSUME NEW w \in Workers, Trouble(w)
             PROVE  TasksStep
  <2>1. \A v \in Workers \ {w} : Stays(v)  BY <1>Trouble, <1>a, <1>y, TroubleDoes DEF Goes, Others
  <2>2. job' = job /\ \A u \in Ids : u # worker[w].t => status'[u] = status[u]
    BY <1>Trouble, <1>a, <1>d, TroubleDoes DEF memory
  <2>3. \A u \in Ids : u = worker[w].t => StillShown(u) /\ Finishes(u)
    BY <2>2, <1>Trouble, <1>a, <1>d, <1>t, <1>q, TroubleDoes DEF memory
  <2>4. TurnsLate(w) /\ Opens(w)
    BY <1>Trouble, <1>a, <1>d, <1>v, <1>y, TroubleDoes, IdleTyped DEF Goes, TurnsLate, Opens, Late, disk
  <2> QED  BY <2>1, <2>2, <2>3, <2>4, <1>o
<1>Fail. ASSUME NEW w \in Workers, Fail(w)
          PROVE  TasksStep
  <2>1. \A v \in Workers \ {w} : Stays(v)  BY <1>Fail, <1>a, <1>y, FailDoes DEF Goes, Others
  <2>2. job' = job /\ \A u \in Ids : u # worker[w].t => status'[u] = status[u]
    BY <1>Fail, <1>a, <1>d, FailDoes DEF memory
  <2>3. \A u \in Ids : u = worker[w].t => StillShown(u) /\ Finishes(u)
    BY <2>2, <1>Fail, <1>a, <1>d, <1>t, <1>q, FailDoes DEF memory
  <2>4. TurnsLate(w) /\ Opens(w)
    BY <1>Fail, <1>a, <1>d, <1>v, <1>y, FailDoes, IdleTyped DEF Goes, TurnsLate, Opens, Late, disk
  <2> QED  BY <2>1, <2>2, <2>3, <2>4, <1>o
<1>LoadRows. ASSUME NEW w \in Workers, LoadRows(w)
              PROVE  TasksStep
  <2>1. \A v \in Workers \ {w} : Stays(v)  BY <1>LoadRows, <1>a, <1>y, LoadRowsDoes DEF Goes, Others
  <2>2. job' = job /\ \A u \in Ids : u # worker[w].t => status'[u] = status[u]
    BY <1>LoadRows, <1>a, <1>d, LoadRowsDoes DEF memory
  <2>3. \A u \in Ids : u = worker[w].t => StillShown(u) /\ Finishes(u)
    BY <2>2, <1>LoadRows, <1>a, <1>d, <1>t, <1>q, LoadRowsDoes DEF memory
  <2>4. TurnsLate(w) /\ Opens(w)
    BY <1>LoadRows, <1>a, <1>d, <1>v, <1>y, LoadRowsDoes, IdleTyped DEF Goes, TurnsLate, Opens, Late, disk
  <2> QED  BY <2>1, <2>2, <2>3, <2>4, <1>o
<1>SaveRows. ASSUME NEW w \in Workers, SaveRows(w)
              PROVE  TasksStep
  <2>1. \A v \in Workers \ {w} : Stays(v)  BY <1>SaveRows, <1>a, <1>y, SaveRowsDoes DEF Goes, Others
  <2>2. job' = job /\ \A u \in Ids : u # worker[w].t => status'[u] = status[u]
    BY <1>SaveRows, <1>a, <1>d, SaveRowsDoes DEF memory
  <2>3. \A u \in Ids : u = worker[w].t => StillShown(u) /\ Finishes(u)
    BY <2>2, <1>SaveRows, <1>a, <1>d, <1>t, SaveRowsDoes DEF memory
  <2>4. TurnsLate(w) /\ Opens(w)
    BY <1>SaveRows, <1>a, SaveRowsDoes, IdleTyped DEF TurnsLate, Late, Opens
  <2> QED  BY <2>1, <2>2, <2>3, <2>4, <1>o
<1>Complete. ASSUME NEW w \in Workers, Complete(w)
              PROVE  TasksStep
  <2>1. \A v \in Workers \ {w} : Stays(v)  BY <1>Complete, <1>a, <1>y, CompleteDoes DEF Goes, Others
  <2>2. job' = job /\ \A u \in Ids : u # worker[w].t => status'[u] = status[u]
    BY <1>Complete, <1>a, <1>d, CompleteDoes DEF memory
  <2>3. \A u \in Ids : u = worker[w].t => StillShown(u) /\ Finishes(u)
    BY <2>2, <1>Complete, <1>a, <1>d, <1>t, <1>q, CompleteDoes DEF memory
  <2>4. TurnsLate(w) /\ Opens(w)
    BY <1>Complete, <1>a, <1>d, <1>v, <1>y, CompleteDoes, IdleTyped DEF Goes, TurnsLate, Opens, Late, disk
  <2> QED  BY <2>1, <2>2, <2>3, <2>4, <1>o
<1>Verify. ASSUME NEW w \in Workers, Verify(w)
            PROVE  TasksStep
  <2>1. \A v \in Workers \ {w} : Stays(v)  BY <1>Verify, <1>a, <1>y, VerifyDoes DEF Goes, Others, Bystander
  <2>2. job' = job /\ \A u \in Ids : u # worker[w].t => status'[u] = status[u]
    BY <1>Verify, <1>a, <1>d, VerifyDoes DEF memory
  <2>3. \A u \in Ids : u = worker[w].t => StillShown(u) /\ Finishes(u)
    BY <2>2, <1>Verify, <1>a, <1>t, VerifyDoes DEF memory
  <2>4. TurnsLate(w) /\ Opens(w)
    BY <1>Verify, <1>a, VerifyDoes DEF Goes, TurnsLate, Opens
  <2> QED  BY <2>1, <2>2, <2>3, <2>4, <1>o
<1>Accept. ASSUME NEW w \in Workers, Accept(w)
            PROVE  TasksStep
  <2>1. \A v \in Workers \ {w} : Stays(v)  BY <1>Accept, <1>a, <1>y, AcceptDoes DEF Goes, Others
  <2>2. job' = job /\ \A u \in Ids : u # worker[w].t => status'[u] = status[u]
    BY <1>Accept, <1>a, <1>d, AcceptDoes DEF memory
  <2>3. \A u \in Ids : u = worker[w].t => StillShown(u) /\ Finishes(u)
    <3>1. worker[w].pc = "accept" /\ worker[w].t \in Ids /\ F(w) \in Files
      BY <1>Accept, <1>a, <1>w, AcceptDoes
    <3>2. Finishes(worker[w].t)  BY <2>2, <3>1 DEF Finishes, Late, F, FileOf
    <3>3. status'[worker[w].t] \in {status[worker[w].t], "Completed"}  BY <3>1, <1>Accept, <1>a, <1>d, AcceptDoes
    <3>4. StillShown(worker[w].t)  BY <2>2, <3>3 DEF StillShown
    <3> QED  BY <3>2, <3>4
  <2>4. TurnsLate(w) /\ Opens(w)
    BY <1>Accept, <1>a, AcceptDoes DEF Goes, TurnsLate, Late, Opens
  <2> QED  BY <2>1, <2>2, <2>3, <2>4, <1>o
<1>PlaceShard. ASSUME NEW w \in Workers, PlaceShard(w)
                PROVE  TasksStep
  <2>0. PICK done, moved : Renamed(done, moved) /\ (\A v \in Workers \ {w} : Bystander(v, moved)) /\ Marked(done)
    BY <1>PlaceShard, <1>a, PlaceShardDoes
  <2>1. /\ Renamed(done, moved) /\ \A v \in Workers \ {w} : Bystander(v, moved)
        /\ \A u \in Ids : status'[u] \in {status[u], "Completed"} /\ (status'[u] = status[u] \/ done # {})
    BY <2>0 DEF Marked
  <2>2. job' = job /\ worker'[w] = Idle  BY <1>PlaceShard, <1>a, PlaceShardDoes
  <2>3. ASSUME NEW u \in Ids PROVE StillShown(u) /\ Finishes(u)
    <3>1. CASE status'[u] = status[u]  BY <2>2, <3>1, <1>t
    <3>2. CASE status'[u] = "Completed" /\ done # {}
      BY <2>2, <3>2, <2>1, ClosingWhenDone DEF StillShown, Finishes
    <3> QED  BY <2>1, <3>1, <3>2
  <2>4. ASSUME NEW v \in Workers PROVE TurnsLate(v) /\ Opens(v)
    BY <2>1, <2>2, <1>v, IdleTyped DEF Bystander
  <2> QED  BY <2>3, <2>4 DEF TasksStep
<1>PlaceFile. ASSUME NEW w \in Workers, PlaceFile(w)
               PROVE  TasksStep
  <2>1. \A v \in Workers \ {w} : Stays(v)  BY <1>PlaceFile, <1>a, PlaceFileDoes DEF Bystander
  <2>2. job' = job /\ \A u \in Ids : u # worker[w].t => status'[u] = status[u]
    BY <1>PlaceFile, <1>a, <1>d, PlaceFileDoes DEF memory
  <2>3. \A u \in Ids : u = worker[w].t => StillShown(u) /\ Finishes(u)
    <3>1. worker[w].t \in Ids /\ F(w) \notin Shards
      <4>1. worker[w].t \in Ids /\ job[worker[w].t].batch = 0  BY <1>PlaceFile, <1>a, PlaceFileDoes
      <4> QED  BY <4>1, <1>n DEF F
    <3> QED  BY <2>2, <3>1 DEF StillShown, Finishes, F, FileOf
  <2>4. TurnsLate(w) /\ Opens(w)
    BY <1>PlaceFile, <1>a, PlaceFileDoes, IdleTyped DEF TurnsLate, Opens
  <2> QED  BY <2>1, <2>2, <2>3, <2>4, <1>o
<1>Extracted. ASSUME NEW w \in Workers, NEW ok \in BOOLEAN, ExtractArchive(w, ok) \/ ActivateProvider(w, ok)
               PROVE  TasksStep
  <2>1. \A v \in Workers \ {w} : Stays(v)  BY <1>Extracted, <1>a, <1>y, ExtractedDoes DEF Goes, Others
  <2>2. job' = job /\ \A u \in Ids : u # worker[w].t => status'[u] = status[u]
    BY <1>Extracted, <1>a, <1>d, ExtractedDoes DEF memory
  <2>3. \A u \in Ids : u = worker[w].t => StillShown(u) /\ Finishes(u)
    <3>1. worker[w].t \in Ids /\ F(w) \notin Shards
      <4>1. worker[w].pc = "extract"  BY <1>Extracted, <1>a, ExtractedDoes
      <4> QED  BY <4>1, <1>w DEF Placed
    <3> QED  BY <2>2, <3>1 DEF StillShown, Finishes, F, FileOf
  <2>4. TurnsLate(w) /\ Opens(w)
    BY <1>Extracted, <1>a, ExtractedDoes, IdleTyped DEF TurnsLate, Opens
  <2> QED  BY <2>1, <2>2, <2>3, <2>4, <1>o
<1> QED
   BY <1>Enqueue, <1>Reextract, <1>EmptyTrash, <1>Pause, <1>Resume, <1>Cancel, <1>Reprioritize,
      <1>StartQuant, <1>Recovering, <1>Restart, <1>Renaming, <1>Gather, <1>FindSlot, <1>GiveUp,
      <1>Claim, <1>Open, <1>Answered, <1>AnsweredWhole, <1>StopAsked, <1>Tick, <1>Chunk,
      <1>StreamEnds, <1>Trouble, <1>Fail, <1>LoadRows, <1>SaveRows, <1>Complete, <1>Verify,
      <1>Accept, <1>PlaceShard, <1>PlaceFile, <1>Extracted, Steps

(***************************************************************************)
(* The inductive invariant: how a step may change the batches.             *)
(***************************************************************************)
\* a batch without tasks, all of whose shards are there: recovery closes it
Rests == (\A f \in Shards : Ready(f)) /\ \E b \in batches : Forgotten(b)
\* the process has died between two renames
Torn == /\ app' # "up" /\ batches' = batches /\ batches # {} /\ \A t \in Ids : status'[t] = "none"
        /\ \A f \in Shards : Ready(f)'
\* no shard gets its final name, and a batch that rests goes on resting
Calm == /\ \A f \in Shards : final[f] = "absent" => final'[f] = "absent"
        /\ Rests => (app # "up" => app' # "up") /\ \E b \in batches' : Forgotten(b)'
\* a new batch, and a recovery, show every shard that is missing
Shows == /\ batches = {} /\ batches' # {} => \A f \in Shards : Shown(f)' \/ final'[f] # "absent"
         /\ app # "up" /\ app' = "up" => \A b \in batches : \A f \in Shards : Ready(f) \/ Shown(f)'
BatchesStep == (Closing \/ spent'["cancel"] > 0 \/ Torn \/ Calm) /\ Shows

\* a task that does not come to life
Dormant(u) ==
    \/ job'[u] = job[u] /\ (status'[u] \in {status[u], "none"} \/ status[u] # "none" \/ job[u].batch = 0)
    \/ job'[u].batch \notin batches
LEMMA DormantKeeps ==
    ASSUME Basis, batches \subseteq batches', \A u \in Ids : Dormant(u), app # "up" => app' # "up",
           \A f \in Shards : final[f] = "absent" => final'[f] = "absent"
    PROVE  Calm
<1>1. 0 \notin batches  BY DEF Basis, Census
<1>2. ASSUME NEW b \in batches, Forgotten(b) PROVE Forgotten(b)'
  <2> SUFFICES ASSUME NEW u \in Ids, job'[u].batch = b PROVE status'[u] = "none"
    BY DEF Forgotten
  <2>1. job'[u] = job[u] /\ (status'[u] \in {status[u], "none"} \/ status[u] # "none" \/ job[u].batch = 0)
    BY DEF Dormant
  <2> QED  BY <1>1, <1>2, <2>1 DEF Forgotten
<1> QED  BY <1>2 DEF Calm, Rests

LEMMA BatchesSteps ==
    ASSUME Basis, Next
    PROVE  BatchesStep
<1>a. Types /\ Census /\ Sized /\ (\A v \in Workers : Assigned(v)) /\ \A u \in Ids : Known(u)
  BY DEF Basis, Census
<1>d. /\ status \in [Ids -> Statuses] /\ worker \in [Workers -> WorkerRecord]
      /\ job \in [Ids -> [file : Files \cup {"none"}, batch : Nat]]
  BY <1>a DEF Types
<1>w. \A v \in Workers : worker[v].pc # "gone" =>
          /\ worker[v].t \in Ids /\ F(v) \in Files /\ Placed(v)
          /\ status[worker[v].t] # "none" \/ job[worker[v].t].batch = 0
  BY <1>a DEF Assigned, Sized, Known, F
<1>0. 0 \notin batches /\ spent["start"] + 1 \notin batches
  <2>1. spent["start"] \in Nat  BY <1>a DEF Types, Kinds
  <2> QED  BY <2>1, <1>a DEF Census
<1>c. (batches \subseteq batches' /\ (\A u \in Ids : Dormant(u)) /\ (app # "up" => app' # "up")
       /\ \A f \in Shards : final[f] = "absent" => final'[f] = "absent") => Calm
  BY DormantKeeps
<1>s. (batches' \subseteq batches /\ (app # "up" => app' # "up")) => Shows  BY DEF Shows
<1>k. (batches' = batches /\ (\A u \in Ids : Dormant(u)) /\ (app # "up" => app' # "up")
       /\ \A f \in Shards : final[f] = "absent" => final'[f] = "absent") => BatchesStep
  BY <1>c, <1>s DEF BatchesStep
<1>o. \A w \in Workers : /\ batches' = batches /\ app' = app /\ job' = job /\ worker[w].pc # "gone"
                         /\ \A f \in Shards : final[f] = "absent" => final'[f] = "absent"
                         /\ \A u \in Ids : u # worker[w].t => status'[u] = status[u]
                         => BatchesStep
  <2> SUFFICES ASSUME NEW w \in Workers, batches' = batches, app' = app, job' = job, worker[w].pc # "gone",
                      \A f \in Shards : final[f] = "absent" => final'[f] = "absent",
                      \A u \in Ids : u # worker[w].t => status'[u] = status[u]
               PROVE  BatchesStep
    OBVIOUS
  <2>1. \A u \in Ids : Dormant(u)  BY <1>w DEF Dormant
  <2> QED  BY <2>1, <1>k
<1>e. ASSUME NEW jobs, Added(jobs), \A j \in jobs : j.batch \notin batches
      PROVE  \A u \in Ids : Dormant(u) /\ (FileOf(u) # "none" => job'[u] = job[u] /\ status'[u] = status[u])
  <2>1. ASSUME NEW u \in Ids
        PROVE  (job'[u] = job[u] /\ status'[u] = status[u]) \/ (FileOf(u) = "none" /\ job'[u] \in jobs)
    BY <1>e, <2>1 DEF Added
  <2>2. ASSUME NEW u \in Ids PROVE Dormant(u)  BY <2>1, <2>2, <1>e DEF Dormant
  <2> QED  BY <2>1, <2>2
<1>r. ASSUME NEW done, NEW moved, Renamed(done, moved), ~Closing
      PROVE  batches' = batches /\ done = {} /\ \A f \in Shards : final[f] = "absent" => final'[f] = "absent"
  BY <1>r, ClosingWhenDone, Facts DEF Renamed
<1>Enqueue. ASSUME NEW f \in Files, f \notin Shards, Enqueue(f)
             PROVE  BatchesStep
  <2>0. Added({[file |-> f, batch |-> 0]})  BY <1>Enqueue, <1>a, EnqueueDoes
  <2>1. batches' = batches /\ app' = app /\ final' = final  BY <1>Enqueue, <1>a, EnqueueDoes
  <2>2. \A j \in {[file |-> f, batch |-> 0]} : j.batch \notin batches  BY <1>0
  <2>3. \A u \in Ids : Dormant(u)  BY <2>0, <2>2, <1>e
  <2> QED  BY <2>1, <2>3, <1>k
<1>Reextract. ASSUME NEW f \in Files, Reextract(f)
               PROVE  BatchesStep
  <2>0. PICK x \in Ids, y \in Workers : Extracting(f, x, y)  BY <1>Reextract, <1>a, ReextractDoes
  <2>1. batches' = batches /\ app' = app /\ final' = final  BY <1>Reextract, <1>a, ReextractDoes
  <2>2. ASSUME NEW u \in Ids PROVE Dormant(u)
    <3>1. CASE u = x  BY <2>0, <3>1, <1>0 DEF Extracting, Dormant
    <3>2. CASE u # x  BY <2>0, <3>2 DEF Extracting, Dormant
    <3> QED  BY <3>1, <3>2
  <2> QED  BY <2>1, <2>2, <1>k
<1>EmptyTrash. ASSUME NEW f \in Files, EmptyTrash(f)
                PROVE  BatchesStep
  <2>1. batches' = batches /\ app' = app /\ final' = final /\ job' = job /\ status' = status
    BY <1>EmptyTrash, <1>a, EmptyTrashDoes DEF memory
  <2> QED  BY <2>1, <1>k DEF Dormant
<1>Pause. ASSUME NEW t \in Ids, Pause(t)
           PROVE  BatchesStep
  <2>1. /\ batches' = batches /\ app' = app /\ job' = job /\ final' = final
        /\ \A u \in Ids : status'[u] = status[u] \/ status[u] # "none"
    BY <1>Pause, <1>d DEF Pause
  <2> QED  BY <2>1, <1>k DEF Dormant
<1>Resume. ASSUME NEW t \in Ids, Resume(t)
            PROVE  BatchesStep
  <2>1. /\ batches' = batches /\ app' = app /\ job' = job /\ final' = final
        /\ \A u \in Ids : status'[u] = status[u] \/ status[u] # "none"
    BY <1>Resume, <1>d DEF Resume
  <2> QED  BY <2>1, <1>k DEF Dormant
<1>Cancel. ASSUME NEW t \in Ids, Cancel(t)
            PROVE  BatchesStep
  <2>1. spent'["cancel"] > 0
    <3>1. Spend("cancel")  BY <1>Cancel DEF Cancel
    <3>2. spent'["cancel"] = spent["cancel"] + 1 /\ spent["cancel"] \in Nat  BY <3>1, <1>a, SpentOnce DEF Types, Kinds
    <3> QED  BY <3>2
  <2>2. Shows  BY <1>Cancel, <1>a, <1>s, CancelDoes
  <2> QED  BY <2>1, <2>2 DEF BatchesStep
<1>Reprioritize. ASSUME NEW t \in Ids, NEW p \in 0 .. 1, Reprioritize(t, p)
                  PROVE  BatchesStep
  <2>1. /\ batches' = batches /\ app' = app /\ job' = job /\ final' = final
        /\ \A u \in Ids : status'[u] = status[u] \/ status[u] # "none"
    BY <1>Reprioritize, <1>d DEF Reprioritize
  <2> QED  BY <2>1, <1>k DEF Dormant
<1>StartQuant. ASSUME StartQuant
                PROVE  BatchesStep
  <2> DEFINE todo == {g \in Shards : final[g] = "absent" /\ ~HasActiveTask(g)}
             jobs == {[file |-> f, batch |-> spent["start"] + 1] : f \in todo}
  <2>0. Added(jobs)  BY <1>StartQuant, <1>a, StartQuantDoes
  <2>1. batches' = batches \cup {spent["start"] + 1} /\ app' = app /\ final' = final
    BY <1>StartQuant, <1>a, StartQuantDoes
  <2>2. \A u \in Ids : Dormant(u) /\ (FileOf(u) # "none" => job'[u] = job[u] /\ status'[u] = status[u])
    <3>1. \A j \in jobs : j.batch \notin batches  BY <1>0
    <3> HIDE DEF jobs
    <3> QED  BY <2>0, <3>1, <1>e
  <2>3. ASSUME NEW f \in Shards, final'[f] = "absent" PROVE Shown(f)'
    <3>1. CASE HasActiveTask(f)
      <4>1. PICK t \in Ids : Live(t) /\ FileOf(t) = f  BY <3>1 DEF HasActiveTask
      <4>2. job'[t] = job[t] /\ status'[t] = status[t]  BY <2>2, <4>1, Facts
      <4> QED  BY <4>1, <4>2 DEF Shown, Live, FileOf
    <3>2. CASE ~HasActiveTask(f)
      <4>1. f \in todo  BY <2>1, <2>3, <3>2
      <4>2. [file |-> f, batch |-> spent["start"] + 1] \in jobs  BY <4>1
      <4> HIDE DEF jobs
      <4>3. PICK t \in Ids : job'[t] = [file |-> f, batch |-> spent["start"] + 1] /\ status'[t] = "Queued"
        BY <2>0, <4>2 DEF Added
      <4> QED  BY <4>3 DEF Shown, FileOf
    <3> QED  BY <3>1, <3>2
  <2>4. Calm  BY <2>1, <2>2, <1>c
  <2>5. Shows  BY <2>1, <2>3 DEF Shows
  <2> QED  BY <2>4, <2>5 DEF BatchesStep
<1>Recovering. ASSUME RecoverCommand \/ Recover
                PROVE  BatchesStep
  <2>0. Reconciled  BY <1>Recovering, <1>a, RecoveringDoes
  <2>p. PICK done, moved : Renamed(done, moved) /\ (\A v \in Workers : Bystander(v, moved)) /\ Settled(done)
    BY <2>0 DEF Reconciled
  <2>1. ASSUME ~Closing PROVE Calm
    <3>1. batches' = batches /\ done = {} /\ \A f \in Shards : final[f] = "absent" => final'[f] = "absent"
      BY <2>1, <2>p, <1>r
    <3>s. \A b \in batches : ~(Forgotten(b) /\ \A f \in Shards : Ready(f))
      <4>1. \A b \in batches : Forgotten(b) /\ (\A f \in Shards : Ready(f)) => b \in done  BY <2>p DEF Settled
      <4> QED  BY <3>1, <4>1
    <3>2. ~Rests  BY <3>s DEF Rests
    <3> QED  BY <3>1, <3>2 DEF Calm
  <2>2. Shows
    <3>1. batches' \subseteq batches  BY <2>p DEF Renamed
    <3>2. \A b \in batches : \A f \in Shards : Ready(f) \/ Shown(f)'  BY <2>0 DEF Reconciled, Shown, FileOf
    <3> QED  BY <3>1, <3>2 DEF Shows
  <2> QED  BY <2>1, <2>2 DEF BatchesStep
<1>Restart. ASSUME Restart
             PROVE  BatchesStep
  <2>1. /\ app' = "starting" /\ batches' = batches /\ final' = final /\ job' = job
        /\ \A u \in Ids : status'[u] = "none"
    BY <1>Restart DEF Restart
  <2> QED  BY <2>1, <1>k DEF Dormant
<1>Renaming. ASSUME NEW b \in batches, NEW some \in SUBSET Shards, RestartRenaming(b, some)
              PROVE  BatchesStep
  <2>1. /\ app' = "starting" /\ batches' = batches /\ \A u \in Ids : status'[u] = "none"
    BY <1>Renaming, <1>a, RestartingDoes
  <2>2. ASSUME NEW f \in Shards PROVE Ready(f)'
    <3>1. CASE f \in some
      <4>1. final'[f] # "absent"  BY <3>1, <1>Renaming, <1>a, RenamingDoes
      <4> QED  BY <4>1 DEF Ready
    <3>2. CASE f \notin some
      <4>1. final'[f] = final[f] /\ part'[f] = part[f] /\ Ready(f)  BY <3>2, <1>Renaming, <1>a, RenamingDoes, Facts
      <4> QED  BY <4>1 DEF Ready, Len0
    <3> QED  BY <3>1, <3>2
  <2>3. Torn  BY <2>1, <2>2 DEF Torn
  <2>4. Shows  BY <2>1, <1>s
  <2> QED  BY <2>3, <2>4 DEF BatchesStep
<1>Gather. ASSUME Gather
            PROVE  BatchesStep
  <2>1. batches' = batches /\ app' # "up" /\ final' = final /\ job' = job /\ status' = status
    BY <1>Gather, <1>a, GatherDoes DEF disk
  <2> QED  BY <2>1, <1>k DEF Dormant
<1>FindSlot. ASSUME NEW w \in Workers, FindSlot(w)
              PROVE  BatchesStep
  <2>1. /\ batches' = batches /\ app' = app /\ job' = job /\ worker[w].pc # "gone" /\ final' = final
        /\ \A u \in Ids : u # worker[w].t => status'[u] = status[u]
    BY <1>FindSlot, <1>a, <1>d, FindSlotDoes DEF memory, disk
  <2> QED  BY <2>1, <1>o
<1>GiveUp. ASSUME NEW w \in Workers, GiveUp(w)
            PROVE  BatchesStep
  <2>1. /\ batches' = batches /\ app' = app /\ job' = job /\ worker[w].pc # "gone" /\ final' = final
        /\ \A u \in Ids : u # worker[w].t => status'[u] = status[u]
    BY <1>GiveUp, <1>a, <1>d, GiveUpDoes DEF memory, disk
  <2> QED  BY <2>1, <1>o
<1>Claim. ASSUME NEW w \in Workers, Claim(w)
           PROVE  BatchesStep
  <2>1. /\ batches' = batches /\ app' = app /\ job' = job /\ worker[w].pc # "gone" /\ final' = final
        /\ \A u \in Ids : u # worker[w].t => status'[u] = status[u]
    BY <1>Claim, <1>a, <1>d, ClaimDoes DEF memory, disk
  <2> QED  BY <2>1, <1>o
<1>Open. ASSUME NEW w \in Workers, Open(w)
          PROVE  BatchesStep
  <2>1. /\ batches' = batches /\ app' = app /\ job' = job /\ worker[w].pc # "gone" /\ final' = final
        /\ \A u \in Ids : u # worker[w].t => status'[u] = status[u]
    BY <1>Open, <1>a, <1>d, OpenDoes DEF memory, disk
  <2> QED  BY <2>1, <1>o
<1>Answered. ASSUME NEW w \in Workers, Answered(w)
              PROVE  BatchesStep
  <2>1. /\ batches' = batches /\ app' = app /\ job' = job /\ worker[w].pc # "gone" /\ final' = final
        /\ \A u \in Ids : u # worker[w].t => status'[u] = status[u]
    BY <1>Answered, <1>a, <1>d, AnsweredDoes DEF memory, disk
  <2> QED  BY <2>1, <1>o
<1>AnsweredWhole. ASSUME NEW w \in Workers, AnsweredWhole(w)
                   PROVE  BatchesStep
  <2>1. /\ batches' = batches /\ app' = app /\ job' = job /\ worker[w].pc # "gone" /\ final' = final
        /\ \A u \in Ids : u # worker[w].t => status'[u] = status[u]
    BY <1>AnsweredWhole, <1>a, <1>d, AnsweredWholeDoes DEF memory, disk
  <2> QED  BY <2>1, <1>o
<1>StopAsked. ASSUME NEW w \in Workers, StopAsked(w)
               PROVE  BatchesStep
  <2>1. /\ batches' = batches /\ app' = app /\ job' = job /\ worker[w].pc # "gone" /\ final' = final
        /\ \A u \in Ids : u # worker[w].t => status'[u] = status[u]
    BY <1>StopAsked, <1>a, <1>d, StopAskedDoes DEF memory, disk
  <2> QED  BY <2>1, <1>o
<1>Tick. ASSUME NEW w \in Workers, Tick(w)
          PROVE  BatchesStep
  <2>1. /\ batches' = batches /\ app' = app /\ job' = job /\ worker[w].pc # "gone" /\ final' = final
        /\ \A u \in Ids : u # worker[w].t => status'[u] = status[u]
    BY <1>Tick, <1>a, <1>d, TickDoes DEF memory, disk
  <2> QED  BY <2>1, <1>o
<1>Chunk. ASSUME NEW w \in Workers, NEW c \in Chunks, Chunk(w, c)
           PROVE  BatchesStep
  <2>1. /\ batches' = batches /\ app' = app /\ job' = job /\ worker[w].pc # "gone" /\ final' = final
        /\ \A u \in Ids : u # worker[w].t => status'[u] = status[u]
    BY <1>Chunk, <1>a, <1>d, ChunkDoes DEF memory, disk
  <2> QED  BY <2>1, <1>o
<1>StreamEnds. ASSUME NEW w \in Workers, StreamEnds(w)
                PROVE  BatchesStep
  <2>1. /\ batches' = batches /\ app' = app /\ job' = job /\ worker[w].pc # "gone" /\ final' = final
        /\ \A u \in Ids : u # worker[w].t => status'[u] = status[u]
    BY <1>StreamEnds, <1>a, <1>d, StreamEndsDoes DEF memory, disk
  <2> QED  BY <2>1, <1>o
<1>Trouble. ASSUME NEW w \in Workers, Trouble(w)
             PROVE  BatchesStep
  <2>1. /\ batches' = batches /\ app' = app /\ job' = job /\ worker[w].pc # "gone" /\ final' = final
        /\ \A u \in Ids : u # worker[w].t => status'[u] = status[u]
    BY <1>Trouble, <1>a, <1>d, TroubleDoes DEF memory, disk
  <2> QED  BY <2>1, <1>o
<1>Fail. ASSUME NEW w \in Workers, Fail(w)
          PROVE  BatchesStep
  <2>1. /\ batches' = batches /\ app' = app /\ job' = job /\ worker[w].pc # "gone" /\ final' = final
        /\ \A u \in Ids : u # worker[w].t => status'[u] = status[u]
    BY <1>Fail, <1>a, <1>d, FailDoes DEF memory, disk
  <2> QED  BY <2>1, <1>o
<1>LoadRows. ASSUME NEW w \in Workers, LoadRows(w)
              PROVE  BatchesStep
  <2>1. /\ batches' = batches /\ app' = app /\ job' = job /\ worker[w].pc # "gone" /\ final' = final
        /\ \A u \in Ids : u # worker[w].t => status'[u] = status[u]
    BY <1>LoadRows, <1>a, <1>d, LoadRowsDoes DEF memory, disk
  <2> QED  BY <2>1, <1>o
<1>SaveRows. ASSUME NEW w \in Workers, SaveRows(w)
              PROVE  BatchesStep
  <2>1. /\ batches' = batches /\ app' = app /\ job' = job /\ worker[w].pc # "gone" /\ final' = final
        /\ \A u \in Ids : u # worker[w].t => status'[u] = status[u]
    BY <1>SaveRows, <1>a, <1>d, SaveRowsDoes DEF memory, disk
  <2> QED  BY <2>1, <1>o
<1>Complete. ASSUME NEW w \in Workers, Complete(w)
              PROVE  BatchesStep
  <2>1. /\ batches' = batches /\ app' = app /\ job' = job /\ worker[w].pc # "gone" /\ final' = final
        /\ \A u \in Ids : u # worker[w].t => status'[u] = status[u]
    BY <1>Complete, <1>a, <1>d, CompleteDoes DEF memory, disk
  <2> QED  BY <2>1, <1>o
<1>Verify. ASSUME NEW w \in Workers, Verify(w)
            PROVE  BatchesStep
  <2>1. batches' = batches /\ app' = app /\ job' = job /\ worker[w].pc # "gone" /\ status' = status
    BY <1>Verify, <1>a, VerifyDoes DEF memory
  <2>2. final' = final \/ (F(w) \in Files /\ final' = [final EXCEPT ![F(w)] = "absent"])
    BY <1>Verify, <1>a, VerifyDoes
  <2>3. \A f \in Shards : final[f] = "absent" => final'[f] = "absent"  BY <2>2, <1>a, Facts DEF Types
  <2> QED  BY <2>1, <2>3, <1>o
<1>Accept. ASSUME NEW w \in Workers, Accept(w)
            PROVE  BatchesStep
  <2>1. /\ batches' = batches /\ app' = app /\ job' = job /\ worker[w].pc # "gone" /\ final' = final
        /\ \A u \in Ids : u # worker[w].t => status'[u] = status[u]
    BY <1>Accept, <1>a, <1>d, AcceptDoes DEF memory, disk
  <2> QED  BY <2>1, <1>o
<1>PlaceShard. ASSUME NEW w \in Workers, PlaceShard(w)
                PROVE  BatchesStep
  <2>0. PICK done, moved : Renamed(done, moved) /\ (\A v \in Workers \ {w} : Bystander(v, moved)) /\ Marked(done)
    BY <1>PlaceShard, <1>a, PlaceShardDoes
  <2>1. app' = app /\ job' = job  BY <1>PlaceShard, <1>a, PlaceShardDoes
  <2>2. CASE Closing
    <3>1. Shows  BY <2>0, <2>1, <1>s DEF Renamed
    <3> QED  BY <2>2, <3>1 DEF BatchesStep
  <2>3. CASE ~Closing
    <3>1. batches' = batches /\ done = {} /\ \A f \in Shards : final[f] = "absent" => final'[f] = "absent"
      BY <2>0, <2>3, <1>r
    <3>2. \A u \in Ids : Dormant(u)  BY <2>0, <2>1, <3>1 DEF Marked, Dormant
    <3> QED  BY <2>1, <3>1, <3>2, <1>k
  <2> QED  BY <2>2, <2>3
<1>PlaceFile. ASSUME NEW w \in Workers, PlaceFile(w)
               PROVE  BatchesStep
  <2>1. /\ batches' = batches /\ app' = app /\ job' = job /\ worker[w].pc # "gone"
        /\ worker[w].t \in Ids /\ job[worker[w].t].batch = 0
    BY <1>PlaceFile, <1>a, PlaceFileDoes
  <2>2. \A u \in Ids : u # worker[w].t => status'[u] = status[u]  BY <1>PlaceFile, <1>a, <1>d, PlaceFileDoes
  <2>3. F(w) \notin Shards  BY <2>1, <1>a DEF Known, F
  <2>4. \A f \in Files : f # F(w) => final'[f] = final[f]
    <3>1. PICK x : final' = [final EXCEPT ![F(w)] = x]  BY <1>PlaceFile, <1>a, PlaceFileDoes
    <3> QED  BY <3>1, <1>a DEF Types
  <2> QED  BY <2>1, <2>2, <2>3, <2>4, <1>o, Facts
<1>Extracted. ASSUME NEW w \in Workers, NEW ok \in BOOLEAN, ExtractArchive(w, ok) \/ ActivateProvider(w, ok)
               PROVE  BatchesStep
  <2>1. /\ batches' = batches /\ app' = app /\ job' = job /\ worker[w].pc # "gone" /\ final' = final
        /\ \A u \in Ids : u # worker[w].t => status'[u] = status[u]
    BY <1>Extracted, <1>a, <1>d, ExtractedDoes DEF memory, disk
  <2> QED  BY <2>1, <1>o
<1> QED
   BY <1>Enqueue, <1>Reextract, <1>EmptyTrash, <1>Pause, <1>Resume, <1>Cancel, <1>Reprioritize,
      <1>StartQuant, <1>Recovering, <1>Restart, <1>Renaming, <1>Gather, <1>FindSlot, <1>GiveUp,
      <1>Claim, <1>Open, <1>Answered, <1>AnsweredWhole, <1>StopAsked, <1>Tick, <1>Chunk,
      <1>StreamEnds, <1>Trouble, <1>Fail, <1>LoadRows, <1>SaveRows, <1>Complete, <1>Verify,
      <1>Accept, <1>PlaceShard, <1>PlaceFile, <1>Extracted, Steps

(***************************************************************************)
(* The inductive invariant: what the files hold.                           *)
(***************************************************************************)
\* what a step finds when nothing has written twice
LEMMA Before ==
    ASSUME Basis, Solo, Next, ~shared'
    PROVE  /\ ~shared /\ (\A v \in Workers : Relies(v)) /\ \A v, w \in Workers : Alone(v, w)
           /\ unvouched \subseteq unvouched'
           /\ spent["cancel"] \in Nat /\ spent["fault"] \in Nat
           /\ spent'["cancel"] = 0 => spent["cancel"] = 0
           /\ spent'["fault"] = 0 => spent["fault"] = 0
           /\ spent["cancel"] > 0 => spent'["cancel"] > 0
<1>1. /\ ~shared /\ unvouched \subseteq unvouched'
      /\ spent'["cancel"] >= spent["cancel"] /\ spent'["fault"] >= spent["fault"]
  BY BooksKept DEF Books
<1>2. /\ spent["cancel"] \in Nat /\ spent["fault"] \in Nat /\ spent'["cancel"] \in Nat /\ spent'["fault"] \in Nat
  BY TypesKept DEF Basis, Types, Kinds
<1> QED  BY <1>1, <1>2 DEF Solo

\* a file that is written is not complete
LEMMA WrittenShort ==
    ASSUME Basis, Solo, ~shared, NEW w \in Workers, NEW f \in Files, Writes(w, f)
    PROVE  Len0(f) < Size[f] /\ ~Whole(f) /\ InHand(w)
<1>1. Relies(w) /\ Assigned(w) /\ Types  BY DEF Solo, Basis, Census
<1>2. worker[w].pc \in {"open", "request", "stream"} /\ F(w) = f  BY DEF Writes
<1>3. Placed(w) /\ worker[w].t \in Ids  BY <1>1, <1>2 DEF Basis, Sized, Assigned
<1>4. SizeOf(worker[w].t) = Size[f] /\ Size[f] > 0 /\ Size[f] \in Nat  BY <1>2, <1>3, Facts DEF SizeOf, F
<1>5. part[f] = Absent => Len0(f) = 0  BY DEF Len0
<1>6. ASSUME worker[w].pc = "open" PROVE Len0(f) < Size[f]  BY <1>1, <1>2, <1>6 DEF Relies
<1>7. ASSUME worker[w].pc = "request" PROVE Len0(f) < Size[f]
  BY <1>1, <1>2, <1>3, <1>4, <1>5, <1>7 DEF Relies, Writing, Placed
<1>8. ASSUME worker[w].pc = "stream", worker[w].on = "part", worker[w].pos < Size[f] PROVE Len0(f) < Size[f]
  BY <1>1, <1>2, <1>8 DEF Relies, Writing
<1>9. Len0(f) < Size[f]  BY <1>6, <1>7, <1>8 DEF Writes
<1> QED  BY <1>2, <1>4, <1>9 DEF Whole, InHand

\* how a shard comes to have passed the gate
LEMMA PassStep ==
    ASSUME Basis, Next, NEW f \in Shards, Passed(f)'
    PROVE  \/ Passed(f) \/ Closing
           \/ part' = part /\ final' = final /\ (Whole(f) \/ final[f] = "whole")
<1>1. TasksStep /\ Counted  BY TasksSteps, CountedSteps
<1>2. CASE \E t \in Ids : status'[t] = "Completed" /\ job'[t].file = f
  <2>1. PICK t \in Ids : status'[t] = "Completed" /\ job'[t].file = f  BY <1>2
  <2>2. Finishes(t)  BY <1>1 DEF TasksStep
  <2> QED  BY <2>1, <2>2 DEF Finishes, Passed, FileOf
<1>3. CASE \E w \in Workers : Late(w)' /\ F(w)' = f
  <2>1. PICK w \in Workers : Late(w)' /\ F(w)' = f  BY <1>3
  <2>2. TurnsLate(w)  BY <1>1 DEF TasksStep
  <2>3. worker'[w].t = worker[w].t /\ (Late(w) \/ worker[w].pc = "verify")
    BY <2>1, <2>2 DEF TurnsLate, Late
  <2>4. worker[w].t \in Ids /\ F(w) \in Files
    BY <2>3 DEF Late, Basis, Census, Assigned
  <2>5. job'[worker[w].t] = job[worker[w].t]  BY <1>1, <2>4, Facts DEF Counted, JobStep, F
  <2>6. F(w) = f  BY <2>1, <2>3, <2>5 DEF F, FileOf
  <2> QED  BY <2>1, <2>2, <2>6 DEF TurnsLate, Late, Passed
<1> QED  BY <1>2, <1>3 DEF Passed, FileOf

LEMMA GateKept ==
    ASSUME Basis, Solo, Gate, Next
    PROVE  Gate'
<1> SUFFICES ASSUME ~shared' PROVE Gate'
  BY DEF Gate
<1>1. /\ ~shared /\ (\A v \in Workers : Relies(v)) /\ unvouched \subseteq unvouched'
      /\ spent["cancel"] \in Nat /\ (spent["cancel"] > 0 => spent'["cancel"] > 0)
      /\ (spent'["cancel"] = 0 => spent["cancel"] = 0)
  BY Before
<1>2. /\ \A f \in Files : final[f] = "bad" => f \in Shards /\ (f \in unvouched \/ spent["cancel"] > 0)
      /\ spent["cancel"] = 0 => \A f \in Shards \ unvouched : Passed(f) => Whole(f) \/ final[f] = "whole"
  BY <1>1 DEF Gate
<1>3. final' \in [Files -> {"absent", "whole", "bad"}] /\ final \in [Files -> {"absent", "whole", "bad"}]
  BY TypesKept DEF Basis, Types
<1>4. ASSUME NEW f \in Files, final'[f] = "bad"
      PROVE  f \in Shards /\ (f \in unvouched' \/ spent'["cancel"] > 0)
  <2>1. FileStep(f)  BY FilesSteps
  <2>2. CASE final'[f] = final[f]  BY <1>1, <1>2, <1>4, <2>2
  <2>3. CASE Renames(f)
    <3>1. f \in Shards /\ final[f] = "absent" /\ ~Whole(f)  BY <1>4, <2>3 DEF Renames
    <3>2. CASE f \notin unvouched' /\ spent["cancel"] = 0
      <4>1. Passed(f) /\ f \notin unvouched  BY <1>1, <2>3, <3>2 DEF Renames, Passed
      <4> QED  BY <1>2, <3>1, <3>2, <4>1
    <3> QED  BY <1>1, <3>1, <3>2
  <2>4. CASE \E w \in Workers : Places(w, f)
    <3>1. PICK w \in Workers : Places(w, f)  BY <2>4
    <3>2. Late(w) /\ Relies(w)  BY <1>1, <3>1 DEF Places, Late
    <3> QED  BY <1>4, <3>1, <3>2 DEF Places, Relies
  <2>5. CASE \E w \in Workers : Rejects(w, f)  BY <1>4, <2>2, <2>5 DEF Rejects
  <2> QED  BY <2>1, <2>2, <2>3, <2>4, <2>5 DEF FileStep, Drops, Writes
<1>5. ASSUME spent'["cancel"] = 0, NEW f \in Shards \ unvouched', Passed(f)'
      PROVE  Whole(f)' \/ final'[f] = "whole"
  <2>1. f \in Files /\ f \in Shards \ unvouched /\ spent["cancel"] = 0 /\ FileStep(f)
    BY <1>1, <1>5, Facts, FilesSteps
  <2>2. CASE Closing
    <3>1. final'[f] # "absent" /\ final'[f] # "bad"  BY <1>4, <1>5, <2>1, <2>2 DEF Closing
    <3> QED  BY <1>3, <2>1, <3>1
  <2>3. CASE part' = part /\ final' = final /\ (Whole(f) \/ final[f] = "whole")
    BY <2>3 DEF Whole, Len0
  <2>4. CASE Passed(f)
    <3>1. Whole(f) \/ final[f] = "whole"  BY <1>2, <2>1, <2>4
    <3>2. CASE part'[f] = part[f] /\ final'[f] = final[f]  BY <3>1, <3>2 DEF Whole, Len0
    <3>3. CASE Drops(f)  BY <2>1, <3>3 DEF Drops
    <3>4. CASE Renames(f)  BY <3>1, <3>4 DEF Renames
    <3>5. CASE \E w \in Workers : Writes(w, f)
      <4>1. ~Whole(f) /\ final'[f] = final[f]  BY <1>1, <2>1, <3>5, WrittenShort DEF Writes
      <4> QED  BY <3>1, <4>1
    <3>6. CASE \E w \in Workers : Rejects(w, f)
      <4>1. part[f] = Absent => ~Whole(f)  BY <2>1, PartLength DEF Basis
      <4> QED  BY <3>1, <3>6, <4>1 DEF Rejects
    <3>7. CASE \E w \in Workers : Places(w, f)  BY <3>7, <1>5 DEF Places
    <3> QED  BY <2>1, <3>2, <3>3, <3>4, <3>5, <3>6, <3>7 DEF FileStep
  <2> QED  BY <1>5, <2>2, <2>3, <2>4, PassStep
<1> QED  BY <1>4, <1>5 DEF Gate

LEMMA CleanKept ==
    ASSUME Basis, Solo, Clean, Next
    PROVE  Clean'
<1> SUFFICES ASSUME Quiet' PROVE Clean'
  BY DEF Clean
<1>1. ~shared' /\ spent'["cancel"] = 0 /\ spent'["fault"] = 0  BY DEF Quiet
<1>2. /\ ~shared /\ (\A v \in Workers : Relies(v)) /\ (\A v, w \in Workers : Alone(v, w))
      /\ spent["cancel"] = 0 /\ spent["fault"] = 0
  BY <1>1, Before
<1>3. /\ \A f \in Files : final[f] # "bad" /\ Right(f)
      /\ \A w \in Workers : worker[w].pc = "open" => worker[w].off <= Len0(F(w))
  BY <1>2 DEF Clean, Quiet
<1>4. \A w \in Workers : \A f \in Files : Writes(w, f) => Right(f)'
  <2> SUFFICES ASSUME NEW w \in Workers, NEW f \in Files, Writes(w, f) PROVE Right(f)'
    OBVIOUS
  <2>1. Relies(w) /\ Right(f) /\ F(w) = f  BY <1>2, <1>3 DEF Writes
  <2>2. worker[w].pc = "open" => worker[w].off <= Len0(f)  BY <1>3, <2>1
  <2>3. worker[w].pc = "stream" => worker[w].pos = Len0(f)  BY <2>1 DEF Relies, Writing, Writes
  <2> QED  BY <1>1, <1>2, <2>1, <2>2, <2>3 DEF Writes
<1>5. ASSUME NEW f \in Files PROVE final'[f] # "bad" /\ Right(f)'
  <2>1. FileStep(f) /\ final[f] # "bad" /\ Right(f)  BY <1>3, FilesSteps
  <2>a. part'[f] = Absent => Right(f)'  BY DEF Right
  <2>2. CASE part'[f] = part[f] /\ final'[f] = final[f]  BY <2>1, <2>2 DEF Right
  <2>3. CASE Drops(f)  BY <1>2, <2>3 DEF Drops
  <2>4. CASE Renames(f)
    <3>1. Whole(f)  BY <2>1, <2>4, PartLength DEF Renames, Basis
    <3> QED  BY <2>4, <2>a, <3>1 DEF Renames
  <2>5. CASE \E w \in Workers : Writes(w, f)  BY <1>4, <2>1, <2>5 DEF Writes
  <2>6. CASE \E w \in Workers : Rejects(w, f)  BY <2>1, <2>6, <2>a DEF Rejects
  <2>7. CASE \E w \in Workers : Places(w, f)
    <3>1. PICK w \in Workers : Places(w, f)  BY <2>7
    <3>2. Late(w) /\ Relies(w)  BY <1>2, <3>1 DEF Places, Late
    <3> QED  BY <3>1, <3>2, <2>a DEF Places, Relies
  <2> QED  BY <2>1, <2>2, <2>3, <2>4, <2>5, <2>6, <2>7 DEF FileStep
<1>6. ASSUME NEW v \in Workers, worker'[v].pc = "open" PROVE worker'[v].off <= Len0(F(v))'
  <2>1. Opens(v) /\ Counted  BY TasksSteps, CountedSteps DEF TasksStep
  <2>2. worker[v].pc # "gone" /\ worker'[v].t = worker[v].t  BY <1>6, <2>1 DEF Opens
  <2>3. worker[v].t \in Ids /\ F(v) \in Files  BY <2>2 DEF Basis, Census, Assigned
  <2>4. job'[worker[v].t] = job[worker[v].t]  BY <2>1, <2>3, Facts DEF Counted, JobStep, F
  <2>5. F(v)' = F(v)  BY <2>2, <2>4 DEF F, FileOf
  <2>6. Len0(F(v)) \in Nat /\ worker'[v].off \in Nat
    BY <2>3, PartLength, TypesKept DEF Basis, Types, WorkerRecord
  <2>7. CASE part'[F(v)] = part[F(v)]
    <3>1. Len0(F(v))' = Len0(F(v))  BY <2>5, <2>7 DEF Len0
    <3>2. worker'[v].off <= Len0(F(v))  BY <1>3, <1>6, <2>1, <2>6 DEF Opens
    <3> QED  BY <3>1, <3>2
  <2>8. CASE part'[F(v)] # part[F(v)]
    <3>1. worker[v].pc = "open"  BY <1>6, <2>1, <2>8 DEF Opens
    <3>2. Len0(F(v)) < Size[F(v)]  BY <1>2, <3>1 DEF Relies
    <3>3. \A w \in Workers : InHand(w) /\ F(w) = F(v) => w = v
      BY <1>2, <3>1 DEF Alone, InHand
    <3>4. ~Drops(F(v)) /\ ~Renames(F(v))
      <4>1. Size[F(v)] \in Nat  BY <2>3, Facts
      <4> QED  BY <1>2, <2>6, <3>2, <4>1 DEF Drops, Renames
    <3>5. ASSUME NEW w \in Workers, NEW f \in Files, f = F(v), Writes(w, f) PROVE FALSE
      <4>1. InHand(w) /\ F(w) = f  BY <1>2, <3>5, WrittenShort DEF Writes
      <4>2. w = v  BY <3>3, <3>5, <4>1
      <4> QED  BY <1>6, <3>5, <4>2 DEF Writes
    <3>6. \A w \in Workers : \A f \in Files : f = F(v) => ~Rejects(w, f) /\ ~Places(w, f)
      BY <3>1, <3>3 DEF Rejects, Places, InHand
    <3>7. PICK f \in Files : f = F(v)  BY <2>3
    <3> QED  BY <2>8, <3>4, <3>5, <3>6, <3>7, FilesSteps DEF FileStep
  <2> QED  BY <2>7, <2>8
<1>7. \A f \in Files : final'[f] # "bad" /\ Right(f)'  BY <1>5
<1>8. \A w \in Workers : (worker[w].pc = "open" => worker[w].off <= Len0(F(w)))'  BY <1>6
<1> QED  BY <1>7, <1>8 DEF Clean

(***************************************************************************)
(* The inductive invariant: what becomes of the shards of a batch.         *)
(***************************************************************************)
LEMMA TogetherKept ==
    ASSUME Basis, Solo, Clean, Together, Next
    PROVE  Together'
<1> SUFFICES ASSUME Quiet', Split' PROVE (app # "up" /\ Rests)'
  BY DEF Together, Rests
<1>1. ~shared' /\ spent'["cancel"] = 0 /\ spent'["fault"] = 0  BY DEF Quiet
<1>2. /\ ~shared /\ (\A v \in Workers : Relies(v))
      /\ spent["cancel"] = 0 /\ spent["fault"] = 0
  BY <1>1, Before
<1>3. Quiet /\ \A f \in Files : final[f] # "bad" /\ Right(f)
  BY <1>2 DEF Clean, Quiet
<1>4. final \in [Files -> {"absent", "whole", "bad"}] /\ Shards \subseteq Files  BY Facts DEF Basis, Types
<1>5. PICK f \in Shards, g \in Shards : final'[f] # "absent" /\ final'[g] = "absent"  BY DEF Split
<1>6. CASE Torn
  <2>1. PICK b \in batches' : TRUE  BY <1>6 DEF Torn
  <2>2. Forgotten(b)'  BY <1>6 DEF Torn, Forgotten
  <2> QED  BY <1>6, <2>1, <2>2 DEF Torn, Rests
<1>7. CASE Calm
  <2>1. final[f] # "absent"  BY <1>5, <1>7 DEF Calm
  <2>2. final[g] = "absent"
    <3>1. FileStep(g) /\ final[g] \in {"absent", "whole", "bad"} /\ final[g] # "bad"  BY <1>3, <1>4, FilesSteps
    <3> QED  BY <1>5, <3>1 DEF FileStep, Drops, Renames, Writes, Rejects, Places
  <2>3. app # "up" /\ Rests  BY <1>3, <1>5, <2>1, <2>2 DEF Together, Split, Rests
  <2>4. app' # "up" /\ \E b \in batches' : Forgotten(b)'  BY <1>7, <2>3 DEF Calm
  <2>5. ASSUME NEW h \in Shards PROVE Ready(h)'
    <3>1. Ready(h) /\ h \in Files /\ FileStep(h)  BY <1>4, <2>3, FilesSteps DEF Rests
    <3>2. CASE part'[h] = part[h] /\ final'[h] = final[h]  BY <3>1, <3>2 DEF Ready, Len0
    <3>3. CASE Drops(h)  BY <1>2, <3>3 DEF Drops
    <3>4. CASE Renames(h)  BY <3>4 DEF Renames, Ready
    <3>5. CASE \E w \in Workers : Writes(w, h)
      <4>1. Len0(h) < Size[h] /\ final'[h] = final[h]  BY <1>2, <3>1, <3>5, WrittenShort DEF Writes
      <4>2. Len0(h) \in Nat /\ Size[h] \in Nat  BY <3>1, Facts, PartLength DEF Basis
      <4> QED  BY <3>1, <4>1, <4>2 DEF Ready
    <3>6. CASE \E w \in Workers : Rejects(w, h)
      <4>1. PICK w \in Workers : Rejects(w, h)  BY <3>6
      <4>2. /\ part[h] = Absent => Len0(h) = 0
            /\ Whole(h) <=> Len0(h) = Size[h] /\ Right(h)
            /\ Size[h] > 0 /\ Size[h] \in Nat
        BY <3>1, Facts, PartLength DEF Basis
      <4>3. part[h] = Absent \/ Len0(h) = Size[h]  BY <1>2, <4>1 DEF Relies, Rejects
      <4>4. part[h] = Absent  BY <1>3, <3>1, <4>1, <4>2, <4>3 DEF Rejects
      <4>5. final[h] = "absent"  BY <1>3, <1>4, <3>1, <4>1, <4>4 DEF Rejects
      <4> QED  BY <3>1, <4>2, <4>4, <4>5 DEF Ready
    <3>7. CASE \E w \in Workers : Places(w, h)  BY <3>7 DEF Places
    <3> QED  BY <3>1, <3>2, <3>3, <3>4, <3>5, <3>6, <3>7 DEF FileStep
  <2> QED  BY <2>4, <2>5 DEF Rests
<1>8. ~Closing  BY <1>5 DEF Closing
<1> QED  BY <1>1, <1>6, <1>7, <1>8, BatchesSteps DEF BatchesStep

LEMMA VanishKept ==
    ASSUME Basis, Vanish, Next
    PROVE  Vanish'
<1> SUFFICES ASSUME NEW f \in Shards, batches' # {} PROVE Found(f)'
  BY DEF Vanish
<1>1. f \in Files /\ FileStep(f) /\ TasksStep /\ Shows
  BY Facts, FilesSteps, TasksSteps, BatchesSteps DEF BatchesStep
<1>2. /\ spent["cancel"] > 0 => spent'["cancel"] > 0
      /\ spent["crash"] > 0 => spent'["crash"] > 0
  <2>1. spent'["cancel"] >= spent["cancel"] /\ spent'["crash"] >= spent["crash"]  BY BooksKept DEF Books
  <2>2. /\ spent["cancel"] \in Nat /\ spent["crash"] \in Nat
        /\ spent'["cancel"] \in Nat /\ spent'["crash"] \in Nat
    BY TypesKept DEF Basis, Types, Kinds
  <2> QED  BY <2>1, <2>2
<1>3. ASSUME Shown(f) PROVE Found(f)'
  <2>1. PICK t \in Ids : status[t] # "none" /\ FileOf(t) = f  BY <1>3 DEF Shown
  <2>2. StillShown(t)  BY <1>1 DEF TasksStep
  <2>3. CASE status'[t] # "none" /\ job'[t] = job[t]
    <3>1. Shown(f)'  BY <2>1, <2>3 DEF Shown, FileOf
    <3> QED  BY <3>1 DEF Found
  <2> QED  BY <2>1, <2>2, <2>3 DEF StillShown, Found
<1>4. \A w \in Workers : Writes(w, f) \/ Rejects(w, f) => Shown(f)
  <2> SUFFICES ASSUME NEW w \in Workers, Writes(w, f) \/ Rejects(w, f) PROVE Shown(f)
    OBVIOUS
  <2>1. worker[w].pc # "gone" /\ F(w) = f  BY DEF Writes, Rejects
  <2>2. worker[w].t \in Ids /\ status[worker[w].t] # "none"  BY <2>1 DEF Basis, Census, Assigned
  <2> QED  BY <2>1, <2>2 DEF Shown, F
<1>5. ASSUME ~Shown(f)
      PROVE  /\ final[f] # "absent" => final'[f] # "absent"
             /\ Ready(f) => Ready(f)' \/ spent["cancel"] > 0
  <2>1. CASE part'[f] = part[f] /\ final'[f] = final[f]  BY <2>1 DEF Ready, Len0
  <2>2. CASE Drops(f)  BY <2>2 DEF Drops
  <2>3. CASE Renames(f)  BY <2>3 DEF Renames, Ready
  <2> QED  BY <1>1, <1>4, <1>5, <2>1, <2>2, <2>3 DEF FileStep, Places
<1>6. CASE batches = {}  BY <1>1, <1>6 DEF Shows, Found
<1>7. CASE batches # {} /\ ~Shown(f)
  <2>1. Found(f)  BY <1>7 DEF Vanish
  <2>2. CASE final[f] # "absent"  BY <1>5, <1>7, <2>2 DEF Found
  <2>3. CASE spent["crash"] > 0 /\ spent["cancel"] > 0  BY <1>2, <2>3 DEF Found
  <2>4. CASE spent["crash"] > 0 /\ Ready(f)  BY <1>2, <1>5, <1>7, <2>4 DEF Found
  <2>5. CASE spent["crash"] > 0 /\ app # "up"
    <3>1. CASE app' # "up"  BY <1>2, <2>5, <3>1 DEF Found
    <3>2. CASE app' = "up"
      <4>1. Ready(f) \/ Shown(f)'  BY <1>1, <1>7, <2>5, <3>2 DEF Shows
      <4> QED  BY <2>4, <2>5, <4>1 DEF Found
    <3> QED  BY <3>1, <3>2
  <2> QED  BY <1>7, <2>1, <2>2, <2>3, <2>4, <2>5 DEF Found
<1> QED  BY <1>3, <1>6, <1>7

(***************************************************************************)
(* The inductive invariant holds, and what it says.                        *)
(***************************************************************************)
LEMMA DownloadsStart == Init => DownloadsInd
<1> SUFFICES ASSUME Init PROVE DownloadsInd
  OBVIOUS
<1>1. /\ app = "up" /\ batches = {} /\ gathered = {} /\ trash = {} /\ shared = FALSE /\ unvouched = {}
      /\ status = [t \in Ids |-> "none"] /\ job = [t \in Ids |-> [file |-> "none", batch |-> 0]]
      /\ got = [t \in Ids |-> 0] /\ prio = [t \in Ids |-> 1] /\ rows = [t \in Ids |-> -1]
      /\ worker = [w \in Workers |-> Idle] /\ part = [f \in Files |-> Absent]
      /\ final = [f \in Files |-> "absent"] /\ spent = [k \in Kinds |-> 0]
  BY DEF Init, Workers, NoRow
<1>2. /\ \A t \in Ids : FileOf(t) = "none" /\ job[t].batch = 0 /\ status[t] = "none" /\ SizeOf(t) = 0
      /\ \A w \in Workers : worker[w] = Idle /\ worker[w].pc = "gone"
      /\ \A f \in Files : Len0(f) = 0 /\ Right(f)
  BY <1>1, IdleTyped, Facts DEF FileOf, SizeOf, Len0, Right
<1>3. Types
  <2>1. Idle \in WorkerRecord  BY IdleTyped
  <2>2. [file |-> "none", batch |-> 0] \in [file : Files \cup {"none"}, batch : Nat]  OBVIOUS
  <2> QED  BY <1>1, <2>1, <2>2 DEF Types, Statuses, Parts
<1>4. Census
  BY <1>1, <1>2, Facts DEF Census, Assigned, Known, Kinds, NoRow
<1>5. Sized
  <2>1. \A f \in Files : Len0(f) <= Size[f]  BY <1>2, Facts
  <2> QED  BY <1>1, <1>2, <2>1 DEF Sized
<1>6. Attended /\ Together /\ Vanish
  BY <1>1, <1>2, Facts DEF Attended, Together, Split, Vanish
<1>7. Solo /\ Gate /\ Clean
  BY <1>1, <1>2 DEF Solo, Relies, Alone, Writing, Late, InHand, Gate, Passed, Clean
<1> QED  BY <1>3, <1>4, <1>5, <1>6, <1>7 DEF DownloadsInd, Basis

LEMMA DownloadsStep == DownloadsInd /\ [Next]_vars => DownloadsInd'
<1>1. ASSUME DownloadsInd, Next PROVE DownloadsInd'
  BY <1>1, BasisKept, AttendedKept, SoloKept, GateKept, CleanKept, TogetherKept, VanishKept
     DEF DownloadsInd
<1>2. ASSUME DownloadsInd, UNCHANGED vars PROVE DownloadsInd'
  <2> USE <1>2 DEF vars, DownloadsInd
  <2>1. Types'  BY DEF Basis, Types
  <2>2. Census'
    BY DEF Basis, Census, Assigned, Known, F, FileOf
  <2>3. Sized'
    BY DEF Basis, Sized, Copied, Placed, Writing, F, FileOf, SizeOf, Len0
  <2>4. Attended'
    BY DEF Attended, Attends, F, FileOf
  <2>5. Solo'
    BY DEF Solo, Relies, Alone, InHand, Writing, Late, Whole, F, FileOf, Len0
  <2>6. Gate'
    BY DEF Gate, Passed, Late, Whole, F, FileOf, Len0
  <2>7. Clean'
    BY DEF Clean, Quiet, Right, F, FileOf, Len0
  <2>8. Together'
    BY DEF Together, Quiet, Split, Ready, Forgotten, Len0
  <2>9. Vanish'
    BY DEF Vanish, Found, Shown, Ready, FileOf, Len0
  <2> QED  BY <2>1, <2>2, <2>3, <2>4, <2>5, <2>6, <2>7, <2>8, <2>9 DEF Basis
<1> QED  BY <1>1, <1>2

LEMMA DownloadsHold == DownloadsInd => DownloadsInv
<1> SUFFICES ASSUME DownloadsInd PROVE DownloadsInv
  OBVIOUS
<1>1. Types /\ Census /\ Sized /\ Attended  BY DEF DownloadsInd, Basis
<1>2. DownloadsTypeOK
  <2>1. \A t \in Ids : got[t] \in 0 .. SizeOf(t) /\ rows[t] \in -1 .. SizeOf(t)
    <3>1. \A t \in Ids : SizeOf(t) \in Nat  BY Facts DEF SizeOf
    <3> QED  BY <1>1, <3>1 DEF Types, Sized
  <2>2. ASSUME NEW w \in Workers
        PROVE  /\ worker[w].pc \in Pcs
               /\ worker[w].pc # "gone" => worker[w].t \in Ids /\ worker[w].pos \in 0 .. SizeOf(worker[w].t)
    <3>1. worker[w].pc \in Pcs /\ worker[w].pos \in Nat  BY <1>1 DEF Types, WorkerRecord
    <3>2. CASE worker[w].pc # "gone"
      <4>1. worker[w].t \in Ids /\ F(w) \in Files /\ Placed(w)  BY <1>1, <3>2 DEF Census, Assigned, Sized
      <4>2. SizeOf(worker[w].t) \in Nat  BY <4>1, Facts DEF SizeOf, F
      <4> QED  BY <3>1, <4>1, <4>2 DEF Placed
    <3> QED  BY <3>1, <3>2
  <2>3. \A f \in Files : /\ part[f] \in Seq({"ok", "bad"}) \cup {Absent} /\ Len0(f) <= Size[f]
                         /\ final[f] \in {"absent", "whole", "bad"}
    BY <1>1 DEF Types, Sized, Parts, Chunks
  <2> QED  BY <1>1, <2>1, <2>2, <2>3 DEF DownloadsTypeOK, Types, Workers
<1>3. ActiveTaskHasWorker
  <2> SUFFICES ASSUME NEW t \in Ids, NEW st \in {"Queued", "Downloading", "Scanning"}, status[t] = st
               PROVE  \E w \in Workers : /\ worker[w].t = t
                          /\ worker[w].pc \in CASE st = "Queued" -> {"wait", "claim"}
                                                [] st = "Downloading" -> {"open", "request", "stream", "complete",
                                                                          "verify", "accept", "failing", "place"}
                                                [] st = "Scanning" -> {"unpack", "extract"}
    BY DEF ActiveTaskHasWorker, Workers
  <2>1. PICK w \in Workers : worker[w].t = t /\ Attends(w, status[t])  BY <1>1 DEF Attended
  <2> QED  BY <2>1 DEF Attends
<1> QED  BY <1>2, <1>3 DEF DownloadsInv

\* Every interleaving of commands, workers, deletions, recoveries and restarts
\* keeps every counter and every .part within the size of its file, and leaves
\* each waiting, running or extracting task in the hands of a worker.
THEOREM DownloadsKept == Spec => []DownloadsInv
<1>1. Spec => []DownloadsInd
  BY DownloadsStart, DownloadsStep, PTL DEF Spec
<1> QED
  BY <1>1, DownloadsHold, PTL

\* A finished file holds what was published unless two workers wrote it, a batch
\* renamed a shard none of its tasks had completed, or a cancel deleted a shard
\* that was counted as completed: no other way around the integrity gate exists.
THEOREM FinishedFilesVerified == Spec => []FinishedFilesAreVerified
<1>1. Spec => []DownloadsInd
  BY DownloadsStart, DownloadsStep, PTL DEF Spec
<1>2. DownloadsInd => FinishedFilesAreVerified
  BY DEF DownloadsInd, Gate, FinishedFilesAreVerified
<1> QED
  BY <1>1, <1>2, PTL

\* The shards of a quant become visible together: a crash between two renames is
\* repaired before the window can show the model.
THEOREM ShardsTogether == Spec => []ShardsFinishTogether
<1>1. Spec => []DownloadsInd
  BY DownloadsStart, DownloadsStep, PTL DEF Spec
<1>2. DownloadsInd => ShardsFinishTogether
  BY DEF DownloadsInd, Together, Quiet, Split, ShardsFinishTogether
<1> QED
  BY <1>1, <1>2, PTL

\* A shard of a registered batch is on disk in full or shown by a task, whatever
\* died between its row and its bytes, unless a cancel met a crash.
THEOREM ShardsStay == Spec => []NoShardVanishes
<1>1. Spec => []DownloadsInd
  BY DownloadsStart, DownloadsStep, PTL DEF Spec
<1>2. DownloadsInd => NoShardVanishes
  <2> SUFFICES ASSUME DownloadsInd, app = "up", spent["crash"] = 0 \/ spent["cancel"] = 0,
                      NEW b \in batches, NEW f \in Shards
               PROVE  Ready(f) \/ Shown(f)
    BY DEF NoShardVanishes, Shown
  <2>1. Found(f)  BY DEF DownloadsInd, Vanish
  <2>2. spent["crash"] \in Nat /\ spent["cancel"] \in Nat  BY DEF DownloadsInd, Basis, Types, Kinds
  <2> QED  BY <2>1, <2>2 DEF Found, Ready
<1> QED
  BY <1>1, <1>2, PTL
=============================================================================

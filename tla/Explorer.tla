------------------------------ MODULE Explorer ------------------------------
(***************************************************************************)
(* The graph explorer: a renderer whose stores await requests and listen   *)
(* to streams (renderer/rpc.ts, store*.ts), and a sidecar that handles      *)
(* requests concurrently, each up to its next await (sidecar/index.ts,      *)
(* jobs/, templates/).  Workers of jobs run beside them and write first to  *)
(* their stdout, then to progress.jsonl.                                    *)
(*                                                                         *)
(* A request is an entry of req, its id is its place there; the socket is   *)
(* first-in first-out in both directions.  Wording of answers, queries and  *)
(* the estimate of remaining time and cost are left out.                    *)
(***************************************************************************)
EXTENDS Naturals, Sequences, SequencesExt

CONSTANTS
    Jobs,      \* job directories
    Runs,      \* run directories
    Total,     \* artifacts of a job
    Budgets,   \* how often the user does what: functions from UserOps to Nat
    MaxRequests, \* more than the budgets let the renderer send
    None

UserOps == {"select", "resume", "chat", "cancelChat", "eval", "cancelEval",
            "load", "diff", "catalog", "scaffold"}

ASSUME TotalAssumption == Total \in Nat \ {0}
ASSUME BudgetsAssumption == Budgets \subseteq [UserOps -> Nat]
ASSUME NoneAssumption == None \notin Jobs \cup Runs \cup Nat

VARIABLES
    job,        \* per job: the worker, its stdout and file, the supervisor
    req,        \* the requests of the renderer, in the order sent
    down,       \* messages from the sidecar to the renderer
    loaded,     \* the runs the sidecar holds in memory
    templates,  \* how many templates are on disk
    catalog,    \* the cached catalog: the templates it lists, or None
    ui,         \* the renderer's stores
    budget

vars == <<job, req, down, loaded, templates, catalog, ui, budget>>
sidecar == <<loaded, templates, catalog>>

Fresh == [done |-> 0, cached |-> 0, status |-> "idle", from |-> {}]

JobKinds ==
    LET Line(n) == [done |-> n, hit |-> FALSE]
        Past(n, s) == [alive |-> FALSE, sup |-> "none", seg |-> n, kept |-> n,
                       hits |-> 0, log |-> [i \in 1..n |-> Line(i)],
                       file |-> n, fed |-> n, status |-> s]
    IN {Past(Total, "done"), Past(1, "paused"),
        [Past(0, "running") EXCEPT !.alive = TRUE, !.sup = "live"]}

Init ==
    /\ job \in [Jobs -> JobKinds]
    /\ req = <<>>
    /\ down = <<>>
    /\ loaded = {}
    /\ templates = 0
    /\ catalog = None
    /\ ui = [selected |-> None, watching |-> None, proj |-> Fresh,
             chat |-> None, evalrun |-> None, run |-> None, diff |-> None,
             catalog |-> None]
    /\ budget \in Budgets

-----------------------------------------------------------------------------
(* The worker of a job, and the supervisor that reads its stdout.          *)

\* JsonlSink.emit, under its lock: the line goes to stdout, then to the file.
Emit(j) ==
    /\ job[j].alive
    /\ job[j].seg < Total
    /\ job[j].file = Len(job[j].log)
    /\ LET n == job[j].seg + 1
           hit == n <= job[j].kept
       IN job' = [job EXCEPT
              ![j].seg = n,
              ![j].hits = IF hit THEN @ + 1 ELSE @,
              ![j].log = Append(@, [done |-> n, hit |-> hit])]
    /\ UNCHANGED <<req, down, sidecar, ui, budget>>

Persist(j) ==
    /\ job[j].file < Len(job[j].log)
    /\ job' = [job EXCEPT ![j].file = @ + 1]
    /\ UNCHANGED <<req, down, sidecar, ui, budget>>

\* The worker writes its last state.json and exits, paused or done.
EndJob(j) ==
    /\ job[j].alive
    /\ job[j].file = Len(job[j].log)
    /\ \E s \in {"paused"} \cup (IF job[j].seg = Total THEN {"done"} ELSE {}) :
          job' = [job EXCEPT
              ![j].alive = FALSE,
              ![j].status = s,
              ![j].kept = IF @ > job[j].seg THEN @ ELSE job[j].seg]
    /\ UNCHANGED <<req, down, sidecar, ui, budget>>

\* JobManager.start: a no-op while the child it spawned has not exited.
Booted(j) ==
    IF job[j].sup = "live" THEN job
    ELSE [job EXCEPT ![j].alive = TRUE, ![j].sup = "live", ![j].seg = 0,
                     ![j].hits = 0, ![j].status = "running"]

Progress(id, j, i) == [id |-> id, kind |-> "progress", val |-> <<j, job[j].log[i]>>]
Answer(id, v) == [id |-> id, kind |-> "reply", val |-> v]
Send(msgs) == down' = down \o msgs

Listeners(j) == {id \in DOMAIN req : req[id].at = "live" /\ req[id].arg = j}

\* A line of stdout reaches whoever listens at that moment; in which order makes no
\* difference, for each is told the same.
Feed(j) ==
    LET n == job[j].fed + 1
        ids == SetToSeq(Listeners(j))
    IN
    /\ job[j].sup = "live"
    /\ n <= Len(job[j].log)
    /\ job' = [job EXCEPT ![j].fed = n]
    /\ req' = [id \in DOMAIN req |->
                 IF id \in Listeners(j) THEN [req[id] EXCEPT !.got = Append(@, n)]
                 ELSE req[id]]
    /\ Send([i \in DOMAIN ids |-> Progress(ids[i], j, n)])
    /\ UNCHANGED <<sidecar, ui, budget>>

\* A supervisor that forgets to tell the watchers that its child is gone.
CloseSilent(j) ==
    /\ job[j].sup = "live"
    /\ ~job[j].alive
    /\ job[j].fed = Len(job[j].log)
    /\ job' = [job EXCEPT ![j].sup = "exited"]
    /\ UNCHANGED <<req, down, sidecar, ui, budget>>

\* The pipe is at its end: handle.done settles, watchers go on to state.json.
Close(j) ==
    /\ job[j].sup = "live"
    /\ ~job[j].alive
    /\ job[j].fed = Len(job[j].log)
    /\ job' = [job EXCEPT ![j].sup = "exited"]
    /\ req' = [id \in DOMAIN req |->
                 IF id \in Listeners(j) THEN [req[id] EXCEPT !.at = "ending"]
                 ELSE req[id]]
    /\ UNCHANGED <<down, sidecar, ui, budget>>

-----------------------------------------------------------------------------
(* The sidecar's handlers.  at: where a request has got to.                *)

Request(op, arg) == [op |-> op, arg |-> arg, at |-> "sent", off |-> FALSE,
                     seen |-> 0, got |-> <<>>]
Issue(rs) == req' = req \o rs
At(id, stage) == [req EXCEPT ![id].at = stage]
Reply(id, v) == /\ req' = At(id, "replied")
                /\ Send(<<Answer(id, v)>>)

\* Messages are taken off the socket one after the other.
NextUp(id) == req[id].at = "sent" /\ \A i \in 1..(id - 1) : req[i].at # "sent"

Needs(id) == IF req[id].op = "load" THEN {req[id].arg}
             ELSE {req[id].arg[1], req[id].arg[2]}

HandleStart(id) ==
    /\ req[id].op = "start"
    /\ job' = Booted(req[id].arg)
    /\ Reply(id, None)
    /\ UNCHANGED sidecar

\* unwatchJob aborts: a watch that has subscribed ends without a state event,
\* one still reading the file finds out when it gets to the race.
HandleUnwatch(id) ==
    LET t == req[id].arg IN
    /\ req[id].op = "unwatch"
    /\ req' = [req EXCEPT ![id].at = "replied",
                          ![t].off = TRUE,
                          ![t].at = IF @ = "live" THEN "replied" ELSE @]
    /\ Send((IF req[t].at = "live" THEN <<Answer(t, None)>> ELSE <<>>)
              \o <<Answer(id, None)>>)
    /\ UNCHANGED <<job, sidecar>>

\* jobList, cancelChat, evalsCancel: answered at once.
HandlePlain(id) ==
    /\ req[id].op \in {"list", "cancelChat", "evalsCancel"}
    /\ Reply(id, None)
    /\ UNCHANGED <<job, sidecar>>

\* ensureLoaded and JobManager.catalog answer from memory when they can.
HandleCached(id) ==
    /\ \/ req[id].op \in {"load", "diff"} /\ Needs(id) \subseteq loaded /\ Reply(id, None)
       \/ req[id].op = "catalog" /\ catalog # None /\ Reply(id, catalog)
    /\ UNCHANGED <<job, sidecar>>

HandleAwait(id) ==
    /\ \/ req[id].op \in {"watch", "chat", "evalsRun", "scaffold"}
       \/ req[id].op \in {"load", "diff"} /\ ~(Needs(id) \subseteq loaded)
       \/ req[id].op = "catalog" /\ catalog = None
    /\ req' = At(id, IF req[id].op \in {"chat", "evalsRun"} THEN "running" ELSE "reading")
    /\ UNCHANGED <<job, down, sidecar>>

Handle(id) ==
    /\ NextUp(id)
    /\ \/ HandleStart(id)
       \/ HandleUnwatch(id)
       \/ HandlePlain(id)
       \/ HandleCached(id)
       \/ HandleAwait(id)
    /\ UNCHANGED <<ui, budget>>

\* The file is read in another thread; the handler goes on later.
ReadLog(id) ==
    /\ req[id].op = "watch" /\ req[id].at = "reading"
    /\ req' = [req EXCEPT ![id].at = "read", ![id].seen = job[req[id].arg].file]
    /\ UNCHANGED <<job, down, sidecar, ui, budget>>

\* Replay what was read, then subscribe, if the child is alive, or go on to
\* state.json, aborted or not.
Replay(id) ==
    LET j == req[id].arg
        lines == [i \in 1..req[id].seen |-> Progress(id, j, i)]
        live == job[j].sup = "live"
    IN
    /\ req[id].op = "watch" /\ req[id].at = "read"
    /\ req' = [req EXCEPT ![id].got = [i \in 1..req[id].seen |-> i],
                 ![id].at = IF ~live THEN "ending"
                            ELSE IF req[id].off THEN "replied" ELSE "live"]
    /\ Send(lines \o (IF live /\ req[id].off THEN <<Answer(id, None)>> ELSE <<>>))
    /\ UNCHANGED <<job, sidecar, ui, budget>>

ReadState(id) ==
    LET j == req[id].arg IN
    /\ req[id].op = "watch" /\ req[id].at = "ending"
    /\ req' = At(id, "replied")
    /\ Send(<<[id |-> id, kind |-> "state",
               val |-> <<j, job[j].status, job[j].seg, job[j].hits>>],
              Answer(id, None)>>)
    /\ UNCHANGED <<job, sidecar, ui, budget>>

\* The agent's turn, or the evaluation, ends: by itself or interrupted.
EndTurn(id) ==
    /\ req[id].at = "running"
    /\ req' = At(id, "replied")
    /\ Send(<<[id |-> id, kind |-> "done", val |-> None], Answer(id, None)>>)
    /\ UNCHANGED <<job, sidecar, ui, budget>>

Built(id) ==
    /\ req[id].op \in {"load", "diff"} /\ req[id].at = "reading"
    /\ loaded' = loaded \cup Needs(id)
    /\ Reply(id, None)
    /\ UNCHANGED <<job, templates, catalog, ui, budget>>

\* The Python process writes the new template's files and exits.
Scaffolded(id) ==
    /\ req[id].op = "scaffold" /\ req[id].at = "reading"
    /\ templates' = templates + 1
    /\ Reply(id, None)
    /\ UNCHANGED <<job, loaded, catalog, ui, budget>>

\* The Python process lists the templates; its answer is cached later.
Listed(id) ==
    /\ req[id].op = "catalog" /\ req[id].at = "reading"
    /\ req' = [req EXCEPT ![id].at = "read", ![id].seen = templates]
    /\ UNCHANGED <<job, down, sidecar, ui, budget>>

Cached(id) ==
    /\ req[id].op = "catalog" /\ req[id].at = "read"
    /\ catalog' = req[id].seen
    /\ Reply(id, req[id].seen)
    /\ UNCHANGED <<job, loaded, templates, ui, budget>>

Sidecar(id) == \/ Handle(id) \/ ReadLog(id) \/ Replay(id) \/ ReadState(id)
               \/ EndTurn(id) \/ Built(id) \/ Scaffolded(id) \/ Listed(id) \/ Cached(id)

-----------------------------------------------------------------------------
(* The renderer: what arrives.                                             *)

\* reduceEvent: duplicates count twice, the status is left to phase events.
ReduceEvent(p, j, line) ==
    [done |-> line.done, cached |-> IF line.hit THEN p.cached + 1 ELSE p.cached,
     status |-> "running", from |-> p.from \cup {j}]

\* Counters taken from the stream alone.
ReduceStateStreamed(p, j, status, done, cached) ==
    [p EXCEPT !.status = status, !.from = p.from \cup {j}]

\* reduceState: state.json overrides what the stream said.
ReduceState(p, j, status, done, cached) ==
    [done |-> done, cached |-> cached, status |-> status, from |-> p.from \cup {j}]

\* selectJob: cancel the watch there is, begin another one.
Selects(j) ==
    LET cancel == IF ui.watching = None THEN <<>> ELSE <<Request("unwatch", ui.watching)>>
        watch == IF j = None THEN <<>> ELSE <<Request("watch", j)>>
    IN
    [sent |-> cancel \o watch,
     ui |-> [ui EXCEPT !.selected = j, !.proj = Fresh,
               !.watching = IF j = None THEN None ELSE Len(req) + Len(cancel) + 1]]

ReceiveEvent ==
    LET m == Head(down) IN
    /\ m.kind # "reply"
    /\ ui' = CASE m.kind = "progress" ->
                    [ui EXCEPT !.proj = ReduceEvent(@, m.val[1], m.val[2])]
               [] m.kind = "state" ->
                    [ui EXCEPT !.proj = ReduceState(@, m.val[1], m.val[2], m.val[3], m.val[4])]
               [] m.kind = "done" ->
                    IF req[m.id].op = "chat" THEN [ui EXCEPT !.chat = None] ELSE ui
    /\ UNCHANGED req

Settled(id) == [req EXCEPT ![id] = [Request(@.op, @.arg) EXCEPT !.at = "settled"]]

\* What goes on after the await; a reply on its own changes a store.
ReceiveReply ==
    LET m == Head(down)
        r == req[m.id]
        again == r.op = "list" /\ ui.selected = r.arg
    IN
    /\ m.kind = "reply"
    /\ req' = Settled(m.id) \o (CASE r.op = "start" -> <<Request("list", r.arg)>>
                                  [] again -> Selects(r.arg).sent
                                  [] OTHER -> <<>>)
    /\ ui' = CASE again -> Selects(r.arg).ui
               [] r.op = "evalsRun" -> [ui EXCEPT !.evalrun = None]
               [] r.op = "load" -> [ui EXCEPT !.run = r.arg]
               [] r.op = "diff" -> [ui EXCEPT !.diff = r.arg]
               [] r.op = "catalog" -> [ui EXCEPT !.catalog = m.val]
               [] OTHER -> ui

Receive ==
    /\ down # <<>>
    /\ down' = Tail(down)
    /\ ReceiveEvent \/ ReceiveReply
    /\ UNCHANGED <<job, sidecar, budget>>

-----------------------------------------------------------------------------
(* The renderer: what the user does.                                       *)

Spend(op) == budget[op] > 0 /\ budget' = [budget EXCEPT ![op] = @ - 1]
Idle == UNCHANGED <<job, down, sidecar>>

Select(j) ==
    /\ Spend("select")
    /\ Issue(Selects(j).sent)
    /\ ui' = Selects(j).ui
    /\ Idle

Resume(j) ==
    /\ Spend("resume")
    /\ job[j].status = "paused"
    /\ Issue(<<Request("start", j)>>)
    /\ UNCHANGED ui /\ Idle

\* sendChat, sendPropose, a template's sendChat: one at a time by the slot.
SendChat ==
    /\ Spend("chat")
    /\ ui.chat = None
    /\ Issue(<<Request("chat", None)>>)
    /\ ui' = [ui EXCEPT !.chat = Len(req) + 1]
    /\ Idle

CancelChat ==
    /\ Spend("cancelChat")
    /\ ui.chat # None
    /\ Issue(<<Request("cancelChat", ui.chat)>>)
    /\ ui' = [ui EXCEPT !.chat = None]
    /\ Idle

RunQuestions ==
    /\ Spend("eval")
    /\ ui.evalrun = None
    /\ Issue(<<Request("evalsRun", None)>>)
    /\ ui' = [ui EXCEPT !.evalrun = Len(req) + 1]
    /\ Idle

\* The slot freed at once, as the stores of the chats do.
CancelRunClears ==
    /\ Spend("cancelEval")
    /\ ui.evalrun # None
    /\ Issue(<<Request("evalsCancel", ui.evalrun)>>)
    /\ ui' = [ui EXCEPT !.evalrun = None]
    /\ Idle

CancelRun ==
    /\ Spend("cancelEval")
    /\ ui.evalrun # None
    /\ Issue(<<Request("evalsCancel", ui.evalrun)>>)
    /\ UNCHANGED ui /\ Idle

LoadRun(r) ==
    /\ Spend("load")
    /\ Issue(<<Request("load", r)>>)
    /\ ui' = [ui EXCEPT !.diff = None]
    /\ Idle

RunDiff(r) ==
    /\ Spend("diff")
    /\ ui.run # None
    /\ Issue(<<Request("diff", <<ui.run, r>>)>>)
    /\ UNCHANGED ui /\ Idle

LoadCatalog ==
    /\ Spend("catalog")
    /\ Issue(<<Request("catalog", None)>>)
    /\ UNCHANGED ui /\ Idle

Scaffold ==
    /\ Spend("scaffold")
    /\ Issue(<<Request("scaffold", None)>>)
    /\ UNCHANGED ui /\ Idle

User == \/ \E j \in Jobs \cup {None} : Select(j)
        \/ \E j \in Jobs : Resume(j)
        \/ SendChat \/ CancelChat \/ RunQuestions \/ CancelRun
        \/ \E r \in Runs : LoadRun(r) \/ RunDiff(r)
        \/ LoadCatalog \/ Scaffold

Worker(j) == Emit(j) \/ Persist(j) \/ EndJob(j)
Supervisor(j) == Feed(j) \/ Close(j)

Next == \/ User \/ Receive
        \/ \E j \in Jobs : Worker(j) \/ Supervisor(j)
        \/ \E id \in DOMAIN req : Sidecar(id)

Ids == 1..MaxRequests
Fairness == /\ WF_vars(Receive)
            /\ \A j \in Jobs : WF_vars(Worker(j)) /\ WF_vars(Supervisor(j))
            /\ \A id \in Ids : WF_vars(id \in DOMAIN req /\ Sidecar(id))
Spec == Init /\ [][Next]_vars /\ Fairness

-----------------------------------------------------------------------------
(* Properties.                                                             *)

AllSettled == down = <<>> /\ \A id \in DOMAIN req : req[id].at = "settled"

Line == [done : Nat, hit : BOOLEAN]
Statuses == {"running", "paused", "done"}
Job == [alive : BOOLEAN, sup : {"none", "live", "exited"}, seg : 0..Total, kept : Nat,
        hits : Nat, log : Seq(Line), file : Nat, fed : Nat, status : Statuses]
Places == {"sent", "reading", "read", "live", "ending", "running", "replied", "settled"}
Asks(ops, args) == [op : ops, arg : args, at : Places, off : BOOLEAN, seen : Nat, got : Seq(Nat)]
Sent == Asks({"start", "watch", "list"}, Jobs) \cup Asks({"load"}, Runs)
        \cup Asks({"diff"}, Runs \X Runs) \cup Asks({"unwatch", "cancelChat", "evalsCancel"}, Nat)
        \cup Asks({"chat", "evalsRun", "catalog", "scaffold"}, {None})
Message == [id : Nat, kind : {"progress"}, val : Jobs \X Line]
           \cup [id : Nat, kind : {"state"}, val : Jobs \X Statuses \X (0..Total) \X Nat]
           \cup [id : Nat, kind : {"done", "reply"}, val : Nat \cup {None}]

Stores == [selected : Jobs \cup {None}, watching : Nat \cup {None},
           proj : [done : Nat, cached : Nat, status : Statuses \cup {"idle"}, from : SUBSET Jobs],
           chat : Nat \cup {None}, evalrun : Nat \cup {None}, run : Runs \cup {None},
           diff : (Runs \X Runs) \cup {None}, catalog : Nat \cup {None}]

TypeOK ==
    /\ job \in [Jobs -> Job] /\ req \in Seq(Sent) /\ down \in Seq(Message)
    /\ loaded \subseteq Runs
    /\ templates \in Nat /\ catalog \in Nat \cup {None}
    /\ ui \in Stores /\ budget \in [UserOps -> Nat]

\* Whatever the watch missed or was told twice (manager.watch subscribes after
\* an await), once the worker of the selected job has ended and every request
\* is settled the projection shows what state.json says; provided no event
\* of a job selected before it came in late.
ShownAtRest ==
    \A j \in Jobs :
        AllSettled /\ ui.selected = j /\ ~job[j].alive /\ ui.proj.from \subseteq {j}
        => [ui.proj EXCEPT !.from = {}]
             = [done |-> job[j].seg, cached |-> job[j].hits,
                status |-> job[j].status, from |-> {}]

\* The slot of the store is the run that is open: the user can start a second
\* evaluation only when the first has been answered (store-evals.runQuestions
\* clears activeRun when its own request settles, cancelled or not).
EvalOwned ==
    \A id \in DOMAIN req :
        req[id].op = "evalsRun" /\ req[id].at # "settled" => ui.evalrun = id

\* What the stores of the renderer show agrees with what the sidecar does: the
\* projection of the selected job at rest, the slot of the evaluation always.
StoresAgree == ShownAtRest /\ EvalOwned

\* Every request the renderer awaits is answered: handlers that end at once,
\* watches that were cancelled at any of their awaits, watches of jobs whose
\* worker ends while they replay, turns that are interrupted.
EveryRequestSettles ==
    \A id \in Ids : (id \in DOMAIN req)
                      ~> (id \in DOMAIN req /\ req[id].at = "settled")

\* docs/EXPLORER_RUNS.md: watchJob "replays progress.jsonl (so a reattached
\* client rebuilds the view), then live events": a watch that listens has had
\* every line the supervisor has passed on, each once.
NothingMissed ==
    \A id \in DOMAIN req :
        req[id].op = "watch" /\ req[id].at = "live"
        => req[id].got = [i \in 1..job[req[id].arg].fed |-> i]
=============================================================================

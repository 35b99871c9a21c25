--------------------------- MODULE ExplorerProofs ---------------------------
(***************************************************************************)
(* Proofs about Explorer, for any jobs, budgets and numbers of requests,   *)
(* and however requests, streams and workers interleave.                   *)
(***************************************************************************)
EXTENDS Explorer, FiniteSetTheorems, SequenceTheorems, TLAPS

-----------------------------------------------------------------------------
(* Sequences.                                                              *)

LEMMA MapFacts ==
    ASSUME NEW T, NEW n \in Nat, NEW f, DOMAIN f = 1..n, f = [i \in 1..n |-> f[i]],
           \A i \in 1..n : f[i] \in T
    PROVE  f \in Seq(T) /\ Len(f) = n
<1>1. f \in [1..n -> T]
    OBVIOUS
<1>2. QED BY <1>1, IsASeq, LenProperties

LEMMA ConcatFacts ==
    ASSUME NEW T, NEW p \in Seq(T), NEW q \in Seq(T)
    PROVE  /\ p \o q \in Seq(T) /\ Len(p) \in Nat /\ Len(q) \in Nat
           /\ DOMAIN p = 1..Len(p) /\ DOMAIN q = 1..Len(q)
           /\ DOMAIN (p \o q) = 1..(Len(p) + Len(q))
           /\ \A i \in DOMAIN p : i \in DOMAIN (p \o q) /\ (p \o q)[i] = p[i]
           /\ \A i \in DOMAIN q :
                  Len(p) + i \in DOMAIN (p \o q) /\ (p \o q)[Len(p) + i] = q[i]
           /\ \A k \in DOMAIN (p \o q) :
                  k \in DOMAIN p \/ \E i \in DOMAIN q : k = Len(p) + i
<1>1. /\ Len(p) \in Nat /\ Len(q) \in Nat
      /\ DOMAIN p = 1..Len(p) /\ DOMAIN q = 1..Len(q)
    BY LenProperties
<1>2. /\ p \o q \in Seq(T) /\ Len(p \o q) = Len(p) + Len(q)
      /\ \A i \in 1 .. Len(p) + Len(q) :
             (p \o q)[i] = IF i <= Len(p) THEN p[i] ELSE q[i - Len(p)]
    BY ConcatProperties
<1>3. DOMAIN (p \o q) = 1..(Len(p) + Len(q))
    BY <1>2, LenProperties
<1>4. \A i \in DOMAIN q : Len(p) + i \in DOMAIN (p \o q) /\ (p \o q)[Len(p) + i] = q[i]
    BY <1>1, <1>2, <1>3
<1>5. ASSUME NEW k \in DOMAIN (p \o q), k \notin DOMAIN p
      PROVE  \E i \in DOMAIN q : k = Len(p) + i
    <2>1. k - Len(p) \in DOMAIN q /\ k = Len(p) + (k - Len(p))
        BY <1>1, <1>3, <1>5
    <2>2. QED BY <2>1
<1>6. QED BY <1>1, <1>2, <1>3, <1>4, <1>5

LEMMA TailFacts ==
    ASSUME NEW T, NEW s \in Seq(T), s # <<>>
    PROVE  /\ Len(s) \in Nat /\ DOMAIN s = 1..Len(s) /\ 1 \in DOMAIN s /\ Head(s) = s[1]
           /\ Tail(s) \in Seq(T) /\ DOMAIN Tail(s) = 1..(Len(s) - 1)
           /\ \A i \in DOMAIN Tail(s) : i + 1 \in DOMAIN s /\ Tail(s)[i] = s[i + 1]
           /\ \A i \in DOMAIN s : i # 1 => i - 1 \in DOMAIN Tail(s) /\ Tail(s)[i - 1] = s[i]
<1>1. Len(s) \in Nat /\ DOMAIN s = 1..Len(s) /\ Len(s) # 0
    BY LenProperties, EmptySeq
<1>2. /\ Head(s) = s[1] /\ Tail(s) \in Seq(T) /\ Len(Tail(s)) = Len(s) - 1
      /\ \A i \in 1 .. Len(s) - 1 : Tail(s)[i] = s[i + 1]
    BY <1>1, HeadTailProperties
<1>3. DOMAIN Tail(s) = 1..(Len(s) - 1)
    BY <1>2, LenProperties
<1>4. QED BY <1>1, <1>2, <1>3

LEMMA OneFacts ==
    ASSUME NEW T, NEW x \in T
    PROVE  /\ <<x>> \in Seq(T) /\ DOMAIN <<x>> = {1} /\ <<x>>[1] = x
           /\ <<>> \in Seq(T) /\ DOMAIN <<>> = {}
BY LenProperties

LEMMA TwoFacts ==
    ASSUME NEW T, NEW x \in T, NEW y \in T
    PROVE  /\ <<x>> \o <<y>> \in Seq(T) /\ DOMAIN (<<x>> \o <<y>>) = {1, 2}
           /\ (<<x>> \o <<y>>)[1] = x /\ (<<x>> \o <<y>>)[2] = y
<1>1. /\ <<x>> \in Seq(T) /\ <<y>> \in Seq(T) /\ Len(<<x>>) = 1 /\ Len(<<y>>) = 1
      /\ DOMAIN <<x>> = {1} /\ DOMAIN <<y>> = {1} /\ <<x>>[1] = x /\ <<y>>[1] = y
    BY OneFacts
<1>2. DOMAIN (<<x>> \o <<y>>) = 1..(1 + 1)
    BY <1>1, ConcatFacts
<1>3. 1..(1 + 1) = {1, 2}
    OBVIOUS
<1>4. QED BY <1>1, <1>2, <1>3, ConcatFacts

LEMMA SetToSeqFacts ==
    ASSUME NEW S, IsFiniteSet(S)
    PROVE  SetToSeq(S) \in Seq(S)
<1>1. Cardinality(S) \in Nat /\ ExistsBijection(1..Cardinality(S), S)
    BY FS_CardinalityType
<1>2. \E f \in [1..Cardinality(S) -> S] : IsInjective(f)
    BY <1>1 DEF ExistsBijection, Bijection, Injection
<1>3. SetToSeq(S) \in [1..Cardinality(S) -> S]
    BY <1>2 DEF SetToSeq
<1>4. QED BY <1>1, <1>3

-----------------------------------------------------------------------------
(* The invariant.                                                          *)

\* A job is alive only under a supervisor, and no one is ahead of its log.
JobInv ==
    \A j \in Jobs :
        /\ job[j].alive => job[j].sup = "live"
        /\ job[j].file <= Len(job[j].log) /\ job[j].fed <= Len(job[j].log)

\* Which requests reach which places; an unwatch follows the watch it ends.
ReqInv ==
    \A id \in DOMAIN req :
        /\ req[id].op = "unwatch"
           => req[id].arg \in 1..(id - 1) /\ req[req[id].arg].op = "watch"
        /\ req[id].op = "watch" /\ req[id].at = "read"
           => req[id].seen <= job[req[id].arg].file
        /\ req[id].at \in {"live", "ending"} => req[id].op = "watch"
        /\ req[id].at = "running" => req[id].op \in {"chat", "evalsRun"}

\* A request is answered at most once, and waits for its answer to arrive.
ReplyInv ==
    \A i \in DOMAIN down :
        /\ down[i].id \in DOMAIN req
        /\ down[i].kind = "reply"
           => /\ req[down[i].id].at = "replied"
              /\ \A k \in DOMAIN down :
                     down[k].kind = "reply" /\ down[k].id = down[i].id => k = i

\* The store awaits one watch, of the job that is selected, and has not ended it.
WatchInv ==
    /\ ui.watching = None => ui.selected = None
    /\ ui.watching # None
       => /\ ui.watching \in DOMAIN req /\ ui.selected \in Jobs
          /\ req[ui.watching].op = "watch" /\ req[ui.watching].arg = ui.selected
          /\ ~req[ui.watching].off
          /\ \A id \in DOMAIN req : req[id].op = "unwatch" => req[id].arg # ui.watching

\* The renderer has started a job and has yet to look at it again.
Pending(j) ==
    \E id \in DOMAIN req :
        req[id].op \in {"start", "list"} /\ req[id].arg = j /\ req[id].at # "settled"

Watched(stages) == ui.watching # None /\ ~Pending(ui.selected) /\ req[ui.watching].at \in stages

\* When the watch goes on to state.json the worker has gone for good, unless a start
\* is under way.
GoneInv == Watched({"ending", "replied", "settled"}) => job[ui.selected].sup # "live"

Relevant(m) == m.kind \in {"progress", "state"}

Shows(j) ==
    ui.proj.done = job[j].seg /\ ui.proj.cached = job[j].hits /\ ui.proj.status = job[j].status

\* What is on its way to the projection ends in what state.json says; unless
\* something of another job gets into it.
Projected(j) ==
    \/ ~(ui.proj.from \subseteq {j})
    \/ \E i \in DOMAIN down : Relevant(down[i]) /\ down[i].val[1] # j
    \/ Shows(j) /\ \A i \in DOMAIN down : ~Relevant(down[i])
    \/ \E i \in DOMAIN down :
           /\ down[i].kind = "state"
           /\ down[i].val = <<j, job[j].status, job[j].seg, job[j].hits>>
           /\ \A k \in DOMAIN down : k > i => ~Relevant(down[k])

\* No watch of j, ended or not, has its state.json still to read.
NoneEnding(j) == \A id \in DOMAIN req : req[id].at = "ending" => req[id].arg # j

ShownInv ==
    Watched({"replied", "settled"}) /\ NoneEnding(ui.selected) => Projected(ui.selected)

ExplorerInv ==
    /\ TypeOK /\ JobInv /\ ReqInv /\ ReplyInv
    /\ WatchInv /\ GoneInv /\ ShownInv /\ EvalOwned

-----------------------------------------------------------------------------
(* Requests and messages.                                                  *)

LEMMA SentFacts ==
    ASSUME NEW r \in Sent
    PROVE  /\ r.at \in Places /\ r.off \in BOOLEAN /\ r.seen \in Nat /\ r.got \in Seq(Nat)
           /\ r.op \in {"start", "watch", "list"} => r.arg \in Jobs
           /\ r.op = "load" => r.arg \in Runs
           /\ r.op = "diff" => r.arg \in Runs \X Runs
           /\ r.op \in {"unwatch", "cancelChat", "evalsCancel"} => r.arg \in Nat
BY DEF Sent, Asks

LEMMA SentMoves ==
    ASSUME NEW r \in Sent, NEW at \in Places, NEW off \in BOOLEAN, NEW n \in Nat,
           NEW g \in Seq(Nat)
    PROVE  /\ [r EXCEPT !.at = at] \in Sent /\ [r EXCEPT !.at = at, !.seen = n] \in Sent
           /\ [r EXCEPT !.off = off, !.at = at] \in Sent /\ [r EXCEPT !.got = g] \in Sent
           /\ [r EXCEPT !.got = g, !.at = at] \in Sent
           /\ [Request(r.op, r.arg) EXCEPT !.at = at] \in Sent
<1>2. <<>> \in Seq(Nat) /\ 0 \in Nat
    OBVIOUS
<1>3. ASSUME NEW ops, NEW args, r \in Asks(ops, args), Asks(ops, args) \subseteq Sent
      PROVE  /\ [r EXCEPT !.at = at] \in Sent /\ [r EXCEPT !.at = at, !.seen = n] \in Sent
             /\ [r EXCEPT !.off = off, !.at = at] \in Sent /\ [r EXCEPT !.got = g] \in Sent
             /\ [r EXCEPT !.got = g, !.at = at] \in Sent
             /\ [Request(r.op, r.arg) EXCEPT !.at = at] \in Sent
    <2>1. [r EXCEPT !.at = at] \in Asks(ops, args)
        BY <1>3 DEF Asks
    <2>2. [r EXCEPT !.at = at, !.seen = n] \in Asks(ops, args)
        BY <1>3 DEF Asks
    <2>3. [r EXCEPT !.off = off, !.at = at] \in Asks(ops, args)
        BY <1>3 DEF Asks
    <2>4. [r EXCEPT !.got = g] \in Asks(ops, args)
        BY <1>3 DEF Asks
    <2>5. [r EXCEPT !.got = g, !.at = at] \in Asks(ops, args)
        BY <1>3 DEF Asks
    <2>6. [Request(r.op, r.arg) EXCEPT !.at = at] \in Asks(ops, args)
        BY <1>2, <1>3 DEF Asks, Request
    <2>7. QED BY <1>3, <2>1, <2>2, <2>3, <2>4, <2>5, <2>6
<1>4. QED BY <1>3 DEF Sent

LEMMA MessageFacts ==
    ASSUME NEW m \in Message
    PROVE  /\ m.id \in Nat /\ m.kind \in {"progress", "state", "done", "reply"}
           /\ m.kind = "progress" => m.val \in Jobs \X Line
           /\ m.kind = "state" => m.val \in Jobs \X Statuses \X (0..Total) \X Nat
           /\ m.kind \in {"done", "reply"} => m.val \in Nat \cup {None}
BY DEF Message

\* A request stays what was asked.
Same(k) == k \in DOMAIN req' /\ req'[k].op = req[k].op /\ req'[k].arg = req[k].arg

\* Requests that get on, and new ones.
LEMMA RequestsKeep ==
    ASSUME TypeOK, ReqInv,
           \A k \in DOMAIN req :
               /\ Same(k)
               /\ req'[k].op = "watch" /\ req'[k].at = "read"
                  => req'[k].seen <= job'[req'[k].arg].file
               /\ req'[k].at \in {"live", "ending"} => req'[k].op = "watch"
               /\ req'[k].at = "running" => req'[k].op \in {"chat", "evalsRun"},
           \A k \in DOMAIN req' \ DOMAIN req :
               /\ req'[k].at = "sent"
               /\ req'[k].op = "unwatch"
                  => req'[k].arg \in 1..(k - 1) /\ req'[req'[k].arg].op = "watch"
    PROVE  ReqInv'
<1>1. ASSUME NEW k \in DOMAIN req, req[k].op = "unwatch"
      PROVE  req[k].arg \in 1..(k - 1) /\ req'[req[k].arg].op = "watch"
    <2>1. req[k].arg \in 1..(k - 1) /\ req[req[k].arg].op = "watch"
        BY <1>1 DEF ReqInv
    <2>2. DOMAIN req = 1..Len(req) /\ Len(req) \in Nat
        BY LenProperties DEF TypeOK
    <2>3. req[k].arg \in DOMAIN req
        BY <2>1, <2>2
    <2>4. QED BY <2>1, <2>3 DEF Same
<1>2. QED BY <1>1 DEF ReqInv, Same

\* Messages that are sent.
LEMMA RepliesKeep ==
    ASSUME TypeOK, ReplyInv, NEW ms \in Seq(Message), down' = down \o ms,
           \A k \in DOMAIN req :
               k \in DOMAIN req' /\ (req[k].at = "replied" => req'[k].at = "replied"),
           \A i \in DOMAIN ms :
               /\ ms[i].id \in DOMAIN req
               /\ ms[i].kind = "reply"
                  => /\ req[ms[i].id].at # "replied" /\ req'[ms[i].id].at = "replied"
                     /\ \A k \in DOMAIN ms :
                            ms[k].kind = "reply" /\ ms[k].id = ms[i].id => k = i
    PROVE  down' \in Seq(Message) /\ ReplyInv'
<1>1. /\ down' \in Seq(Message) /\ Len(down) \in Nat
      /\ DOMAIN down = 1..Len(down) /\ DOMAIN ms = 1..Len(ms) /\ Len(ms) \in Nat
      /\ \A i \in DOMAIN down : i \in DOMAIN down' /\ down'[i] = down[i]
      /\ \A i \in DOMAIN ms : Len(down) + i \in DOMAIN down' /\ down'[Len(down) + i] = ms[i]
      /\ \A k \in DOMAIN down' : k \in DOMAIN down \/ \E i \in DOMAIN ms : k = Len(down) + i
    BY ConcatFacts, SMTT(30) DEF TypeOK
<1>2. ASSUME NEW i \in DOMAIN down'
      PROVE  /\ down'[i].id \in DOMAIN req'
             /\ down'[i].kind = "reply"
                => /\ req'[down'[i].id].at = "replied"
                   /\ \A k \in DOMAIN down' :
                          down'[k].kind = "reply" /\ down'[k].id = down'[i].id => k = i
    <2>1. CASE i \in DOMAIN down
        <3>1. down'[i] = down[i] /\ down[i].id \in DOMAIN req
            BY <1>1, <2>1 DEF ReplyInv
        <3>2. ASSUME down[i].kind = "reply", NEW k \in DOMAIN down',
                     down'[k].kind = "reply", down'[k].id = down[i].id
              PROVE  k = i
            <4>1. req[down[i].id].at = "replied"
                BY <2>1, <3>2 DEF ReplyInv
            <4>2. CASE k \in DOMAIN down
                BY <1>1, <2>1, <3>2, <4>2 DEF ReplyInv
            <4>3. ASSUME NEW l \in DOMAIN ms, k = Len(down) + l PROVE FALSE
                BY <1>1, <3>2, <4>1, <4>3
            <4>4. QED BY <1>1, <4>2, <4>3
        <3>3. QED BY <2>1, <3>1, <3>2 DEF ReplyInv
    <2>2. ASSUME NEW l \in DOMAIN ms, i = Len(down) + l PROVE
             /\ down'[i].id \in DOMAIN req'
             /\ down'[i].kind = "reply"
                => /\ req'[down'[i].id].at = "replied"
                   /\ \A k \in DOMAIN down' :
                          down'[k].kind = "reply" /\ down'[k].id = down'[i].id => k = i
        <3>1. down'[i] = ms[l] /\ ms[l].id \in DOMAIN req
            BY <1>1, <2>2
        <3>2. ASSUME ms[l].kind = "reply", NEW k \in DOMAIN down',
                     down'[k].kind = "reply", down'[k].id = ms[l].id
              PROVE  k = i
            <4>1. req[ms[l].id].at # "replied"
                BY <3>2
            <4>2. k \notin DOMAIN down
                BY <1>1, <3>2, <4>1 DEF ReplyInv
            <4>3. PICK m \in DOMAIN ms : k = Len(down) + m
                BY <1>1, <4>2
            <4>4. m = l
                BY <1>1, <3>2, <4>3
            <4>5. QED BY <2>2, <4>3, <4>4
        <3>3. QED BY <3>1, <3>2
    <2>3. QED BY <1>1, <2>1, <2>2
<1>3. QED BY <1>1, <1>2 DEF ReplyInv

-----------------------------------------------------------------------------
(* The projection of the job that is watched.                              *)

\* Messages that do not concern the projection, or belong to another job.
LEMMA ProjectedStays ==
    ASSUME TypeOK, NEW j \in Jobs, Projected(j), NEW ms \in Seq(Message), down' = down \o ms,
           \A i \in DOMAIN ms : Relevant(ms[i]) => ms[i].val[1] # j,
           ui'.proj = ui.proj, job'[j].seg = job[j].seg, job'[j].hits = job[j].hits,
           job'[j].status = job[j].status
    PROVE  Projected(j)'
<1>1. /\ Len(down) \in Nat
      /\ DOMAIN down = 1..Len(down) /\ DOMAIN ms = 1..Len(ms) /\ Len(ms) \in Nat
      /\ \A i \in DOMAIN down : i \in DOMAIN down' /\ down'[i] = down[i]
      /\ \A i \in DOMAIN ms : Len(down) + i \in DOMAIN down' /\ down'[Len(down) + i] = ms[i]
      /\ \A k \in DOMAIN down' : k \in DOMAIN down \/ \E i \in DOMAIN ms : k = Len(down) + i
    BY ConcatFacts DEF TypeOK
<1>2. CASE \E i \in DOMAIN ms : Relevant(ms[i])
    <2>1. PICK i \in DOMAIN ms : Relevant(ms[i]) /\ ms[i].val[1] # j
        BY <1>2
    <2>2. Len(down) + i \in DOMAIN down' /\ down'[Len(down) + i] = ms[i]
        BY <1>1
    <2>3. \E k \in DOMAIN down' : down'[k].kind \in {"progress", "state"} /\ down'[k].val[1] # j
        BY <2>1, <2>2 DEF Relevant
    <2>4. QED BY <2>3 DEF Projected, Relevant
<1>3. CASE \A i \in DOMAIN ms : ~Relevant(ms[i])
    <2>1. \A k \in DOMAIN down' : Relevant(down'[k]) => k \in DOMAIN down /\ down'[k] = down[k]
        BY <1>1, <1>3
    <2>2. CASE ~(ui.proj.from \subseteq {j})
        BY <2>2 DEF Projected
    <2>3. CASE \E i \in DOMAIN down : Relevant(down[i]) /\ down[i].val[1] # j
        BY <1>1, <2>3 DEF Projected, Relevant
    <2>4. CASE Shows(j) /\ \A i \in DOMAIN down : ~Relevant(down[i])
        BY <2>1, <2>4 DEF Projected, Shows, Relevant
    <2>5. CASE \E i \in DOMAIN down :
                  /\ down[i].kind = "state"
                  /\ down[i].val = <<j, job[j].status, job[j].seg, job[j].hits>>
                  /\ \A k \in DOMAIN down : k > i => ~Relevant(down[k])
        <3>1. PICK i \in DOMAIN down :
                  /\ down[i].kind = "state"
                  /\ down[i].val = <<j, job[j].status, job[j].seg, job[j].hits>>
                  /\ \A k \in DOMAIN down : k > i => ~Relevant(down[k])
            BY <2>5
        <3>2. /\ i \in DOMAIN down' /\ down'[i].kind = "state"
              /\ down'[i].val = <<j, job'[j].status, job'[j].seg, job'[j].hits>>
            BY <1>1, <3>1
        <3>3. \A k \in DOMAIN down' : k > i => ~Relevant(down'[k])
            BY <2>1, <3>1
        <3>4. QED BY <3>2, <3>3 DEF Projected, Relevant
    <2>6. QED BY <2>2, <2>3, <2>4, <2>5 DEF Projected
<1>4. QED BY <1>2, <1>3

LEMMA PendingKeeps ==
    ASSUME ui'.selected = ui.selected,
           \A k \in DOMAIN req : Same(k) /\ (req'[k].at = "settled" => req[k].at = "settled")
    PROVE  Pending(ui.selected) => Pending(ui.selected)'
BY DEF Pending, Same

\* As long as no other job is selected.
LEMMA WatchKeeps ==
    ASSUME ExplorerInv, ui'.watching = ui.watching, ui'.selected = ui.selected,
           \A k \in DOMAIN req : Same(k),
           Pending(ui.selected) => Pending(ui.selected)',
           \A k \in DOMAIN req' \ DOMAIN req : req'[k].op # "unwatch",
           ui.watching # None => ~req'[ui.watching].off,
           \* a job changes while it has its worker, or is being started
           \A j \in Jobs : job[j].sup # "live" /\ ~Pending(j)'
                           => /\ job'[j].sup # "live" /\ job'[j].seg = job[j].seg
                              /\ job'[j].hits = job[j].hits /\ job'[j].status = job[j].status,
           \* the watch goes on to state.json when it is gone
           /\ Watched({"ending", "replied", "settled"})'
           /\ req[ui.watching].at \notin {"ending", "replied", "settled"}
           => job'[ui.selected].sup # "live",
           \* what reaches the projection
           Watched({"replied", "settled"})' /\ NoneEnding(ui.selected)'
           => \/ Projected(ui.selected)'
              \/ /\ Watched({"replied", "settled"}) /\ NoneEnding(ui.selected)
                 /\ ui'.proj = ui.proj
                 /\ \E ms \in Seq(Message) :
                        /\ down' = down \o ms
                        /\ \A i \in DOMAIN ms : Relevant(ms[i]) => ms[i].val[1] # ui.selected
    PROVE  WatchInv' /\ GoneInv' /\ ShownInv'
<1>1. TypeOK /\ WatchInv /\ GoneInv /\ ShownInv
    BY DEF ExplorerInv
<1>2. WatchInv'
    BY <1>1 DEF WatchInv, Same
<1>3. ASSUME ui.watching # None, ~Pending(ui.selected)'
      PROVE  ui.selected \in Jobs /\ ui.watching \in DOMAIN req /\ ~Pending(ui.selected)
    BY <1>1, <1>3 DEF WatchInv
<1>4. GoneInv'
    <2>1. ASSUME Watched({"ending", "replied", "settled"})' PROVE job'[ui.selected].sup # "live"
        <3>1. ui.watching # None /\ ~Pending(ui.selected)'
            BY <2>1 DEF Watched, Pending
        <3>2. CASE req[ui.watching].at \in {"ending", "replied", "settled"}
            <4>1. job[ui.selected].sup # "live"
                BY <1>1, <1>3, <3>1, <3>2 DEF GoneInv, Watched
            <4>2. QED BY <1>3, <3>1, <4>1
        <3>3. QED BY <2>1, <3>2
    <2>2. QED BY <2>1 DEF GoneInv
<1>5. ShownInv'
    <2>1. ASSUME Watched({"replied", "settled"})', NoneEnding(ui.selected)'
          PROVE  Projected(ui.selected)'
        <3>1. ui.watching # None /\ ~Pending(ui.selected)'
            BY <2>1 DEF Watched, Pending
        <3>2. CASE /\ Watched({"replied", "settled"}) /\ NoneEnding(ui.selected)
                   /\ ui'.proj = ui.proj
                   /\ \E ms \in Seq(Message) :
                          /\ down' = down \o ms
                          /\ \A i \in DOMAIN ms : Relevant(ms[i]) => ms[i].val[1] # ui.selected
            <4>1. PICK ms \in Seq(Message) :
                      /\ down' = down \o ms
                      /\ \A i \in DOMAIN ms : Relevant(ms[i]) => ms[i].val[1] # ui.selected
                BY <3>2
            <4>2. Projected(ui.selected) /\ job[ui.selected].sup # "live"
                BY <1>1, <3>2 DEF ShownInv, GoneInv, Watched
            <4>3. /\ job'[ui.selected].seg = job[ui.selected].seg
                  /\ job'[ui.selected].hits = job[ui.selected].hits
                  /\ job'[ui.selected].status = job[ui.selected].status
                BY <1>3, <3>1, <4>2
            <4>4. PICK j \in Jobs : j = ui.selected
                BY <1>3, <3>1
            <4>5. Projected(j)
                BY <4>2, <4>4 DEF Projected, Shows
            <4>6. Projected(j)'
                BY <1>1, <3>2, <4>1, <4>3, <4>4, <4>5, ProjectedStays
            <4>7. QED BY <4>4, <4>6 DEF Projected, Shows
        <3>3. QED BY <2>1, <3>2
    <2>2. QED BY <2>1 DEF ShownInv
<1>6. QED BY <1>2, <1>4, <1>5

-----------------------------------------------------------------------------
(* A request that gets on, and what it sends.                              *)

LEMMA EvalsKeep ==
    ASSUME EvalOwned, ui'.evalrun = ui.evalrun,
           \A k \in DOMAIN req : Same(k) /\ (req[k].at = "settled" => req'[k].at = "settled"),
           \A k \in DOMAIN req' \ DOMAIN req : req'[k].op # "evalsRun"
    PROVE  EvalOwned'
BY DEF EvalOwned, Same

LEMMA PutFacts ==
    ASSUME TypeOK, NEW id \in DOMAIN req, NEW r \in Sent
    PROVE  /\ [req EXCEPT ![id] = r] \in Seq(Sent)
           /\ DOMAIN [req EXCEPT ![id] = r] = DOMAIN req /\ req[id] \in Sent
BY ExceptSeq, LenProperties, ElementOfSeq DEF TypeOK

LEMMA QuietMove ==
    ASSUME ExplorerInv, NEW id \in DOMAIN req, NEW r \in Sent, req' = [req EXCEPT ![id] = r],
           r.op = req[id].op, r.arg = req[id].arg, r.off = req[id].off,
           req[id].at \in {"sent", "reading", "read", "running"},
           r.at \in {"reading", "read", "running", "replied"},
           r.at = "replied" => r.op # "watch",
           r.at = "running" => r.op \in {"chat", "evalsRun"},
           r.op = "watch" /\ r.at = "read" => r.seen <= job[r.arg].file,
           NEW ms \in Seq(Message), down' = down \o ms,
           \A i \in DOMAIN ms :
               /\ ms[i].id = id /\ ms[i].kind \in {"done", "reply"}
               /\ ms[i].kind = "reply"
                  => r.at = "replied" /\ \A k \in DOMAIN ms : ms[k].kind = "reply" => k = i,
           ui' = ui,
           \A j \in Jobs : /\ job'[j].file = job[j].file
                           /\ job'[j] = job[j] \/ (r.op = "start" /\ r.arg = j)
    PROVE  /\ req' \in Seq(Sent) /\ down' \in Seq(Message)
           /\ ReqInv' /\ ReplyInv' /\ WatchInv' /\ GoneInv' /\ ShownInv' /\ EvalOwned'
<1>1. /\ TypeOK /\ ReqInv /\ ReplyInv /\ WatchInv /\ EvalOwned
    BY DEF ExplorerInv
<1>2. /\ req' \in Seq(Sent) /\ DOMAIN req' = DOMAIN req
      /\ req'[id] = r /\ \A k \in DOMAIN req : k # id => req'[k] = req[k]
    BY <1>1, PutFacts
<1>3. \A k \in DOMAIN req : /\ Same(k) /\ (req[k].at = "settled" <=> req'[k].at = "settled")
                            /\ (req[k].at = "replied" => req'[k].at = "replied")
    BY <1>2 DEF Same
<1>4. ReqInv'
    <2>1. ASSUME NEW k \in DOMAIN req, req'[k].op = "watch", req'[k].at = "read"
          PROVE  req'[k].seen <= job'[req'[k].arg].file
        <3>1. req'[k].arg \in Jobs
            BY <1>2, <2>1, ElementOfSeq, LenProperties, SentFacts
        <3>2. CASE k = id
            BY <1>2, <2>1, <3>1, <3>2
        <3>3. CASE k # id
            BY <1>1, <1>2, <2>1, <3>1, <3>3 DEF ReqInv
        <3>4. QED BY <3>2, <3>3
    <2>2. \A k \in DOMAIN req :
              /\ req'[k].at \in {"live", "ending"} => req'[k].op = "watch"
              /\ req'[k].at = "running" => req'[k].op \in {"chat", "evalsRun"}
        BY <1>1, <1>2 DEF ReqInv
    <2>3. QED BY <1>1, <1>2, <1>3, <2>1, <2>2, RequestsKeep
<1>5. down' \in Seq(Message) /\ ReplyInv'
    <2>1. \A k \in DOMAIN req :
              k \in DOMAIN req' /\ (req[k].at = "replied" => req'[k].at = "replied")
        BY <1>2, <1>3
    <2>2. ASSUME NEW i \in DOMAIN ms
          PROVE  /\ ms[i].id \in DOMAIN req
                 /\ ms[i].kind = "reply"
                    => /\ req[ms[i].id].at # "replied" /\ req'[ms[i].id].at = "replied"
                       /\ \A k \in DOMAIN ms :
                              ms[k].kind = "reply" /\ ms[k].id = ms[i].id => k = i
        BY <1>2
    <2>3. QED BY <1>1, <2>1, <2>2, RepliesKeep
<1>6. EvalOwned'
    BY <1>1, <1>2, <1>3, EvalsKeep
<1>7. WatchInv' /\ GoneInv' /\ ShownInv'
    <2>1. ui.watching # None
          => ui.watching \in DOMAIN req /\ req[ui.watching].op = "watch" /\ ~req[ui.watching].off
             /\ ui.selected \in Jobs
        BY <1>1 DEF WatchInv
    <2>2. \A j \in Jobs : job'[j] = job[j] \/ Pending(j)'
        BY <1>2 DEF Pending
    <2>3. ui.watching # None => ~req'[ui.watching].off
        BY <1>2, <2>1
    <2>4. \A stages : Watched(stages)' /\ stages \subseteq {"ending", "replied", "settled"}
                      => Watched(stages)
        BY <1>2, <1>3, <2>1 DEF Watched, Pending, Same
    <2>5. NoneEnding(ui.selected)' => NoneEnding(ui.selected)
        BY <1>2 DEF NoneEnding
    <2>6. \A i \in DOMAIN ms : ~Relevant(ms[i])
        BY DEF Relevant
    <2>7. Watched({"ending", "replied", "settled"})'
          => req[ui.watching].at \in {"ending", "replied", "settled"}
        BY <2>4 DEF Watched
    <2>8. Watched({"replied", "settled"})' => Watched({"replied", "settled"})
        BY <2>4
    <2>9. QED BY <1>2, <1>3, <2>2, <2>3, <2>5, <2>6, <2>7, <2>8, PendingKeeps, WatchKeeps
<1>8. QED BY <1>2, <1>4, <1>5, <1>6, <1>7

-----------------------------------------------------------------------------
(* The workers.                                                            *)

LEMMA JobMoves ==
    ASSUME ExplorerInv, NEW j \in Jobs, NEW w \in Job, job' = [job EXCEPT ![j] = w],
           w.sup = job[j].sup, w.alive => job[j].alive,
           \/ job[j].alive
           \/ w.seg = job[j].seg /\ w.hits = job[j].hits /\ w.status = job[j].status,
           job[j].file <= w.file, w.file <= Len(w.log), w.fed <= Len(w.log),
           UNCHANGED <<req, down, sidecar, ui, budget>>
    PROVE  ExplorerInv'
<1>1. TypeOK /\ JobInv /\ ReqInv /\ ReplyInv /\ WatchInv /\ EvalOwned
    BY DEF ExplorerInv
<1>2. /\ job \in [Jobs -> Job] /\ job' \in [Jobs -> Job]
      /\ job'[j] = w /\ \A i \in Jobs : i # j => job'[i] = job[i]
    BY <1>1 DEF TypeOK
<1>3. TypeOK'
    BY <1>1, <1>2 DEF TypeOK, sidecar
<1>4. JobInv'
    BY <1>1, <1>2 DEF JobInv
<1>5. \A k \in DOMAIN req : Same(k)
    BY DEF Same
<1>6. ReqInv'
    <2>1. ASSUME NEW k \in DOMAIN req, req[k].op = "watch", req[k].at = "read"
          PROVE  req'[k].seen <= job'[req[k].arg].file
        <3>1. req[k] \in Sent
            BY <1>1, ElementOfSeq, LenProperties DEF TypeOK
        <3>2. req[k].arg \in Jobs /\ req[k].seen \in Nat
            BY <2>1, <3>1, SentFacts
        <3>3. req[k].seen <= job[req[k].arg].file
            BY <1>1, <2>1 DEF ReqInv
        <3>4. job[req[k].arg].file \in Nat /\ job'[req[k].arg].file \in Nat
              /\ job[req[k].arg].file <= job'[req[k].arg].file
            <4>1. \A i \in Jobs : job[i].file \in Nat /\ job'[i].file \in Nat
                BY <1>2 DEF Job
            <4>2. CASE req[k].arg = j
                BY <1>2, <4>1, <4>2
            <4>3. CASE req[k].arg # j
                BY <1>2, <3>2, <4>1, <4>3
            <4>4. QED BY <3>2, <4>1, <4>2, <4>3
        <3>5. QED BY <3>2, <3>3, <3>4
    <2>2. QED BY <1>1, <1>5, <2>1, RequestsKeep DEF ReqInv
<1>7. ReplyInv' /\ EvalOwned'
    BY <1>1 DEF ReplyInv, EvalOwned
<1>8. WatchInv' /\ GoneInv' /\ ShownInv'
    <2>1. \A i \in Jobs : job[i].sup # "live"
                          => /\ job'[i].sup # "live" /\ job'[i].seg = job[i].seg
                             /\ job'[i].hits = job[i].hits /\ job'[i].status = job[i].status
        BY <1>1, <1>2 DEF JobInv
    <2>2. /\ Watched({"replied", "settled"})' <=> Watched({"replied", "settled"})
          /\ NoneEnding(ui.selected)' <=> NoneEnding(ui.selected)
          /\ Watched({"ending", "replied", "settled"})'
             => req[ui.watching].at \in {"ending", "replied", "settled"}
        BY DEF Watched, NoneEnding, Pending
    <2>3. /\ <<>> \in Seq(Message) /\ down' = down \o <<>>
          /\ \A i \in DOMAIN <<>> : Relevant(<<>>[i]) => <<>>[i].val[1] # ui.selected
        BY <1>1, ConcatEmptySeq DEF TypeOK
    <2>4. ui.watching # None => ~req'[ui.watching].off
        BY <1>1 DEF WatchInv
    <2>5. \E ms \in Seq(Message) :
              /\ down' = down \o ms
              /\ \A i \in DOMAIN ms : Relevant(ms[i]) => ms[i].val[1] # ui.selected
        BY <2>3
    <2>6. QED BY <1>5, <2>1, <2>2, <2>4, <2>5, PendingKeeps, WatchKeeps
<1>9. QED BY <1>3, <1>4, <1>6, <1>7, <1>8 DEF ExplorerInv

LEMMA WorkersKeep ==
    ASSUME ExplorerInv, NEW j \in Jobs, Worker(j)
    PROVE  ExplorerInv'
<1>1. TypeOK /\ JobInv
    BY DEF ExplorerInv
<1>2. /\ job[j] \in Job /\ job[j].seg \in 0..Total /\ job[j].hits \in Nat
      /\ job[j].log \in Seq(Line) /\ Len(job[j].log) \in Nat
      /\ job[j].file \in Nat /\ job[j].fed \in Nat /\ job[j].kept \in Nat
      /\ job[j].file <= Len(job[j].log) /\ job[j].fed <= Len(job[j].log)
      /\ (job[j].alive => job[j].sup = "live") /\ job[j].alive \in BOOLEAN
    BY <1>1, LenProperties DEF TypeOK, JobInv, Job
<1>3. CASE Emit(j)
    <2> DEFINE n == job[j].seg + 1
               hit == n <= job[j].kept
               hits == IF hit THEN job[j].hits + 1 ELSE job[j].hits
               log == Append(job[j].log, [done |-> n, hit |-> hit])
               w == [job[j] EXCEPT !.seg = n, !.hits = hits, !.log = log]
    <2>1. n \in 0..Total /\ n \in Nat
        BY <1>2, <1>3, TotalAssumption DEF Emit
    <2>2. [done |-> n, hit |-> hit] \in Line
        BY <2>1 DEF Line
    <2>3. log \in Seq(Line) /\ Len(log) = Len(job[j].log) + 1 /\ hits \in Nat
        BY <1>2, <2>2, AppendProperties
    <2> HIDE DEF log, hits
    <2>4. w \in Job
        <3> HIDE DEF n
        <3>1. QED BY <1>2, <2>1, <2>3 DEF Job
    <2>5. /\ w.sup = job[j].sup /\ w.alive = job[j].alive /\ w.file = job[j].file
          /\ w.fed = job[j].fed /\ w.log = log
        BY <1>2 DEF Job
    <2> USE DEF log, hits
    <2>6. job' = [job EXCEPT ![j] = w]
        BY <1>3 DEF Emit
    <2>7. job[j].alive /\ UNCHANGED <<req, down, sidecar, ui, budget>>
        BY <1>3 DEF Emit
    <2> HIDE DEF w, n, hit, log, hits
    <2>8. w.file <= Len(w.log) /\ w.fed <= Len(w.log) /\ job[j].file <= w.file
        BY <1>2, <2>3, <2>5
    <2>9. QED BY <2>4, <2>5, <2>6, <2>7, <2>8, JobMoves
<1>4. CASE Persist(j)
    <2> DEFINE w == [job[j] EXCEPT !.file = @ + 1]
    <2>1. job[j].file < Len(job[j].log) /\ UNCHANGED <<req, down, sidecar, ui, budget>>
        BY <1>4 DEF Persist
    <2>2. w \in Job
        BY <1>2, SMTT(30) DEF Job
    <2>3. /\ w.sup = job[j].sup /\ w.alive = job[j].alive /\ w.file = job[j].file + 1
          /\ w.fed = job[j].fed /\ w.log = job[j].log
          /\ w.seg = job[j].seg /\ w.hits = job[j].hits /\ w.status = job[j].status
        BY <1>2 DEF Job
    <2>4. job' = [job EXCEPT ![j] = w]
        BY <1>4 DEF Persist
    <2> HIDE DEF w
    <2>5. w.file <= Len(w.log) /\ w.fed <= Len(w.log) /\ job[j].file <= w.file
        BY <1>2, <2>1, <2>3
    <2>6. QED BY <2>1, <2>2, <2>3, <2>4, <2>5, JobMoves
<1>5. CASE EndJob(j)
    <2>1. PICK s \in {"paused", "done"} :
              job' = [job EXCEPT ![j].alive = FALSE, ![j].status = s,
                                 ![j].kept = IF @ > job[j].seg THEN @ ELSE job[j].seg]
        BY <1>5 DEF EndJob
    <2> DEFINE kept == IF job[j].kept > job[j].seg THEN job[j].kept ELSE job[j].seg
               w == [job[j] EXCEPT !.alive = FALSE, !.status = s, !.kept = kept]
    <2>2. kept \in Nat
        BY <1>2, TotalAssumption
    <2>2a. w \in Job
        <3> HIDE DEF kept
        <3>1. QED BY <1>2, <2>2 DEF Job, Statuses
    <2>3. /\ w.sup = job[j].sup /\ w.alive = FALSE /\ w.file = job[j].file
          /\ w.fed = job[j].fed /\ w.log = job[j].log
        BY <1>2 DEF Job
    <2>4. job' = [job EXCEPT ![j] = w]
        BY <2>1
    <2>5. job[j].alive /\ UNCHANGED <<req, down, sidecar, ui, budget>>
        BY <1>5 DEF EndJob
    <2> HIDE DEF w
    <2>6. w.file <= Len(w.log) /\ w.fed <= Len(w.log) /\ job[j].file <= w.file
        BY <1>2, <2>3
    <2>7. QED BY <2>2a, <2>3, <2>4, <2>5, <2>6, JobMoves
<1>6. QED BY <1>3, <1>4, <1>5 DEF Worker

-----------------------------------------------------------------------------
(* The supervisors.                                                        *)

LEMMA ListenersFinite ==
    ASSUME TypeOK, NEW j
    PROVE  IsFiniteSet(Listeners(j)) /\ Listeners(j) \subseteq DOMAIN req
<1>1. IsFiniteSet(DOMAIN req)
    BY LenProperties, FS_Interval DEF TypeOK
<1>2. QED BY <1>1, FS_Subset DEF Listeners

LEMMA FeedKeeps ==
    ASSUME ExplorerInv, NEW j \in Jobs, Feed(j)
    PROVE  ExplorerInv'
<1> DEFINE n == job[j].fed + 1
           ids == SetToSeq(Listeners(j))
           ms == [i \in DOMAIN ids |-> Progress(ids[i], j, n)]
<1>1. TypeOK /\ JobInv /\ ReqInv /\ ReplyInv /\ WatchInv /\ EvalOwned
    BY DEF ExplorerInv
<1>2. /\ job[j].sup = "live" /\ n <= Len(job[j].log) /\ job' = [job EXCEPT ![j].fed = n]
      /\ req' = [id \in DOMAIN req |->
                   IF id \in Listeners(j) THEN [req[id] EXCEPT !.got = Append(@, n)]
                   ELSE req[id]]
      /\ down' = down \o ms /\ UNCHANGED <<sidecar, ui, budget>>
    BY DEF Feed, Send
<1>3. /\ job[j] \in Job /\ job[j].fed \in Nat /\ n \in Nat /\ n \in DOMAIN job[j].log
      /\ job[j].log[n] \in Line
    <2>1. job[j] \in Job /\ job[j].fed \in Nat /\ job[j].log \in Seq(Line)
        BY <1>1 DEF TypeOK, Job
    <2>2. n \in 1..Len(job[j].log) /\ DOMAIN job[j].log = 1..Len(job[j].log)
        BY <1>2, <2>1, LenProperties
    <2>3. QED BY <2>1, <2>2, ElementOfSeq
<1>4. /\ ids \in Seq(Listeners(j)) /\ DOMAIN ids = 1..Len(ids) /\ Len(ids) \in Nat
      /\ \A i \in DOMAIN ids : ids[i] \in DOMAIN req /\ ids[i] \in Nat
    <2>1. ids \in Seq(Listeners(j)) /\ DOMAIN ids = 1..Len(ids) /\ Len(ids) \in Nat
        BY <1>1, ListenersFinite, SetToSeqFacts, LenProperties
    <2>2. \A i \in DOMAIN ids : ids[i] \in Listeners(j)
        BY <2>1, ElementOfSeq
    <2>3. DOMAIN req \subseteq Nat
        BY <1>1, LenProperties DEF TypeOK
    <2>4. QED BY <1>1, <2>1, <2>2, <2>3, ListenersFinite
<1> HIDE DEF ids
<1>5. /\ ms \in Seq(Message) /\ DOMAIN ms = DOMAIN ids
      /\ \A i \in DOMAIN ms :
             ms[i].id \in DOMAIN req /\ ms[i].kind = "progress" /\ ms[i].val[1] = j
    <2> HIDE DEF n
    <2>1. \A i \in DOMAIN ids : Progress(ids[i], j, n) \in Message
        BY <1>3, <1>4 DEF Progress, Message
    <2>2. ms \in Seq(Message)
        BY <1>4, <2>1, MapFacts
    <2>3. QED BY <1>4, <2>2 DEF Progress
<1> HIDE DEF ms
<1>6. /\ job \in [Jobs -> Job] /\ job' \in [Jobs -> Job]
      /\ \A i \in Jobs : /\ job'[i].alive = job[i].alive /\ job'[i].sup = job[i].sup
                         /\ job'[i].seg = job[i].seg /\ job'[i].hits = job[i].hits
                         /\ job'[i].status = job[i].status /\ job'[i].file = job[i].file
                         /\ job'[i].log = job[i].log
                         /\ job'[i].fed = IF i = j THEN n ELSE job[i].fed
    <2> HIDE DEF n
    <2>1. QED BY <1>1, <1>2, <1>3 DEF TypeOK, Job
<1>7. /\ req' \in Seq(Sent) /\ DOMAIN req' = DOMAIN req
      /\ \A k \in DOMAIN req : /\ Same(k) /\ req'[k].at = req[k].at /\ req'[k].off = req[k].off
                               /\ req'[k].seen = req[k].seen
    <2>1. DOMAIN req = 1..Len(req) /\ Len(req) \in Nat /\ \A k \in DOMAIN req : req[k] \in Sent
        BY <1>1, LenProperties, ElementOfSeq DEF TypeOK
    <2>2. \A k \in DOMAIN req : [req[k] EXCEPT !.got = Append(@, n)] \in Sent
        <3> SUFFICES ASSUME NEW k \in DOMAIN req
                     PROVE  [req[k] EXCEPT !.got = Append(@, n)] \in Sent
            OBVIOUS
        <3>1. req[k] \in Sent /\ req[k].at \in Places /\ req[k].off \in BOOLEAN
              /\ req[k].seen \in Nat /\ Append(req[k].got, n) \in Seq(Nat)
            BY <1>3, <2>1, SentFacts, AppendProperties
        <3>2. [req[k] EXCEPT !.got = Append(req[k].got, n)] \in Sent
            BY <3>1, SentMoves
        <3>3. QED BY <3>2
    <2>3. \A k \in DOMAIN req : req'[k] \in Sent
        BY <1>2, <2>1, <2>2
    <2>4. req' \in Seq(Sent)
        BY <1>2, <2>1, <2>3, MapFacts, SMTT(30)
    <2>5. \A k \in DOMAIN req :
              req'[k] = req[k] \/ req'[k] = [req[k] EXCEPT !.got = Append(@, n)]
        BY <1>2
    <2>6. QED BY <1>2, <2>1, <2>4, <2>5, ZenonT(30) DEF Same, Sent, Asks
<1>8. ReqInv'
    <2>1. \A k \in DOMAIN req : req[k].op = "watch" => req[k].arg \in Jobs
        BY <1>1, LenProperties, ElementOfSeq, SentFacts DEF TypeOK
    <2>2. QED BY <1>1, <1>6, <1>7, <2>1, RequestsKeep DEF ReqInv, Same
<1>9. down' \in Seq(Message) /\ ReplyInv'
    BY <1>1, <1>2, <1>5, <1>7, RepliesKeep
<1>10. WatchInv' /\ GoneInv' /\ ShownInv'
    <2>1. ui.watching # None => ui.watching \in DOMAIN req /\ ui.selected \in Jobs
                                /\ ~req[ui.watching].off
        BY <1>1 DEF WatchInv
    <2>2. \A stages : Watched(stages)' <=> Watched(stages)
        BY <1>2, <1>7, <2>1 DEF Watched, Pending, Same
    <2>3. NoneEnding(ui.selected)' <=> NoneEnding(ui.selected)
        BY <1>2, <1>7 DEF NoneEnding, Same
    <2>4. Watched({"replied", "settled"}) => ui.selected # j
        BY <1>2 DEF ExplorerInv, GoneInv, Watched
    <2>5. Watched({"replied", "settled"})
          => \A i \in DOMAIN ms : Relevant(ms[i]) => ms[i].val[1] # ui.selected
        BY <1>5, <2>4
    <2>6. Watched({"ending", "replied", "settled"})'
          => req[ui.watching].at \in {"ending", "replied", "settled"}
        BY <2>2 DEF Watched
    <2>7. QED BY <1>2, <1>5, <1>6, <1>7, <2>1, <2>2, <2>3, <2>5, <2>6, PendingKeeps, WatchKeeps
<1>11. JobInv' /\ EvalOwned'
    BY <1>1, <1>2, <1>6, <1>7, EvalsKeep DEF JobInv
<1>12. TypeOK'
    BY <1>1, <1>2, <1>6, <1>7, <1>9 DEF TypeOK, sidecar
<1>13. QED BY <1>8, <1>9, <1>10, <1>11, <1>12 DEF ExplorerInv

LEMMA CloseKeeps ==
    ASSUME ExplorerInv, NEW j \in Jobs, Close(j)
    PROVE  ExplorerInv'
<1>1. TypeOK /\ JobInv /\ ReqInv /\ ReplyInv /\ WatchInv /\ EvalOwned
    BY DEF ExplorerInv
<1>2. /\ job[j].sup = "live" /\ ~job[j].alive /\ job' = [job EXCEPT ![j].sup = "exited"]
      /\ req' = [id \in DOMAIN req |->
                   IF id \in Listeners(j) THEN [req[id] EXCEPT !.at = "ending"] ELSE req[id]]
      /\ UNCHANGED <<down, sidecar, ui, budget>>
    BY DEF Close
<1>3. /\ job \in [Jobs -> Job] /\ job' \in [Jobs -> Job]
      /\ \A i \in Jobs : /\ job'[i].alive = job[i].alive
                         /\ job'[i].sup = IF i = j THEN "exited" ELSE job[i].sup
                         /\ job'[i].seg = job[i].seg /\ job'[i].hits = job[i].hits
                         /\ job'[i].status = job[i].status /\ job'[i].file = job[i].file
                         /\ job'[i].log = job[i].log /\ job'[i].fed = job[i].fed
    <2>1. job \in [Jobs -> Job] /\ [job[j] EXCEPT !.sup = "exited"] \in Job
        BY <1>1 DEF TypeOK, Job
    <2>2. \A i \in Jobs : job'[i] = IF i = j THEN [job[j] EXCEPT !.sup = "exited"] ELSE job[i]
        BY <1>2, <2>1
    <2>3. job' \in [Jobs -> Job]
        BY <1>2, <2>1
    <2>4. QED BY <2>1, <2>2, <2>3, ZenonT(30) DEF Job
<1>4. /\ req' \in Seq(Sent) /\ DOMAIN req' = DOMAIN req
      /\ \A k \in DOMAIN req :
             /\ Same(k) /\ req'[k].off = req[k].off /\ req'[k].seen = req[k].seen
             /\ req'[k].at = IF k \in Listeners(j) THEN "ending" ELSE req[k].at
    <2>1. DOMAIN req = 1..Len(req) /\ Len(req) \in Nat /\ \A k \in DOMAIN req : req[k] \in Sent
        BY <1>1, LenProperties, ElementOfSeq DEF TypeOK
    <2>2. \A k \in DOMAIN req : [req[k] EXCEPT !.at = "ending"] \in Sent
        BY <2>1, SentFacts, SentMoves DEF Places
    <2>3. \A k \in DOMAIN req : req'[k] \in Sent
        BY <1>2, <2>1, <2>2
    <2>4. req' \in Seq(Sent)
        BY <1>2, <2>1, <2>3, MapFacts
    <2>5. \A k \in DOMAIN req :
              req'[k] = IF k \in Listeners(j) THEN [req[k] EXCEPT !.at = "ending"] ELSE req[k]
        BY <1>2
    <2>6. QED BY <1>2, <2>1, <2>4, <2>5 DEF Same, Sent, Asks
<1>5. \A k \in Listeners(j) : k \in DOMAIN req /\ req[k].at = "live" /\ req[k].op = "watch"
                              /\ req[k].arg = j
    BY <1>1 DEF Listeners, ReqInv
<1>6. ReqInv'
    <2>1. \A k \in DOMAIN req : req[k].op = "watch" => req[k].arg \in Jobs
        BY <1>1, LenProperties, ElementOfSeq, SentFacts DEF TypeOK
    <2>2. QED BY <1>1, <1>3, <1>4, <1>5, <2>1, RequestsKeep DEF ReqInv, Same
<1>7. ReplyInv'
    BY <1>1, <1>2, <1>4, <1>5 DEF ReplyInv
<1>8. WatchInv' /\ GoneInv' /\ ShownInv'
    <2>1. ui.watching # None => ui.watching \in DOMAIN req /\ ui.selected \in Jobs
                                /\ ~req[ui.watching].off /\ req[ui.watching].arg = ui.selected
        BY <1>1 DEF WatchInv
    <2>2. Watched({"replied", "settled"})' => Watched({"replied", "settled"})
        BY <1>2, <1>4, <2>1 DEF Watched, Pending, Same
    <2>3. Watched({"replied", "settled"}) => ui.selected # j
        BY <1>2 DEF ExplorerInv, GoneInv, Watched
    <2>4. ui.selected # j /\ NoneEnding(ui.selected)' => NoneEnding(ui.selected)
        BY <1>2, <1>4, <1>5 DEF NoneEnding, Same
    <2>5. /\ Watched({"ending", "replied", "settled"})'
          /\ req[ui.watching].at \notin {"ending", "replied", "settled"}
          => job'[ui.selected].sup # "live"
        BY <1>2, <1>3, <1>4, <1>5, <2>1 DEF Watched
    <2>6. \E ms \in Seq(Message) :
              /\ down' = down \o ms
              /\ \A i \in DOMAIN ms : Relevant(ms[i]) => ms[i].val[1] # ui.selected
        <3>1. /\ <<>> \in Seq(Message) /\ down' = down \o <<>>
              /\ \A i \in DOMAIN <<>> : Relevant(<<>>[i]) => <<>>[i].val[1] # ui.selected
            BY <1>1, <1>2, ConcatEmptySeq DEF TypeOK
        <3>2. QED BY <3>1
    <2>7. \A k \in DOMAIN req : req[k].at = "settled" <=> req'[k].at = "settled"
        BY <1>4, <1>5
    <2>8. ui.watching # None => ~req'[ui.watching].off
        BY <1>4, <2>1
    <2>9. QED BY <1>2, <1>3, <1>4, <2>2, <2>3, <2>4, <2>5, <2>6, <2>7, <2>8, PendingKeeps, WatchKeeps
<1>9. JobInv' /\ EvalOwned'
    BY <1>1, <1>2, <1>3, <1>4, <1>5, EvalsKeep DEF JobInv
<1>10. TypeOK'
    BY <1>1, <1>2, <1>3, <1>4 DEF TypeOK, sidecar
<1>11. QED BY <1>6, <1>7, <1>8, <1>9, <1>10 DEF ExplorerInv

-----------------------------------------------------------------------------
(* The handlers.                                                           *)

Carried ==
    /\ req' \in Seq(Sent) /\ down' \in Seq(Message)
    /\ ReqInv' /\ ReplyInv' /\ WatchInv' /\ GoneInv' /\ ShownInv' /\ EvalOwned'

LEMMA JobSame == ASSUME ExplorerInv, job' = job PROVE JobInv'
BY DEF ExplorerInv, JobInv

LEMMA ReqFacts ==
    ASSUME ExplorerInv, NEW id \in DOMAIN req
    PROVE  req[id] \in Sent /\ DOMAIN req = 1..Len(req) /\ Len(req) \in Nat /\ id \in Nat
BY LenProperties, ElementOfSeq DEF ExplorerInv, TypeOK

\* An answer, and nothing else.
LEMMA ReplyQuiet ==
    ASSUME ExplorerInv, NEW id \in DOMAIN req, req[id].op # "watch",
           req[id].at \in {"sent", "reading", "read"},
           NEW v \in Nat \cup {None}, Reply(id, v), ui' = ui,
           \A j \in Jobs : /\ job'[j].file = job[j].file
                           /\ job'[j] = job[j] \/ (req[id].op = "start" /\ req[id].arg = j)
    PROVE  Carried
<1> DEFINE r == [req[id] EXCEPT !.at = "replied"]
           ms == <<Answer(id, v)>>
<1>1. req[id] \in Sent /\ id \in Nat
    BY ReqFacts
<1>2. r \in Sent
    BY <1>1, SentFacts, SentMoves, ZenonT(30) DEF Places
<1>3. /\ r.op = req[id].op /\ r.arg = req[id].arg /\ r.off = req[id].off /\ r.at = "replied"
    BY <1>1 DEF Sent, Asks
<1>4. Answer(id, v) \in Message
    BY <1>1 DEF Answer, Message
<1>5. ms \in Seq(Message) /\ DOMAIN ms = {1} /\ ms[1] = Answer(id, v)
    BY <1>4, OneFacts
<1>6. req' = [req EXCEPT ![id] = r] /\ down' = down \o ms
    BY DEF Reply, At, Send
<1> HIDE DEF r, ms
<1>7. \A i \in DOMAIN ms :
          /\ ms[i].id = id /\ ms[i].kind \in {"done", "reply"}
          /\ ms[i].kind = "reply"
             => r.at = "replied" /\ \A k \in DOMAIN ms : ms[k].kind = "reply" => k = i
    BY <1>3, <1>5 DEF Answer
<1>8. \A j \in Jobs : /\ job'[j].file = job[j].file
                      /\ job'[j] = job[j] \/ (r.op = "start" /\ r.arg = j)
    BY <1>3
<1>9. /\ req[id].at \in {"sent", "reading", "read", "running"}
      /\ r.at \in {"reading", "read", "running", "replied"} /\ r.op # "watch"
      /\ r.at # "running"
    BY <1>3
<1>10. QED BY <1>2, <1>3, <1>5, <1>6, <1>7, <1>8, <1>9, QuietMove DEF Carried

\* A handler that goes on later.
LEMMA PlaceQuiet ==
    ASSUME ExplorerInv, NEW id \in DOMAIN req, req[id].at \in {"sent", "reading", "read"},
           NEW r \in Sent, req' = [req EXCEPT ![id] = r],
           r.op = req[id].op, r.arg = req[id].arg, r.off = req[id].off,
           r.at \in {"reading", "read", "running"},
           r.at = "running" => r.op \in {"chat", "evalsRun"},
           r.op = "watch" /\ r.at = "read" => r.seen <= job[r.arg].file,
           UNCHANGED <<job, down, ui>>
    PROVE  Carried
<1>1. /\ <<>> \in Seq(Message) /\ down' = down \o <<>>
      /\ \A i \in DOMAIN <<>> :
             /\ <<>>[i].id = id /\ <<>>[i].kind \in {"done", "reply"}
             /\ <<>>[i].kind = "reply"
                => r.at = "replied" /\ \A k \in DOMAIN <<>> : <<>>[k].kind = "reply" => k = i
    BY ConcatEmptySeq DEF ExplorerInv, TypeOK
<1>2. QED BY <1>1, QuietMove, ZenonT(30) DEF Carried

LEMMA StartKeeps ==
    ASSUME ExplorerInv, NEW id \in DOMAIN req, NextUp(id), HandleStart(id),
           UNCHANGED <<ui, budget>>
    PROVE  ExplorerInv'
<1> DEFINE j == req[id].arg
<1>1. TypeOK /\ JobInv /\ req[id].op = "start" /\ req[id].at = "sent" /\ j \in Jobs
    BY ReqFacts, SentFacts DEF ExplorerInv, HandleStart, NextUp
<1>2. job' = Booted(j) /\ Reply(id, None) /\ UNCHANGED sidecar
    BY DEF HandleStart
<1> HIDE DEF j
<1>3. /\ job' \in [Jobs -> Job] /\ \A i \in Jobs : i # j => job'[i] = job[i]
      /\ job'[j].alive => job'[j].sup = "live"
      /\ job'[j].file = job[j].file /\ job'[j].fed = job[j].fed /\ job'[j].log = job[j].log
    <2>1. CASE job[j].sup = "live"
        BY <1>1, <1>2, <2>1 DEF Booted, TypeOK, JobInv
    <2>2. CASE job[j].sup # "live"
        <3> DEFINE w == [job[j] EXCEPT !.alive = TRUE, !.sup = "live", !.seg = 0, !.hits = 0,
                                       !.status = "running"]
        <3>1. job[j] \in Job
            BY <1>1 DEF TypeOK
        <3>2. /\ w \in Job /\ w.alive = TRUE /\ w.sup = "live" /\ w.file = job[j].file
              /\ w.fed = job[j].fed /\ w.log = job[j].log
            <4>1. 0 \in 0..Total /\ 0 \in Nat /\ "running" \in Statuses
                BY TotalAssumption DEF Statuses
            <4>2. QED BY <3>1, <4>1 DEF Job
        <3>3. job' = [job EXCEPT ![j] = w]
            BY <1>2, <2>2 DEF Booted
        <3> HIDE DEF w
        <3>4. QED BY <1>1, <3>2, <3>3 DEF TypeOK
    <2>3. QED BY <2>1, <2>2
<1>4. JobInv'
    BY <1>1, <1>3 DEF JobInv
<1>5. Carried
    <2>1. \A i \in Jobs : /\ job'[i].file = job[i].file
                          /\ job'[i] = job[i] \/ (req[id].op = "start" /\ req[id].arg = i)
        BY <1>1, <1>3 DEF j
    <2>2. QED BY <1>1, <1>2, <2>1, ReplyQuiet
<1>6. TypeOK'
    BY <1>1, <1>2, <1>3, <1>5 DEF TypeOK, Carried, sidecar
<1>7. QED BY <1>4, <1>5, <1>6 DEF ExplorerInv, Carried

LEMMA PlainKeeps ==
    ASSUME ExplorerInv, NEW id \in DOMAIN req, NextUp(id), HandlePlain(id) \/ HandleCached(id),
           UNCHANGED <<ui, budget>>
    PROVE  ExplorerInv'
<1>1. /\ TypeOK /\ req[id].at = "sent" /\ req[id].op # "watch" /\ UNCHANGED <<job, sidecar>>
    BY DEF ExplorerInv, HandlePlain, HandleCached, NextUp
<1>2. \E v \in Nat \cup {None} : Reply(id, v)
    BY <1>1 DEF HandlePlain, HandleCached, TypeOK
<1>3. Carried
    BY <1>1, <1>2, ReplyQuiet
<1>4. TypeOK'
    BY <1>1, <1>3 DEF TypeOK, Carried, sidecar
<1>5. QED BY <1>1, <1>3, <1>4, JobSame DEF ExplorerInv, Carried

LEMMA AwaitKeeps ==
    ASSUME ExplorerInv, NEW id \in DOMAIN req, NextUp(id), HandleAwait(id),
           UNCHANGED <<ui, budget>>
    PROVE  ExplorerInv'
<1> DEFINE at == IF req[id].op \in {"chat", "evalsRun"} THEN "running" ELSE "reading"
           r == [req[id] EXCEPT !.at = at]
<1>1. /\ TypeOK /\ req[id].at = "sent" /\ UNCHANGED <<job, down, sidecar>>
      /\ req' = [req EXCEPT ![id] = r]
    BY DEF ExplorerInv, HandleAwait, NextUp, At
<1>2. req[id] \in Sent /\ r \in Sent
    BY ReqFacts, SentFacts, SentMoves, ZenonT(30) DEF Places
<1>3. r.op = req[id].op /\ r.arg = req[id].arg /\ r.off = req[id].off /\ r.at = at
    BY <1>2 DEF Sent, Asks
<1> HIDE DEF r
<1>4. Carried
    BY <1>1, <1>2, <1>3, PlaceQuiet
<1>5. TypeOK'
    BY <1>1, <1>4 DEF TypeOK, Carried, sidecar
<1>6. QED BY <1>1, <1>4, <1>5, JobSame DEF ExplorerInv, Carried

LEMMA ReadKeeps ==
    ASSUME ExplorerInv, NEW id \in DOMAIN req, ReadLog(id) \/ Listed(id)
    PROVE  ExplorerInv'
<1> DEFINE n == IF req[id].op = "watch" THEN job[req[id].arg].file ELSE templates
           r == [req[id] EXCEPT !.at = "read", !.seen = n]
<1>1. /\ TypeOK /\ req[id].at = "reading" /\ req[id].op \in {"watch", "catalog"}
      /\ req' = [req EXCEPT ![id] = r] /\ UNCHANGED <<job, down, sidecar, ui, budget>>
    BY DEF ExplorerInv, ReadLog, Listed, sidecar
<1>2. req[id] \in Sent /\ n \in Nat
    BY <1>1, ReqFacts, SentFacts DEF TypeOK, Job
<1>3. r \in Sent
    <2> HIDE DEF n
    <2>1. QED BY <1>2, SentFacts, SentMoves DEF Places
<1>4. /\ r.op = req[id].op /\ r.arg = req[id].arg /\ r.off = req[id].off
      /\ r.at = "read" /\ r.seen = n
    <2> HIDE DEF n
    <2>1. QED BY <1>2 DEF Sent, Asks
<1> HIDE DEF r
<1>4a. r.op = "watch" => r.seen <= job[r.arg].file
    BY <1>2, <1>4
<1>5. Carried
    BY <1>1, <1>3, <1>4, <1>4a, PlaceQuiet
<1>6. TypeOK'
    BY <1>1, <1>5 DEF TypeOK, Carried, sidecar
<1>7. QED BY <1>1, <1>5, <1>6, JobSame DEF ExplorerInv, Carried

LEMMA BuiltKeeps ==
    ASSUME ExplorerInv, NEW id \in DOMAIN req, Built(id) \/ Scaffolded(id) \/ Cached(id)
    PROVE  ExplorerInv'
<1>1. TypeOK /\ req[id] \in Sent
    BY ReqFacts DEF ExplorerInv
<1>2. /\ req[id].at \in {"reading", "read"} /\ req[id].op # "watch"
      /\ UNCHANGED <<job, ui, budget>> /\ \E v \in Nat \cup {None} : Reply(id, v)
    BY <1>1, SentFacts DEF Built, Scaffolded, Cached
<1>3. Carried
    BY <1>2, ReplyQuiet
<1>4. loaded' \subseteq Runs /\ templates' \in Nat /\ catalog' \in Nat \cup {None}
    <2>1. req[id].op \in {"load", "diff"} => Needs(id) \subseteq Runs
        BY <1>1, SentFacts DEF Needs
    <2>2. req[id].seen \in Nat
        BY <1>1, SentFacts
    <2>3. QED BY <1>1, <2>1, <2>2 DEF Built, Scaffolded, Cached, TypeOK
<1>5. TypeOK'
    BY <1>1, <1>2, <1>3, <1>4 DEF TypeOK, Carried
<1>6. QED BY <1>2, <1>3, <1>5, JobSame DEF ExplorerInv, Carried

LEMMA EndTurnKeeps ==
    ASSUME ExplorerInv, NEW id \in DOMAIN req, EndTurn(id)
    PROVE  ExplorerInv'
<1> DEFINE r == [req[id] EXCEPT !.at = "replied"]
           ms == <<[id |-> id, kind |-> "done", val |-> None], Answer(id, None)>>
<1>1. /\ TypeOK /\ req[id].at = "running" /\ UNCHANGED <<job, sidecar, ui, budget>>
      /\ req' = [req EXCEPT ![id] = r] /\ down' = down \o ms
    BY DEF ExplorerInv, EndTurn, At, Send
<1>2. req[id] \in Sent /\ r \in Sent /\ id \in Nat /\ req[id].op # "watch"
    BY <1>1, ReqFacts, SentFacts, SentMoves DEF Places, ExplorerInv, ReqInv
<1>3. r.op = req[id].op /\ r.arg = req[id].arg /\ r.off = req[id].off /\ r.at = "replied"
    BY <1>2 DEF Sent, Asks
<1>4. /\ ms \in Seq(Message) /\ DOMAIN ms = {1, 2} /\ ms[1].kind = "done" /\ ms[1].id = id
      /\ ms[2].kind = "reply" /\ ms[2].id = id
    <2>1. \A i \in 1..2 : ms[i] \in Message
        BY <1>2 DEF Answer, Message
    <2>2. ms \in Seq(Message)
        BY <2>1, MapFacts
    <2>3. DOMAIN ms = {1, 2}
        OBVIOUS
    <2>4. QED BY <2>2, <2>3 DEF Answer
<1> HIDE DEF r, ms
<1>5. \A i \in DOMAIN ms :
          /\ ms[i].id = id /\ ms[i].kind \in {"done", "reply"}
          /\ ms[i].kind = "reply"
             => r.at = "replied" /\ \A k \in DOMAIN ms : ms[k].kind = "reply" => k = i
    BY <1>3, <1>4
<1>6. Carried
    BY <1>1, <1>2, <1>3, <1>4, <1>5, QuietMove DEF Carried
<1>7. TypeOK'
    BY <1>1, <1>6 DEF TypeOK, Carried, sidecar
<1>8. QED BY <1>1, <1>6, <1>7, JobSame DEF ExplorerInv, Carried

LEMMA UnwatchKeeps ==
    ASSUME ExplorerInv, NEW id \in DOMAIN req, NextUp(id), HandleUnwatch(id),
           UNCHANGED <<ui, budget>>
    PROVE  ExplorerInv'
<1> DEFINE t == req[id].arg
           ms == (IF req[t].at = "live" THEN <<Answer(t, None)>> ELSE <<>>) \o <<Answer(id, None)>>
           there == IF req[t].at = "live" THEN "replied" ELSE req[t].at
           r == [req[t] EXCEPT !.off = TRUE, !.at = there]
           s == [req[id] EXCEPT !.at = "replied"]
<1>1. /\ TypeOK /\ ReqInv /\ ReplyInv /\ WatchInv /\ EvalOwned
      /\ req[id].op = "unwatch" /\ req[id].at = "sent" /\ UNCHANGED <<job, sidecar>>
    BY DEF ExplorerInv, HandleUnwatch, NextUp
<1>2. /\ req' = [req EXCEPT ![id].at = "replied", ![t].off = TRUE,
                            ![t].at = IF @ = "live" THEN "replied" ELSE @]
      /\ down' = down \o ms
    BY DEF HandleUnwatch, Send
<1>3. t \in 1..(id - 1) /\ req[t].op = "watch" /\ ui.watching # t
    <2>1. t \in 1..(id - 1) /\ req[t].op = "watch"
        BY <1>1 DEF ReqInv
    <2>2. t # None
        BY <2>1, ReqFacts, NoneAssumption
    <2>3. QED BY <1>1, <2>1, <2>2 DEF WatchInv
<1>4. /\ DOMAIN req = 1..Len(req) /\ Len(req) \in Nat /\ id \in Nat
      /\ \A k \in DOMAIN req : req[k] \in Sent
    BY ReqFacts
<1>5. t \in DOMAIN req /\ t # id /\ t \in Nat
    BY <1>3, <1>4
<1>6. r \in Sent /\ s \in Sent
    <2>1. there \in Places
        BY <1>4, <1>5, SentFacts DEF Places
    <2>2. req[t] \in Sent /\ req[id] \in Sent
        BY <1>4, <1>5
    <2> HIDE DEF there, t
    <2>3. r \in Sent
        BY <2>1, <2>2, SentFacts, SentMoves
    <2>4. s \in Sent
        BY <2>2, SentFacts, SentMoves DEF Places
    <2>5. QED BY <2>3, <2>4
<1>7. /\ r.op = req[t].op /\ r.arg = req[t].arg /\ r.at = there /\ r.seen = req[t].seen
      /\ s.op = req[id].op /\ s.arg = req[id].arg /\ s.at = "replied" /\ s.off = req[id].off
    <2> HIDE DEF there
    <2>1. req[t] \in Sent /\ req[id] \in Sent
        BY <1>4, <1>5
    <2>2. QED BY <2>1 DEF Sent, Asks
<1>8. \A k \in DOMAIN req : req'[k] = IF k = t THEN r ELSE IF k = id THEN s ELSE req[k]
    BY <1>2, <1>4, <1>5
<1>9. DOMAIN req' = DOMAIN req /\ req' = [k \in DOMAIN req |-> req'[k]]
    BY <1>2
<1> HIDE DEF t, r, s
<1>10. req' \in Seq(Sent)
    BY <1>4, <1>6, <1>8, <1>9, MapFacts
<1>11. \A k \in DOMAIN req : /\ Same(k) /\ (req[k].at = "settled" <=> req'[k].at = "settled")
                             /\ (req[k].at = "replied" => req'[k].at = "replied")
    BY <1>1, <1>5, <1>7, <1>8, <1>9 DEF Same
<1>12. ReqInv'
    <2>1. ASSUME NEW k \in DOMAIN req
          PROVE  /\ req'[k].op = "watch" /\ req'[k].at = "read"
                    => req'[k].seen <= job'[req'[k].arg].file
                 /\ req'[k].at \in {"live", "ending"} => req'[k].op = "watch"
                 /\ req'[k].at = "running" => req'[k].op \in {"chat", "evalsRun"}
        <3>1. CASE k = t
            BY <1>1, <1>3, <1>5, <1>7, <1>8, <3>1 DEF ReqInv
        <3>2. CASE k = id
            BY <1>1, <1>5, <1>7, <1>8, <3>2
        <3>3. CASE k # t /\ k # id
            BY <1>1, <1>8, <3>3 DEF ReqInv
        <3>4. QED BY <3>1, <3>2, <3>3
    <2>2. QED BY <1>1, <1>9, <1>11, <2>1, RequestsKeep
<1>13. /\ ms \in Seq(Message)
       /\ \A i \in DOMAIN ms :
              /\ ms[i] \in {Answer(id, None)} \cup {Answer(t, None)}
              /\ ms[i] = Answer(t, None) => req[t].at = "live"
              /\ \A k \in DOMAIN ms : ms[k].id = ms[i].id => k = i
    <2>1. Answer(id, None) \in Message /\ Answer(t, None) \in Message
        BY <1>4, <1>5 DEF Answer, Message
    <2>2. Answer(id, None).id = id /\ Answer(t, None).id = t
        BY DEF Answer
    <2>3. CASE req[t].at = "live"
        <3>1. ms = <<Answer(t, None)>> \o <<Answer(id, None)>>
            BY <2>3
        <3>2. /\ ms \in Seq(Message) /\ DOMAIN ms = {1, 2}
              /\ ms[1] = Answer(t, None) /\ ms[2] = Answer(id, None)
            BY <2>1, <3>1, TwoFacts
        <3>3. QED BY <1>5, <2>2, <2>3, <3>2
    <2>4. CASE req[t].at # "live"
        <3>1. ms = <<Answer(id, None)>>
            BY <2>1, <2>4, OneFacts, ConcatEmptySeq
        <3>2. ms \in Seq(Message) /\ DOMAIN ms = {1} /\ ms[1] = Answer(id, None)
            BY <2>1, <3>1, OneFacts
        <3>3. QED BY <1>5, <2>2, <2>4, <3>2
    <2>5. QED BY <2>3, <2>4
<1> HIDE DEF ms
<1>14. down' \in Seq(Message) /\ ReplyInv'
    <2>1. \A i \in DOMAIN ms :
              /\ ms[i].id \in DOMAIN req
              /\ req[ms[i].id].at # "replied" /\ req'[ms[i].id].at = "replied"
        BY <1>1, <1>5, <1>7, <1>8, <1>13 DEF Answer
    <2>2. \A k \in DOMAIN req :
              k \in DOMAIN req' /\ (req[k].at = "replied" => req'[k].at = "replied")
        BY <1>9, <1>11
    <2>3. \A i \in DOMAIN ms :
              /\ ms[i].id \in DOMAIN req
              /\ ms[i].kind = "reply"
                 => /\ req[ms[i].id].at # "replied" /\ req'[ms[i].id].at = "replied"
                    /\ \A k \in DOMAIN ms :
                           ms[k].kind = "reply" /\ ms[k].id = ms[i].id => k = i
        BY <1>13, <2>1
    <2>4. QED BY <1>1, <1>2, <1>13, <2>2, <2>3, RepliesKeep
<1>15. WatchInv' /\ GoneInv' /\ ShownInv'
    <2>1. ui.watching # None
          => /\ ui.watching \in DOMAIN req /\ req[ui.watching].op = "watch"
             /\ ~req[ui.watching].off /\ ui.selected \in Jobs
        BY <1>1 DEF WatchInv
    <2>2. ui.watching # None => req'[ui.watching] = req[ui.watching]
        BY <1>1, <1>3, <1>8, <2>1
    <2>3. /\ Watched({"replied", "settled"})' <=> Watched({"replied", "settled"})
          /\ Watched({"ending", "replied", "settled"})'
             => req[ui.watching].at \in {"ending", "replied", "settled"}
        BY <1>9, <1>11, <2>2 DEF Watched, Pending, Same
    <2>4. NoneEnding(ui.selected)' => NoneEnding(ui.selected)
        BY <1>1, <1>7, <1>8, <1>9 DEF NoneEnding
    <2>5. \A i \in DOMAIN ms : ~Relevant(ms[i])
        BY <1>13 DEF Relevant, Answer
    <2>6. QED BY <1>1, <1>2, <1>9, <1>11, <1>13, <2>1, <2>2, <2>3, <2>4, <2>5, PendingKeeps,
                 WatchKeeps
<1>16. EvalOwned'
    BY <1>1, <1>9, <1>11, EvalsKeep
<1>17. TypeOK'
    BY <1>1, <1>10, <1>14 DEF TypeOK, sidecar
<1>18. QED BY <1>1, <1>12, <1>14, <1>15, <1>16, <1>17, JobSame DEF ExplorerInv

LEMMA ReadStateKeeps ==
    ASSUME ExplorerInv, NEW id \in DOMAIN req, ReadState(id)
    PROVE  ExplorerInv'
<1> DEFINE j == req[id].arg
           state == [id |-> id, kind |-> "state",
                     val |-> <<j, job[j].status, job[j].seg, job[j].hits>>]
           ms == <<state, Answer(id, None)>>
           r == [req[id] EXCEPT !.at = "replied"]
<1>1. /\ TypeOK /\ ReqInv /\ ReplyInv /\ WatchInv /\ EvalOwned
      /\ req[id].op = "watch" /\ req[id].at = "ending" /\ UNCHANGED <<job, sidecar, ui, budget>>
      /\ req' = [req EXCEPT ![id] = r] /\ down' = down \o ms
    BY DEF ExplorerInv, ReadState, At, Send
<1>2. req[id] \in Sent /\ r \in Sent /\ id \in Nat /\ j \in Jobs
    BY <1>1, ReqFacts, SentFacts, SentMoves DEF Places
<1>3. /\ r.op = req[id].op /\ r.arg = req[id].arg /\ r.off = req[id].off /\ r.at = "replied"
    BY <1>2 DEF Sent, Asks
<1>4. /\ ms \in Seq(Message) /\ DOMAIN ms = {1, 2} /\ ms[1] = state
      /\ ms[2] = Answer(id, None) /\ Len(ms) = 2
    <2>1. job[j] \in Job
        BY <1>1, <1>2 DEF TypeOK
    <2>2. /\ job[j].status \in Statuses /\ job[j].seg \in 0..Total /\ job[j].hits \in Nat
        BY <2>1 DEF Job
    <2>3. state \in Message /\ Answer(id, None) \in Message
        <3> HIDE DEF j
        <3>1. QED BY <1>2, <2>2 DEF Answer, Message
    <2> HIDE DEF state
    <2>4. QED BY <2>3
<1> HIDE DEF r
<1>5. /\ req' \in Seq(Sent) /\ DOMAIN req' = DOMAIN req
      /\ req'[id] = r /\ \A k \in DOMAIN req : k # id => req'[k] = req[k]
    BY <1>1, <1>2, PutFacts
<1>6. \A k \in DOMAIN req : /\ Same(k) /\ (req[k].at = "settled" <=> req'[k].at = "settled")
                            /\ (req[k].at = "replied" => req'[k].at = "replied")
                            /\ req'[k].off = req[k].off
    BY <1>1, <1>3, <1>5 DEF Same
<1>7. ReqInv'
    BY <1>1, <1>3, <1>5, <1>6, RequestsKeep DEF ReqInv
<1>8. down' \in Seq(Message) /\ ReplyInv'
    <2>1. \A i \in DOMAIN ms :
              /\ ms[i].id = id /\ (ms[i].kind = "reply" => i = 2)
        BY <1>4 DEF Answer
    <2> HIDE DEF ms
    <2>2. \A k \in DOMAIN req :
              k \in DOMAIN req' /\ (req[k].at = "replied" => req'[k].at = "replied")
        BY <1>5, <1>6
    <2>3. \A i \in DOMAIN ms :
              /\ ms[i].id \in DOMAIN req
              /\ ms[i].kind = "reply"
                 => /\ req[ms[i].id].at # "replied" /\ req'[ms[i].id].at = "replied"
                    /\ \A k \in DOMAIN ms :
                           ms[k].kind = "reply" /\ ms[k].id = ms[i].id => k = i
        BY <1>1, <1>3, <1>5, <2>1
    <2>4. ms \in Seq(Message) /\ down' = down \o ms
        BY <1>1, <1>4
    <2>5. QED BY <1>1, <2>2, <2>3, <2>4, RepliesKeep
<1>9. ASSUME ui.selected = j PROVE Projected(ui.selected)'
    <2>1. /\ Len(down) \in Nat /\ DOMAIN down = 1..Len(down)
          /\ \A i \in DOMAIN ms : Len(down) + i \in DOMAIN down' /\ down'[Len(down) + i] = ms[i]
          /\ \A k \in DOMAIN down' : k \in DOMAIN down \/ \E i \in DOMAIN ms : k = Len(down) + i
        <3>1. ms \in Seq(Message) /\ down' = down \o ms /\ down \in Seq(Message)
            BY <1>1, <1>4 DEF TypeOK
        <3> HIDE DEF ms
        <3>2. QED BY <3>1, ConcatFacts
    <2>2. Len(down) + 1 \in DOMAIN down' /\ down'[Len(down) + 1] = state
        BY <1>4, <2>1
    <2>3. \A k \in DOMAIN down' : k > Len(down) + 1 => k = Len(down) + 2
        BY <1>4, <2>1
    <2>4. down'[Len(down) + 2] = Answer(id, None)
        BY <1>4, <2>1
    <2>5. \A k \in DOMAIN down' : k > Len(down) + 1 => down'[k].kind = "reply"
        BY <2>3, <2>4 DEF Answer
    <2>6. /\ down'[Len(down) + 1].kind = "state"
          /\ down'[Len(down) + 1].val
             = <<ui'.selected, job'[ui'.selected].status, job'[ui'.selected].seg,
                 job'[ui'.selected].hits>>
        BY <1>1, <1>9, <2>2
    <2>7. QED BY <2>2, <2>5, <2>6 DEF Projected, Relevant
<1>10. WatchInv' /\ GoneInv' /\ ShownInv'
    <2>1. ui.watching # None
          => /\ ui.watching \in DOMAIN req /\ req[ui.watching].op = "watch"
             /\ ~req[ui.watching].off /\ req[ui.watching].arg = ui.selected
        BY <1>1 DEF WatchInv
    <2>2. ui.selected # j => (Watched({"replied", "settled"})' => Watched({"replied", "settled"}))
        BY <1>1, <1>5, <1>6, <2>1 DEF Watched, Pending, Same
    <2>3. ui.selected # j => (NoneEnding(ui.selected)' => NoneEnding(ui.selected))
        BY <1>1, <1>5 DEF NoneEnding
    <2>4. Watched({"ending", "replied", "settled"})'
          => req[ui.watching].at \in {"ending", "replied", "settled"}
        BY <1>1, <1>5, <2>1 DEF Watched
    <2>5. ui.selected # j => \A i \in DOMAIN ms : Relevant(ms[i]) => ms[i].val[1] # ui.selected
        BY <1>4 DEF Relevant, Answer
    <2>6. Watched({"replied", "settled"})' /\ NoneEnding(ui.selected)'
          => \/ Projected(ui.selected)'
             \/ /\ Watched({"replied", "settled"}) /\ NoneEnding(ui.selected)
                /\ ui'.proj = ui.proj
                /\ \E l \in Seq(Message) :
                       /\ down' = down \o l
                       /\ \A i \in DOMAIN l : Relevant(l[i]) => l[i].val[1] # ui.selected
        BY <1>1, <1>4, <1>9, <2>2, <2>3, <2>5
    <2>7. QED BY <1>1, <1>5, <1>6, <2>1, <2>4, <2>6, PendingKeeps, WatchKeeps
<1>11. EvalOwned'
    BY <1>1, <1>5, <1>6, EvalsKeep
<1>12. TypeOK'
    BY <1>1, <1>5, <1>8 DEF TypeOK, sidecar
<1>13. QED BY <1>1, <1>7, <1>8, <1>10, <1>11, <1>12, JobSame DEF ExplorerInv

LEMMA ReplayKeeps ==
    ASSUME ExplorerInv, NEW id \in DOMAIN req, Replay(id)
    PROVE  ExplorerInv'
<1> DEFINE j == req[id].arg
           n == req[id].seen
           live == job[j].sup = "live"
           lines == [i \in 1..n |-> Progress(id, j, i)]
           end == IF live /\ req[id].off THEN <<Answer(id, None)>> ELSE <<>>
           ms == lines \o end
           got == [i \in 1..n |-> i]
           at == IF ~live THEN "ending" ELSE IF req[id].off THEN "replied" ELSE "live"
           r == [req[id] EXCEPT !.got = got, !.at = at]
<1>1. /\ TypeOK /\ JobInv /\ ReqInv /\ ReplyInv /\ WatchInv /\ EvalOwned
      /\ req[id].op = "watch" /\ req[id].at = "read" /\ UNCHANGED <<job, sidecar, ui, budget>>
      /\ req' = [req EXCEPT ![id] = r] /\ down' = down \o ms
    BY DEF ExplorerInv, Replay, Send
<1>2. req[id] \in Sent /\ id \in Nat /\ j \in Jobs /\ n \in Nat
    BY <1>1, ReqFacts, SentFacts
<1>3. r \in Sent
    <2>1. got \in Seq(Nat)
        BY <1>2, MapFacts
    <2>2. at \in Places
        BY DEF Places
    <2> HIDE DEF got, at
    <2>3. QED BY <1>2, <2>1, <2>2, SentFacts, SentMoves
<1>4. /\ r.op = req[id].op /\ r.arg = req[id].arg /\ r.off = req[id].off /\ r.at = at
    <2> HIDE DEF got, at
    <2>1. QED BY <1>2 DEF Sent, Asks
<1>5. lines \in Seq(Message) /\ DOMAIN lines = 1..n /\ Len(lines) = n
    <2>1. /\ job[j].log \in Seq(Line) /\ job[j].file \in Nat /\ n <= job[j].file
          /\ job[j].file <= Len(job[j].log)
        BY <1>1, <1>2 DEF TypeOK, Job, JobInv, ReqInv
    <2>2. Len(job[j].log) \in Nat /\ \A i \in 1..Len(job[j].log) : job[j].log[i] \in Line
        BY <2>1, LenProperties, ElementOfSeq
    <2>3. \A i \in 1..n : job[j].log[i] \in Line
        BY <1>2, <2>1, <2>2
    <2> HIDE DEF j, n
    <2>4. \A i \in 1..n : Progress(id, j, i) \in Message
        BY <1>2, <2>3 DEF Progress, Message
    <2>5. QED BY <1>2, <2>4, MapFacts
<1>6. end \in Seq(Message)
    <2>1. Answer(id, None) \in Message
        BY <1>2 DEF Answer, Message
    <2>2. QED BY <2>1, OneFacts
<1>7. /\ ms \in Seq(Message)
      /\ \A i \in DOMAIN ms :
             \/ ms[i].id = id /\ ms[i].kind = "progress" /\ ms[i].val[1] = j
             \/ ms[i] = Answer(id, None) /\ live /\ req[id].off /\ i = n + 1
    <2>1. /\ ms \in Seq(Message)
          /\ \A i \in DOMAIN lines : ms[i] = lines[i]
          /\ \A i \in DOMAIN end : ms[n + i] = end[i]
          /\ \A k \in DOMAIN ms : k \in DOMAIN lines \/ \E i \in DOMAIN end : k = n + i
        <3>1. ms = lines \o end /\ lines \in Seq(Message) /\ Len(lines) = n
            BY <1>5
        <3> HIDE DEF ms, lines, end, n
        <3>2. PICK p \in Seq(Message) : p = lines
            BY <3>1
        <3>3. PICK q \in Seq(Message) : q = end
            BY <1>6
        <3>4. /\ p \o q \in Seq(Message) /\ ms = p \o q /\ Len(p) = n
              /\ \A i \in DOMAIN p : (p \o q)[i] = p[i]
              /\ \A i \in DOMAIN q : (p \o q)[Len(p) + i] = q[i]
              /\ \A k \in DOMAIN (p \o q) : k \in DOMAIN p \/ \E i \in DOMAIN q : k = Len(p) + i
            BY <3>1, <3>2, <3>3, ConcatFacts
        <3>5. QED BY <3>2, <3>3, <3>4
    <2>2. \A i \in DOMAIN lines :
              lines[i].id = id /\ lines[i].kind = "progress" /\ lines[i].val[1] = j
        BY DEF Progress
    <2>3. \A i \in DOMAIN end : i = 1 /\ end[i] = Answer(id, None) /\ live /\ req[id].off
        <3>1. Answer(id, None) \in Message
            BY <1>2 DEF Answer, Message
        <3>2. CASE live /\ req[id].off
            <4>1. end = <<Answer(id, None)>>
                BY <3>2
            <4> HIDE DEF end
            <4>2. DOMAIN end = {1} /\ end[1] = Answer(id, None)
                BY <3>1, <4>1, OneFacts
            <4>3. QED BY <3>2, <4>2
        <3>3. CASE ~(live /\ req[id].off)
            <4>1. end = <<>>
                BY <3>3
            <4>2. QED BY <3>1, <4>1, OneFacts
        <3>4. QED BY <3>2, <3>3
    <2> HIDE DEF ms, lines, end, n
    <2>4. QED BY <2>1, <2>2, <2>3
<1> HIDE DEF r, ms, lines, end, got
<1>8. /\ req' \in Seq(Sent) /\ DOMAIN req' = DOMAIN req
      /\ req'[id] = r /\ \A k \in DOMAIN req : k # id => req'[k] = req[k]
    BY <1>1, <1>3, PutFacts
<1>9. \A k \in DOMAIN req : /\ Same(k) /\ (req[k].at = "settled" <=> req'[k].at = "settled")
                            /\ (req[k].at = "replied" => req'[k].at = "replied")
                            /\ req'[k].off = req[k].off
    BY <1>1, <1>4, <1>8 DEF Same
<1>10. ReqInv'
    BY <1>1, <1>4, <1>8, <1>9, RequestsKeep DEF ReqInv
<1>11. down' \in Seq(Message) /\ ReplyInv'
    <2>1. \A i \in DOMAIN ms :
              ms[i].id = id /\ (ms[i].kind = "reply" => live /\ req[id].off /\ i = n + 1)
        BY <1>7 DEF Answer
    <2>2. \A k \in DOMAIN req :
              k \in DOMAIN req' /\ (req[k].at = "replied" => req'[k].at = "replied")
        BY <1>8, <1>9
    <2>3. \A i \in DOMAIN ms :
              /\ ms[i].id \in DOMAIN req
              /\ ms[i].kind = "reply"
                 => /\ req[ms[i].id].at # "replied" /\ req'[ms[i].id].at = "replied"
                    /\ \A k \in DOMAIN ms :
                           ms[k].kind = "reply" /\ ms[k].id = ms[i].id => k = i
        BY <1>1, <1>4, <1>8, <2>1
    <2>4. QED BY <1>1, <1>7, <2>2, <2>3, RepliesKeep
<1>12. WatchInv' /\ GoneInv' /\ ShownInv'
    <2>1. ui.watching # None
          => /\ ui.watching \in DOMAIN req /\ req[ui.watching].op = "watch"
             /\ ~req[ui.watching].off /\ req[ui.watching].arg = ui.selected
        BY <1>1 DEF WatchInv
    <2>2. Watched({"replied", "settled"})' => Watched({"replied", "settled"})
        BY <1>1, <1>4, <1>8, <1>9, <2>1 DEF Watched, Pending, Same
    <2>3. NoneEnding(ui.selected)' => NoneEnding(ui.selected) /\ (ui.selected = j => live)
        BY <1>1, <1>4, <1>8 DEF NoneEnding
    <2>4. Watched({"replied", "settled"}) => job[ui.selected].sup # "live"
        BY DEF ExplorerInv, GoneInv, Watched
    <2>5. Watched({"replied", "settled"})' /\ NoneEnding(ui.selected)' => ui.selected # j
        BY <2>2, <2>3, <2>4
    <2>6. ui.selected # j => \A i \in DOMAIN ms : Relevant(ms[i]) => ms[i].val[1] # ui.selected
        BY <1>7 DEF Relevant, Answer
    <2>7. Watched({"replied", "settled"})' /\ NoneEnding(ui.selected)'
          => /\ Watched({"replied", "settled"}) /\ NoneEnding(ui.selected)
             /\ ui'.proj = ui.proj
             /\ \E l \in Seq(Message) :
                    /\ down' = down \o l
                    /\ \A i \in DOMAIN l : Relevant(l[i]) => l[i].val[1] # ui.selected
        BY <1>1, <1>7, <2>2, <2>3, <2>5, <2>6
    <2>8. /\ Watched({"ending", "replied", "settled"})'
          /\ req[ui.watching].at \notin {"ending", "replied", "settled"}
          => job'[ui.selected].sup # "live"
        BY <1>1, <1>4, <1>8, <2>1 DEF Watched
    <2>9. QED BY <1>1, <1>8, <1>9, <2>1, <2>7, <2>8, PendingKeeps, WatchKeeps
<1>13. EvalOwned'
    BY <1>1, <1>8, <1>9, EvalsKeep
<1>14. TypeOK'
    BY <1>1, <1>8, <1>11 DEF TypeOK, sidecar
<1>15. QED BY <1>1, <1>10, <1>11, <1>12, <1>13, <1>14, JobSame DEF ExplorerInv

LEMMA SidecarKeeps ==
    ASSUME ExplorerInv, NEW id \in DOMAIN req, Sidecar(id)
    PROVE  ExplorerInv'
<1>1. CASE Handle(id)
    BY <1>1, StartKeeps, UnwatchKeeps, PlainKeeps, AwaitKeeps DEF Handle
<1>2. CASE ~Handle(id)
    BY <1>2, ReadKeeps, ReplayKeeps, ReadStateKeeps, EndTurnKeeps, BuiltKeeps DEF Sidecar
<1>3. QED BY <1>1, <1>2

-----------------------------------------------------------------------------
(* What the user does.                                                     *)

LEMMA RequestTypes ==
    ASSUME NEW op, NEW arg,
           \/ op \in {"start", "watch", "list"} /\ arg \in Jobs
           \/ op = "load" /\ arg \in Runs
           \/ op = "diff" /\ arg \in Runs \X Runs
           \/ op \in {"unwatch", "cancelChat", "evalsCancel"} /\ arg \in Nat
           \/ op \in {"chat", "evalsRun", "catalog", "scaffold"} /\ arg = None
    PROVE  /\ Request(op, arg) \in Sent /\ Request(op, arg).op = op /\ Request(op, arg).arg = arg
           /\ Request(op, arg).at = "sent" /\ Request(op, arg).off = FALSE
<1>1. <<>> \in Seq(Nat) /\ 0 \in Nat /\ "sent" \in Places
    BY DEF Places
<1>2. QED BY <1>1 DEF Request, Sent, Asks

LEMMA AppendedFacts ==
    ASSUME NEW q \in Seq(Sent), NEW x \in Sent, req' = q \o <<x>>
    PROVE  /\ req' \in Seq(Sent) /\ Len(q) \in Nat /\ DOMAIN q = 1..Len(q)
           /\ \A k \in DOMAIN q : k \in DOMAIN req' /\ req'[k] = q[k]
           /\ Len(q) + 1 \in DOMAIN req' /\ req'[Len(q) + 1] = x
           /\ \A k \in DOMAIN req' \ DOMAIN q : k = Len(q) + 1
<1>1. <<x>> \in Seq(Sent) /\ DOMAIN <<x>> = {1} /\ <<x>>[1] = x
    BY OneFacts
<1>2. QED BY <1>1, ConcatFacts

\* A request that is no watch.
LEMMA AskKeeps ==
    ASSUME ExplorerInv, NEW x \in Sent, x.at = "sent", x.op # "unwatch", req' = req \o <<x>>,
           UNCHANGED <<job, down, sidecar>>, ui' \in Stores, budget' \in [UserOps -> Nat],
           ui'.watching = ui.watching, ui'.selected = ui.selected, ui'.proj = ui.proj,
           \/ x.op # "evalsRun" /\ ui'.evalrun = ui.evalrun
           \/ ui.evalrun = None /\ ui'.evalrun = Len(req) + 1
    PROVE  ExplorerInv'
<1>1. /\ TypeOK /\ ReqInv /\ ReplyInv /\ WatchInv /\ EvalOwned
    BY DEF ExplorerInv
<1>2. /\ req' \in Seq(Sent) /\ Len(req) \in Nat /\ DOMAIN req = 1..Len(req)
      /\ \A k \in DOMAIN req : k \in DOMAIN req' /\ req'[k] = req[k]
      /\ \A k \in DOMAIN req' \ DOMAIN req : k = Len(req) + 1 /\ req'[k] = x
    BY <1>1, AppendedFacts DEF TypeOK
<1>3. \A k \in DOMAIN req : Same(k)
    BY <1>2 DEF Same
<1>4. ReqInv'
    BY <1>1, <1>2, <1>3, RequestsKeep, ZenonT(30) DEF ReqInv
<1>5. ReplyInv'
    BY <1>1, <1>2 DEF ReplyInv
<1>6. EvalOwned'
    <2>1. CASE x.op # "evalsRun" /\ ui'.evalrun = ui.evalrun
        BY <1>1, <1>2, <2>1 DEF EvalOwned
    <2>2. CASE ui.evalrun = None /\ ui'.evalrun = Len(req) + 1
        <3>1. \A k \in DOMAIN req : k # None
            BY <1>2, NoneAssumption
        <3>2. QED BY <1>1, <1>2, <2>2, <3>1 DEF EvalOwned
    <2>3. QED BY <2>1, <2>2
<1>7. WatchInv' /\ GoneInv' /\ ShownInv'
    <2>1. ui.watching # None => ui.watching \in DOMAIN req /\ ~req[ui.watching].off
        BY <1>1 DEF WatchInv
    <2>2. Pending(ui.selected) => Pending(ui.selected)'
        BY <1>2, <1>3, PendingKeeps
    <2>3. /\ Watched({"replied", "settled"})' => Watched({"replied", "settled"})
          /\ Watched({"ending", "replied", "settled"})'
             => req[ui.watching].at \in {"ending", "replied", "settled"}
        BY <1>2, <2>1, <2>2 DEF Watched, Pending
    <2>4. NoneEnding(ui.selected)' => NoneEnding(ui.selected)
        BY <1>2 DEF NoneEnding
    <2>5. \E ms \in Seq(Message) :
              /\ down' = down \o ms
              /\ \A i \in DOMAIN ms : Relevant(ms[i]) => ms[i].val[1] # ui.selected
        <3>1. /\ <<>> \in Seq(Message) /\ down' = down \o <<>>
              /\ \A i \in DOMAIN <<>> : Relevant(<<>>[i]) => <<>>[i].val[1] # ui.selected
            BY <1>1, ConcatEmptySeq DEF TypeOK
        <3>2. QED BY <3>1
    <2>6. QED BY <1>2, <1>3, <2>1, <2>2, <2>3, <2>4, <2>5, WatchKeeps
<1>8. TypeOK'
    BY <1>1, <1>2 DEF TypeOK, sidecar
<1>9. QED BY <1>4, <1>5, <1>6, <1>7, <1>8, JobSame DEF ExplorerInv

\* Another job is watched, or none; q are the requests less one that may just have
\* been answered.
LEMMA SelectsKeep ==
    ASSUME ExplorerInv, NEW q \in Seq(Sent), DOMAIN q = DOMAIN req,
           \A k \in DOMAIN req :
               \/ q[k] = req[k]
               \/ /\ q[k].op = req[k].op /\ q[k].arg = req[k].arg
                  /\ q[k].at = "settled" /\ q[k].op # "evalsRun",
           NEW j \in Jobs \cup {None}, req' = q \o Selects(j).sent, ui' = Selects(j).ui, job' = job
    PROVE  /\ req' \in Seq(Sent) /\ ui' \in Stores
           /\ ReqInv' /\ WatchInv' /\ GoneInv' /\ ShownInv' /\ EvalOwned'
           /\ \A k \in DOMAIN req : k \in DOMAIN req' /\ req'[k] = q[k]
<1> DEFINE cancel == IF ui.watching = None THEN <<>> ELSE <<Request("unwatch", ui.watching)>>
           watch == IF j = None THEN <<>> ELSE <<Request("watch", j)>>
           w == Len(req) + Len(cancel) + 1
<1>1. /\ TypeOK /\ ReqInv /\ WatchInv /\ EvalOwned /\ Len(req) \in Nat
      /\ DOMAIN req = 1..Len(req) /\ Len(q) = Len(req)
    BY LenProperties DEF ExplorerInv, TypeOK
<1>2. /\ req' = q \o (cancel \o watch)
      /\ ui' = [ui EXCEPT !.selected = j, !.proj = Fresh,
                          !.watching = IF j = None THEN None ELSE w]
    BY DEF Selects
<1>3. /\ cancel \in Seq(Sent) /\ Len(cancel) \in Nat
      /\ \A i \in DOMAIN cancel : /\ i = 1 /\ ui.watching # None
                                  /\ cancel[i] = Request("unwatch", ui.watching)
    <2>1. CASE ui.watching = None
        <3>1. cancel = <<>>
            BY <2>1
        <3> HIDE DEF cancel
        <3>2. QED BY <3>1, LenProperties
    <2>2. CASE ui.watching # None
        <3>1. cancel = <<Request("unwatch", ui.watching)>> /\ Request("unwatch", ui.watching) \in Sent
            BY <1>1, <2>2, RequestTypes DEF TypeOK, Stores
        <3> HIDE DEF cancel
        <3>2. QED BY <2>2, <3>1, OneFacts, LenProperties
    <2>3. QED BY <2>1, <2>2
<1>4. /\ watch \in Seq(Sent) /\ Len(watch) \in Nat
      /\ \A i \in DOMAIN watch : i = 1 /\ j # None /\ watch[i] = Request("watch", j)
      /\ j # None => 1 \in DOMAIN watch /\ watch[1] = Request("watch", j)
    <2>1. CASE j = None
        <3>1. watch = <<>>
            BY <2>1
        <3> HIDE DEF watch
        <3>2. QED BY <2>1, <3>1, LenProperties
    <2>2. CASE j # None
        <3>1. watch = <<Request("watch", j)>> /\ Request("watch", j) \in Sent
            BY <2>2, RequestTypes
        <3> HIDE DEF watch
        <3>2. QED BY <2>2, <3>1, OneFacts, LenProperties
    <2>3. QED BY <2>1, <2>2
<1> HIDE DEF cancel, watch
<1>5. PICK rs \in Seq(Sent) :
          /\ rs = cancel \o watch
          /\ \A i \in DOMAIN rs :
                 \/ i = 1 /\ ui.watching # None /\ rs[i] = Request("unwatch", ui.watching)
                 \/ i = Len(cancel) + 1 /\ j # None /\ rs[i] = Request("watch", j)
          /\ j # None => /\ Len(cancel) + 1 \in DOMAIN rs
                         /\ rs[Len(cancel) + 1] = Request("watch", j)
    <2>1. PICK a \in Seq(Sent) : a = cancel
        BY <1>3
    <2>2. PICK b \in Seq(Sent) : b = watch
        BY <1>4
    <2>3. /\ a \o b \in Seq(Sent)
          /\ \A i \in DOMAIN a : (a \o b)[i] = a[i]
          /\ \A i \in DOMAIN b : Len(a) + i \in DOMAIN (a \o b) /\ (a \o b)[Len(a) + i] = b[i]
          /\ \A k \in DOMAIN (a \o b) : k \in DOMAIN a \/ \E i \in DOMAIN b : k = Len(a) + i
        BY ConcatFacts
    <2>4. PICK c \in Seq(Sent) : c = a \o b
        BY <2>3
    <2>5. c = cancel \o watch
        BY <2>1, <2>2, <2>4
    <2>6. ASSUME NEW i \in DOMAIN c
          PROVE  \/ i = 1 /\ ui.watching # None /\ c[i] = Request("unwatch", ui.watching)
                 \/ i = Len(cancel) + 1 /\ j # None /\ c[i] = Request("watch", j)
        <3>1. CASE i \in DOMAIN a
            BY <1>3, <2>1, <2>3, <2>4, <3>1
        <3>2. CASE \E k \in DOMAIN b : i = Len(a) + k
            BY <1>4, <2>1, <2>2, <2>3, <2>4, <3>2
        <3>3. QED BY <2>3, <2>4, <3>1, <3>2
    <2>7. j # None => Len(cancel) + 1 \in DOMAIN c /\ c[Len(cancel) + 1] = Request("watch", j)
        BY <1>4, <2>1, <2>2, <2>3, <2>4
    <2>8. QED BY <2>5, <2>6, <2>7
<1>6. /\ req' \in Seq(Sent)
      /\ \A k \in DOMAIN req : k \in DOMAIN req' /\ req'[k] = q[k]
      /\ \A i \in DOMAIN rs : Len(req) + i \in DOMAIN req' /\ req'[Len(req) + i] = rs[i]
      /\ \A k \in DOMAIN req' : k \in DOMAIN req \/ \E i \in DOMAIN rs : k = Len(req) + i
    <2>1. req' = q \o rs
        BY <1>2, <1>5
    <2>2. /\ q \o rs \in Seq(Sent)
          /\ \A i \in DOMAIN q : i \in DOMAIN (q \o rs) /\ (q \o rs)[i] = q[i]
          /\ \A i \in DOMAIN rs :
                 Len(q) + i \in DOMAIN (q \o rs) /\ (q \o rs)[Len(q) + i] = rs[i]
          /\ \A k \in DOMAIN (q \o rs) :
                 k \in DOMAIN q \/ \E i \in DOMAIN rs : k = Len(q) + i
        BY ConcatFacts
    <2>3. QED BY <1>1, <2>1, <2>2
<1>7. ASSUME NEW k \in DOMAIN req', k \notin DOMAIN req
      PROVE  /\ req'[k].at = "sent" /\ k > Len(req) /\ k \in Nat
             /\ \/ /\ req'[k].op = "unwatch" /\ req'[k].arg = ui.watching /\ ui.watching # None
                \/ req'[k].op = "watch" /\ req'[k].arg = j /\ j # None /\ k = w
    <2>1. PICK i \in DOMAIN rs : k = Len(req) + i
        BY <1>6, <1>7
    <2>2. CASE i = 1 /\ ui.watching # None /\ rs[i] = Request("unwatch", ui.watching)
        <3>1. req'[k] = Request("unwatch", ui.watching) /\ k = Len(req) + 1
            BY <1>6, <2>1, <2>2
        <3>2. QED BY <1>1, <2>2, <3>1 DEF Request
    <2>3. CASE i = Len(cancel) + 1 /\ j # None /\ rs[i] = Request("watch", j)
        <3>1. req'[k] = Request("watch", j) /\ k = Len(req) + (Len(cancel) + 1)
            BY <1>6, <2>1, <2>3
        <3>2. k = w /\ k > Len(req) /\ k \in Nat
            BY <1>1, <1>3, <3>1
        <3>3. QED BY <2>3, <3>1, <3>2 DEF Request
    <2>4. QED BY <1>5, <2>2, <2>3
<1>8. j # None => /\ w \in DOMAIN req' /\ w \in Nat /\ w > Len(req)
                  /\ req'[w] = Request("watch", j)
    <2>1. w = Len(req) + (Len(cancel) + 1) /\ w \in Nat /\ w > Len(req)
        BY <1>1, <1>3
    <2> HIDE DEF w
    <2>2. QED BY <1>5, <1>6, <2>1
<1> HIDE DEF w
<1>9. ui' \in Stores
    <2>1. Fresh \in [done : Nat, cached : Nat, status : Statuses \cup {"idle"}, from : SUBSET Jobs]
        BY DEF Fresh
    <2>2. (IF j = None THEN None ELSE w) \in Nat \cup {None}
        BY <1>8
    <2>3. ui \in Stores
        BY <1>1 DEF TypeOK
    <2> HIDE DEF Fresh
    <2>4. QED BY <1>2, <2>1, <2>2, <2>3 DEF Stores
<1>10. /\ ui'.selected = j /\ ui'.watching = (IF j = None THEN None ELSE w)
       /\ ui'.evalrun = ui.evalrun
    <2>1. ui \in Stores
        BY <1>1 DEF TypeOK
    <2>2. QED BY <1>2, <2>1 DEF Stores
<1>11. ui.watching # None => ui.watching \in DOMAIN req /\ req[ui.watching].op = "watch"
    BY <1>1 DEF WatchInv
<1>12. \A k \in DOMAIN req : Same(k)
    BY <1>6 DEF Same
<1>13. ReqInv'
    <2>1. \A k \in DOMAIN req :
              /\ req'[k].op = "watch" /\ req'[k].at = "read"
                 => req'[k].seen <= job'[req'[k].arg].file
              /\ req'[k].at \in {"live", "ending"} => req'[k].op = "watch"
              /\ req'[k].at = "running" => req'[k].op \in {"chat", "evalsRun"}
        BY <1>1, <1>6 DEF ReqInv
    <2>2. ASSUME NEW k \in DOMAIN req' \ DOMAIN req, req'[k].op = "unwatch"
          PROVE  req'[k].arg \in 1..(k - 1) /\ req'[req'[k].arg].op = "watch"
        <3>1. k \in DOMAIN req' /\ k \notin DOMAIN req
            BY <2>2
        <3>2. req'[k].arg = ui.watching /\ ui.watching # None /\ k > Len(req) /\ k \in Nat
            BY <1>7, <2>2, <3>1
        <3>3. QED BY <1>1, <1>11, <1>12, <3>2 DEF Same
    <2>3. \A k \in DOMAIN req' \ DOMAIN req : req'[k].at = "sent"
        BY <1>7
    <2>4. QED BY <1>1, <1>12, <2>1, <2>2, <2>3, RequestsKeep
<1>14. WatchInv'
    <2>1. CASE j = None
        BY <1>10, <2>1 DEF WatchInv
    <2>2. CASE j # None
        <3>1. j \in Jobs /\ w # None
            BY <1>8, <2>2, NoneAssumption
        <3>2. /\ req'[w].op = "watch" /\ req'[w].arg = j /\ req'[w].off = FALSE
            BY <1>8, <2>2 DEF Request
        <3>3. ASSUME NEW k \in DOMAIN req', req'[k].op = "unwatch" PROVE req'[k].arg # w
            <4>1. CASE k \in DOMAIN req
                <5>1. req[k].op = "unwatch" /\ req'[k].arg = req[k].arg
                    BY <1>12, <3>3, <4>1 DEF Same
                <5>2. req[k].arg \in 1..(k - 1)
                    BY <1>1, <4>1, <5>1 DEF ReqInv
                <5>3. QED BY <1>1, <1>8, <2>2, <4>1, <5>1, <5>2
            <4>2. CASE k \notin DOMAIN req
                BY <1>1, <1>7, <1>8, <1>11, <2>2, <3>3, <4>2
            <4>3. QED BY <4>1, <4>2
        <3>4. QED BY <1>8, <1>10, <2>2, <3>1, <3>2, <3>3 DEF WatchInv
    <2>3. QED BY <2>1, <2>2
<1>15. GoneInv' /\ ShownInv'
    <2>1. ui'.watching # None => req'[ui'.watching].at = "sent"
        <3>1. j # None => req'[w].at = "sent"
            BY <1>8 DEF Request
        <3>2. QED BY <1>10, <3>1
    <2>2. QED BY <2>1 DEF GoneInv, ShownInv, Watched
<1>16. EvalOwned'
    <2>1. ASSUME NEW k \in DOMAIN req', req'[k].op = "evalsRun", req'[k].at # "settled"
          PROVE  ui'.evalrun = k
        <3>1. k \in DOMAIN req
            BY <1>7, <2>1
        <3>2. req'[k] = q[k]
            BY <1>6, <3>1
        <3>3. req[k].op = "evalsRun" /\ req[k].at # "settled"
            BY <2>1, <3>1, <3>2
        <3>4. QED BY <1>1, <1>10, <3>1, <3>3 DEF EvalOwned
    <2>2. QED BY <2>1 DEF EvalOwned
<1>17. QED BY <1>6, <1>9, <1>13, <1>14, <1>15, <1>16

-----------------------------------------------------------------------------
(* What arrives.                                                           *)

\* The oldest message is taken off the socket.
LEMMA TailReplies ==
    ASSUME TypeOK, ReplyInv, down # <<>>, down' = Tail(down),
           \A k \in DOMAIN req : k \in DOMAIN req',
           \A k \in DOMAIN req :
               req[k].at = "replied"
               => req'[k].at = "replied" \/ (Head(down).kind = "reply" /\ k = Head(down).id)
    PROVE  down' \in Seq(Message) /\ ReplyInv'
<1>1. /\ 1 \in DOMAIN down /\ Head(down) = down[1] /\ down' \in Seq(Message)
      /\ DOMAIN down' = 1..(Len(down) - 1) /\ Len(down) \in Nat
      /\ \A i \in DOMAIN down' : i + 1 \in DOMAIN down /\ down'[i] = down[i + 1]
    BY TailFacts DEF TypeOK
<1>2. ASSUME NEW i \in DOMAIN down'
      PROVE  /\ down'[i].id \in DOMAIN req'
             /\ down'[i].kind = "reply"
                => /\ req'[down'[i].id].at = "replied"
                   /\ \A k \in DOMAIN down' :
                          down'[k].kind = "reply" /\ down'[k].id = down'[i].id => k = i
    <2>1. i + 1 \in DOMAIN down /\ down'[i] = down[i + 1] /\ i + 1 # 1 /\ i \in Nat
        BY <1>1
    <2>2. down'[i].id \in DOMAIN req'
        BY <2>1 DEF ReplyInv
    <2>3. ASSUME down'[i].kind = "reply"
          PROVE  req'[down'[i].id].at = "replied"
        <3>1. req[down[i + 1].id].at = "replied" /\ down[i + 1].id \in DOMAIN req
            BY <2>1, <2>3 DEF ReplyInv
        <3>2. down[1].kind = "reply" => down[1].id # down[i + 1].id
            BY <1>1, <2>1, <2>3 DEF ReplyInv
        <3>3. QED BY <1>1, <2>1, <3>1, <3>2
    <2>4. ASSUME down'[i].kind = "reply", NEW k \in DOMAIN down',
                 down'[k].kind = "reply", down'[k].id = down'[i].id
          PROVE  k = i
        <3>1. k + 1 \in DOMAIN down /\ down'[k] = down[k + 1] /\ k \in Nat
            BY <1>1
        <3>2. k + 1 = i + 1
            BY <2>1, <2>4, <3>1 DEF ReplyInv
        <3>3. QED BY <2>1, <3>1, <3>2
    <2>5. QED BY <2>2, <2>3, <2>4
<1>3. QED BY <1>1, <1>2 DEF ReplyInv

\* What the oldest message does to the projection.
LEMMA ProjectedReceived ==
    ASSUME TypeOK, NEW j \in Jobs, Projected(j), down # <<>>, down' = Tail(down), job' = job,
           ~Relevant(Head(down)) => ui'.proj = ui.proj,
           Relevant(Head(down)) => ui'.proj.from = ui.proj.from \cup {Head(down).val[1]},
           Head(down).kind = "state"
           => /\ ui'.proj.status = Head(down).val[2] /\ ui'.proj.done = Head(down).val[3]
              /\ ui'.proj.cached = Head(down).val[4]
    PROVE  Projected(j)'
<1>1. /\ 1 \in DOMAIN down /\ Head(down) = down[1] /\ DOMAIN down = 1..Len(down)
      /\ DOMAIN down' = 1..(Len(down) - 1) /\ Len(down) \in Nat
      /\ \A i \in DOMAIN down' : i + 1 \in DOMAIN down /\ down'[i] = down[i + 1]
      /\ \A i \in DOMAIN down : i # 1 => i - 1 \in DOMAIN down' /\ down'[i - 1] = down[i]
    BY TailFacts DEF TypeOK
<1>2. CASE ~(ui.proj.from \subseteq {j})
    BY <1>2 DEF Projected
<1>3. ASSUME NEW i \in DOMAIN down, Relevant(down[i]), down[i].val[1] # j
      PROVE  Projected(j)'
    <2>1. CASE i = 1
        <3>1. ~(ui'.proj.from \subseteq {j})
            BY <1>1, <1>3, <2>1
        <3>2. QED BY <3>1 DEF Projected
    <2>2. CASE i # 1
        <3>1. \E k \in DOMAIN down' : down'[k].kind \in {"progress", "state"} /\ down'[k].val[1] # j
            BY <1>1, <1>3, <2>2 DEF Relevant
        <3>2. QED BY <3>1 DEF Projected, Relevant
    <2>3. QED BY <2>1, <2>2
<1>4. CASE Shows(j) /\ \A i \in DOMAIN down : ~Relevant(down[i])
    <2>1. ui'.proj = ui.proj
        BY <1>1, <1>4
    <2>2. \A i \in DOMAIN down' : ~Relevant(down'[i])
        BY <1>1, <1>4
    <2>3. QED BY <1>4, <2>1, <2>2 DEF Projected, Shows, Relevant
<1>5. ASSUME NEW i \in DOMAIN down, down[i].kind = "state",
             down[i].val = <<j, job[j].status, job[j].seg, job[j].hits>>,
             \A k \in DOMAIN down : k > i => ~Relevant(down[k])
      PROVE  Projected(j)'
    <2>1. CASE i = 1
        <3>1. /\ ui'.proj.done = job[j].seg /\ ui'.proj.cached = job[j].hits
              /\ ui'.proj.status = job[j].status
            BY <1>1, <1>5, <2>1
        <3>2. \A k \in DOMAIN down' : ~Relevant(down'[k])
            <4>1. ASSUME NEW k \in DOMAIN down' PROVE ~Relevant(down'[k])
                <5>1. k + 1 \in DOMAIN down /\ down'[k] = down[k + 1] /\ k + 1 > 1
                    BY <1>1
                <5>2. QED BY <1>5, <2>1, <5>1
            <4>2. QED BY <4>1
        <3>3. QED BY <3>1, <3>2 DEF Projected, Shows, Relevant
    <2>2. CASE i # 1
        <3>1. i - 1 \in DOMAIN down' /\ down'[i - 1] = down[i] /\ i \in Nat
            BY <1>1, <2>2
        <3>2. \A k \in DOMAIN down' : k > i - 1 => ~Relevant(down'[k])
            <4>1. ASSUME NEW k \in DOMAIN down', k > i - 1 PROVE ~Relevant(down'[k])
                <5>1. k + 1 \in DOMAIN down /\ down'[k] = down[k + 1] /\ k + 1 > i
                    BY <1>1, <3>1, <4>1
                <5>2. QED BY <1>5, <5>1
            <4>2. QED BY <4>1
        <3>3. \E l \in DOMAIN down' :
                  /\ down'[l].kind = "state"
                  /\ down'[l].val = <<j, job'[j].status, job'[j].seg, job'[j].hits>>
                  /\ \A k \in DOMAIN down' : k > l => ~Relevant(down'[k])
            BY <1>5, <3>1, <3>2
        <3>4. QED BY <3>3 DEF Projected, Relevant
    <2>3. QED BY <2>1, <2>2
<1>6. QED BY <1>2, <1>3, <1>4, <1>5 DEF Projected

LEMMA EventKeeps ==
    ASSUME ExplorerInv, down # <<>>, down' = Tail(down), ReceiveEvent,
           UNCHANGED <<job, sidecar, budget>>
    PROVE  ExplorerInv'
<1> DEFINE m == Head(down)
<1>1. /\ TypeOK /\ ReqInv /\ ReplyInv /\ WatchInv /\ EvalOwned /\ ShownInv
      /\ m.kind # "reply" /\ req' = req
    BY DEF ExplorerInv, ReceiveEvent
<1>2. m \in Message
    BY <1>1, TailFacts, ElementOfSeq DEF TypeOK
<1>3. ui \in Stores
    BY <1>1 DEF TypeOK
<1>4. /\ ui' \in Stores /\ ui'.watching = ui.watching /\ ui'.selected = ui.selected
      /\ ui'.evalrun = ui.evalrun
      /\ ~Relevant(m) => ui'.proj = ui.proj
      /\ Relevant(m) => ui'.proj.from = ui.proj.from \cup {m.val[1]}
      /\ m.kind = "state"
         => /\ ui'.proj.status = m.val[2] /\ ui'.proj.done = m.val[3]
            /\ ui'.proj.cached = m.val[4]
    <2>1. CASE m.kind = "progress"
        <3>1. m.val[1] \in Jobs /\ m.val[2].done \in Nat
            BY <1>2, <2>1, MessageFacts DEF Line
        <3>2. ui' = [ui EXCEPT !.proj = ReduceEvent(ui.proj, m.val[1], m.val[2])]
            BY <2>1 DEF ReceiveEvent
        <3>3. /\ ReduceEvent(ui.proj, m.val[1], m.val[2])
                     \in [done : Nat, cached : Nat, status : Statuses \cup {"idle"}, from : SUBSET Jobs]
              /\ ReduceEvent(ui.proj, m.val[1], m.val[2]).from = ui.proj.from \cup {m.val[1]}
            BY <1>3, <3>1 DEF ReduceEvent, Stores, Statuses
        <3> HIDE DEF m
        <3>4. QED BY <1>3, <2>1, <3>2, <3>3 DEF Stores, Relevant
    <2>2. CASE m.kind = "state"
        <3>1. m.val \in Jobs \X Statuses \X (0..Total) \X Nat
            BY <1>2, <2>2, MessageFacts
        <3> DEFINE p == ReduceState(ui.proj, m.val[1], m.val[2], m.val[3], m.val[4])
        <3>2. ui' = [ui EXCEPT !.proj = p]
            BY <2>2 DEF ReceiveEvent
        <3>3. /\ p \in [done : Nat, cached : Nat, status : Statuses \cup {"idle"}, from : SUBSET Jobs]
              /\ p.from = ui.proj.from \cup {m.val[1]} /\ p.status = m.val[2]
              /\ p.done = m.val[3] /\ p.cached = m.val[4]
            <4>1. /\ m.val[1] \in Jobs /\ m.val[2] \in Statuses /\ m.val[3] \in Nat
                  /\ m.val[4] \in Nat /\ ui.proj.from \subseteq Jobs
                BY <1>3, <3>1, TotalAssumption DEF Stores
            <4>2. QED BY <4>1 DEF ReduceState
        <3> HIDE DEF m, p
        <3>4. QED BY <1>3, <2>2, <3>2, <3>3 DEF Stores, Relevant
    <2>3. CASE m.kind = "done"
        <3>1. ui' = [ui EXCEPT !.chat = None] \/ ui' = ui
            BY <2>3 DEF ReceiveEvent
        <3> HIDE DEF m
        <3>2. QED BY <1>3, <2>3, <3>1 DEF Stores, Relevant
    <2>4. QED BY <1>1, <1>2, <2>1, <2>2, <2>3, MessageFacts
<1> HIDE DEF m
<1>5. down' \in Seq(Message) /\ ReplyInv'
    BY <1>1, TailReplies
<1>6. ReqInv' /\ EvalOwned'
    BY <1>1, <1>4 DEF ReqInv, EvalOwned
<1>7. WatchInv' /\ GoneInv' /\ ShownInv'
    <2>1. /\ Watched({"replied", "settled"})' => Watched({"replied", "settled"})
          /\ Watched({"ending", "replied", "settled"})'
             => req[ui.watching].at \in {"ending", "replied", "settled"}
          /\ NoneEnding(ui.selected)' => NoneEnding(ui.selected)
          /\ Pending(ui.selected) => Pending(ui.selected)'
        BY <1>1, <1>4 DEF Watched, Pending, NoneEnding
    <2>2. ASSUME Watched({"replied", "settled"})', NoneEnding(ui.selected)'
          PROVE  Projected(ui.selected)'
        <3>1. Projected(ui.selected) /\ ui.selected \in Jobs
            BY <1>1, <2>1, <2>2 DEF ShownInv, WatchInv, Watched
        <3>2. PICK j \in Jobs : j = ui.selected
            BY <3>1
        <3>3. Projected(j)
            BY <3>1, <3>2
        <3>4. Projected(j)'
            BY <1>1, <1>4, <3>3, ProjectedReceived DEF m
        <3>5. QED BY <1>4, <3>2, <3>4 DEF Projected, Shows
    <2>3. /\ \A k \in DOMAIN req : Same(k)
          /\ ui.watching # None => ~req'[ui.watching].off
        BY <1>1 DEF Same, WatchInv
    <2>4. QED BY <1>1, <1>4, <2>1, <2>2, <2>3, WatchKeeps
<1>8. TypeOK'
    BY <1>1, <1>4, <1>5 DEF TypeOK, sidecar
<1>9. QED BY <1>5, <1>6, <1>7, <1>8, JobSame DEF ExplorerInv

\* A request that is answered, and what its answer makes the renderer ask.
LEMMA ReplyKeeps ==
    ASSUME ExplorerInv, down # <<>>, down' = Tail(down), ReceiveReply,
           UNCHANGED <<job, sidecar, budget>>
    PROVE  ExplorerInv'
<1> DEFINE m == Head(down)
<1>1. /\ TypeOK /\ ReqInv /\ ReplyInv /\ WatchInv /\ EvalOwned
      /\ m.kind = "reply"
    BY DEF ExplorerInv, ReceiveReply
<1>2. m \in Message /\ m.val \in Nat \cup {None}
    BY <1>1, TailFacts, ElementOfSeq, MessageFacts DEF TypeOK
<1>3. PICK n \in DOMAIN req : n = m.id /\ req[n].at = "replied"
    BY <1>1, TailFacts DEF TypeOK, ReplyInv
<1>4. req[n] \in Sent /\ DOMAIN req = 1..Len(req) /\ Len(req) \in Nat
    BY <1>3, ReqFacts
<1>5. PICK r \in Sent : /\ r = [Request(req[n].op, req[n].arg) EXCEPT !.at = "settled"]
                        /\ r.op = req[n].op /\ r.arg = req[n].arg
                        /\ r.at = "settled" /\ r.off = FALSE
    <2>1. "settled" \in Places /\ FALSE \in BOOLEAN /\ 0 \in Nat /\ <<>> \in Seq(Nat)
        BY DEF Places
    <2>2. [Request(req[n].op, req[n].arg) EXCEPT !.at = "settled"] \in Sent
        BY <1>4, <2>1, SentMoves
    <2>3. QED BY <2>2 DEF Request
<1>6. Settled(n) = [req EXCEPT ![n] = r]
    BY <1>5 DEF Settled
<1>7. PICK q \in Seq(Sent) :
          /\ q = Settled(n) /\ DOMAIN q = DOMAIN req
          /\ q[n].op = req[n].op /\ q[n].arg = req[n].arg /\ q[n].at = "settled" /\ q[n].off = FALSE
          /\ \A k \in DOMAIN req : k # n => q[k] = req[k]
    <2>1. /\ Settled(n) \in Seq(Sent) /\ DOMAIN Settled(n) = DOMAIN req /\ Settled(n)[n] = r
          /\ \A k \in DOMAIN req : k # n => Settled(n)[k] = req[k]
        <3>1. [req EXCEPT ![n] = r] \in Seq(Sent) /\ DOMAIN [req EXCEPT ![n] = r] = DOMAIN req
            BY <1>1, PutFacts
        <3>2. QED BY <1>6, <3>1
    <2>2. QED BY <1>5, <2>1
<1>8. ui \in Stores
    BY <1>1 DEF TypeOK
<1>9. ASSUME \A k \in DOMAIN req : k \in DOMAIN req' /\ req'[k] = q[k]
      PROVE  down' \in Seq(Message) /\ ReplyInv'
    BY <1>1, <1>3, <1>7, <1>9, TailReplies DEF m
<1>10. CASE req[n].op = "list" /\ ui.selected = req[n].arg
    <2>1. PICK j \in Jobs \cup {None} : j = req[n].arg
        BY <1>4, <1>10, SentFacts
    <2>2. req' = q \o Selects(j).sent /\ ui' = Selects(j).ui
        BY <1>3, <1>7, <1>10, <2>1 DEF ReceiveReply
    <2>3. \A k \in DOMAIN req :
              \/ q[k] = req[k]
              \/ /\ q[k].op = req[k].op /\ q[k].arg = req[k].arg
                 /\ q[k].at = "settled" /\ q[k].op # "evalsRun"
        BY <1>7, <1>10
    <2> HIDE DEF m
    <2>4. /\ req' \in Seq(Sent) /\ ui' \in Stores
          /\ ReqInv' /\ WatchInv' /\ GoneInv' /\ ShownInv' /\ EvalOwned'
          /\ \A k \in DOMAIN req : k \in DOMAIN req' /\ req'[k] = q[k]
        BY <1>7, <2>2, <2>3, SelectsKeep
    <2>5. down' \in Seq(Message) /\ ReplyInv'
        BY <1>9, <2>4
    <2>6. TypeOK'
        BY <1>1, <2>4, <2>5 DEF TypeOK, sidecar
    <2>7. QED BY <2>4, <2>5, <2>6, JobSame DEF ExplorerInv
<1>11. CASE ~(req[n].op = "list" /\ ui.selected = req[n].arg)
    <2>1. /\ req' \in Seq(Sent)
          /\ \A k \in DOMAIN req : k \in DOMAIN req' /\ req'[k] = q[k]
          /\ \A k \in DOMAIN req' \ DOMAIN req :
                 req'[k].op = "list" /\ req'[k].at = "sent"
          /\ req[n].op = "start"
             => \E k \in DOMAIN req' : req'[k].op = "list" /\ req'[k].arg = req[n].arg
                                       /\ req'[k].at = "sent"
        <3>1. CASE req[n].op = "start"
            <4>1. PICK j \in Jobs : j = req[n].arg
                BY <1>4, <3>1, SentFacts
            <4>2. Request("list", j) \in Sent
                BY RequestTypes
            <4>3. PICK x \in Sent : /\ x = Request("list", req[n].arg) /\ x.op = "list"
                                    /\ x.arg = req[n].arg /\ x.at = "sent"
                BY <4>1, <4>2 DEF Request
            <4>4. req' = q \o <<x>>
                BY <1>3, <1>7, <1>11, <3>1, <4>3 DEF ReceiveReply
            <4> HIDE DEF m
            <4>5. /\ req' \in Seq(Sent)
                  /\ \A k \in DOMAIN q : k \in DOMAIN req' /\ req'[k] = q[k]
                  /\ Len(q) + 1 \in DOMAIN req' /\ req'[Len(q) + 1] = x
                  /\ \A k \in DOMAIN req' \ DOMAIN q : k = Len(q) + 1
                BY <4>4, AppendedFacts
            <4>6. QED BY <1>7, <4>3, <4>5
        <3>2. CASE req[n].op # "start"
            <4>1. req' = q \o <<>>
                BY <1>3, <1>7, <1>11, <3>2 DEF ReceiveReply
            <4> HIDE DEF m
            <4>2. req' = q
                BY <1>7, <4>1, ConcatEmptySeq
            <4>3. QED BY <1>7, <3>2, <4>2
        <3>3. QED BY <3>1, <3>2
    <2>2. /\ ui' \in Stores /\ ui'.watching = ui.watching /\ ui'.selected = ui.selected
          /\ ui'.proj = ui.proj
          /\ ui'.evalrun = (IF req[n].op = "evalsRun" THEN None ELSE ui.evalrun)
        <3>1. ui' = CASE req[n].op = "evalsRun" -> [ui EXCEPT !.evalrun = None]
                      [] req[n].op = "load" -> [ui EXCEPT !.run = req[n].arg]
                      [] req[n].op = "diff" -> [ui EXCEPT !.diff = req[n].arg]
                      [] req[n].op = "catalog" -> [ui EXCEPT !.catalog = m.val]
                      [] OTHER -> ui
            BY <1>3, <1>11 DEF ReceiveReply
        <3>2. /\ req[n].op = "load" => req[n].arg \in Runs
              /\ req[n].op = "diff" => req[n].arg \in Runs \X Runs
            BY <1>4, SentFacts
        <3> HIDE DEF m
        <3>3. CASE req[n].op = "evalsRun"
            BY <1>8, <3>1, <3>3 DEF Stores
        <3>4. CASE req[n].op = "load"
            BY <1>8, <3>1, <3>2, <3>4, ZenonT(30) DEF Stores
        <3>5. CASE req[n].op = "diff"
            BY <1>8, <3>1, <3>2, <3>5, ZenonT(30) DEF Stores
        <3>6. CASE req[n].op = "catalog"
            BY <1>2, <1>8, <3>1, <3>6, ZenonT(30) DEF Stores
        <3>7. CASE req[n].op \notin {"evalsRun", "load", "diff", "catalog"}
            BY <1>8, <3>1, <3>7
        <3>8. QED BY <3>3, <3>4, <3>5, <3>6, <3>7
    <2> HIDE DEF m
    <2>3. \A k \in DOMAIN req : Same(k) /\ (req[k].at = "settled" => req'[k].at = "settled")
        BY <1>3, <1>7, <2>1 DEF Same
    <2>4. ReqInv'
        <3>1. \A k \in DOMAIN req :
                  /\ req'[k].op = "watch" /\ req'[k].at = "read"
                     => req'[k].seen <= job'[req'[k].arg].file
                  /\ req'[k].at \in {"live", "ending"} => req'[k].op = "watch"
                  /\ req'[k].at = "running" => req'[k].op \in {"chat", "evalsRun"}
            <4>1. ASSUME NEW k \in DOMAIN req, k # n
                  PROVE  req'[k] = req[k]
                BY <1>7, <2>1, <4>1
            <4>2. req'[n].at = "settled"
                BY <1>7, <2>1
            <4>3. QED BY <1>1, <4>1, <4>2 DEF ReqInv
        <3>2. QED BY <1>1, <2>1, <2>3, <3>1, RequestsKeep
    <2>5. down' \in Seq(Message) /\ ReplyInv'
        BY <1>9, <2>1
    <2>6. EvalOwned'
        <3>1. ASSUME NEW k \in DOMAIN req', req'[k].op = "evalsRun", req'[k].at # "settled"
              PROVE  ui'.evalrun = k
            <4>1. k \in DOMAIN req
                BY <2>1, <3>1
            <4>2. k # n /\ req'[k] = req[k]
                BY <1>7, <2>1, <3>1, <4>1
            <4>3. ui.evalrun = k
                BY <1>1, <3>1, <4>1, <4>2 DEF EvalOwned
            <4>4. req[n].op = "evalsRun" => ui.evalrun = n
                BY <1>1, <1>3 DEF EvalOwned
            <4>5. QED BY <2>2, <4>2, <4>3, <4>4
        <3>2. QED BY <3>1 DEF EvalOwned
    <2>7. WatchInv' /\ GoneInv' /\ ShownInv'
        <3>1. ui.watching # None => /\ ui.watching \in DOMAIN req /\ ~req[ui.watching].off
                                    /\ ~req'[ui.watching].off
            BY <1>1, <1>7, <2>1 DEF WatchInv
        <3>2. Pending(ui.selected) => Pending(ui.selected)'
            <4>1. ASSUME NEW k \in DOMAIN req, req[k].op \in {"start", "list"},
                         req[k].arg = ui.selected, req[k].at # "settled"
                  PROVE  \E i \in DOMAIN req' : /\ req'[i].op \in {"start", "list"}
                                                /\ req'[i].arg = ui.selected /\ req'[i].at # "settled"
                <5>1. CASE k # n
                    BY <1>7, <2>1, <4>1, <5>1
                <5>2. CASE k = n
                    <6>1. req[n].op = "start"
                        BY <1>11, <4>1, <5>2
                    <6>2. QED BY <2>1, <4>1, <5>2, <6>1
                <5>3. QED BY <5>1, <5>2
            <4>2. QED BY <2>2, <4>1 DEF Pending
        <3>3. /\ Watched({"replied", "settled"})' => Watched({"replied", "settled"})
              /\ Watched({"ending", "replied", "settled"})'
                 => req[ui.watching].at \in {"ending", "replied", "settled"}
            BY <1>3, <1>7, <2>1, <2>2, <3>1, <3>2 DEF Watched, Pending
        <3>4. NoneEnding(ui.selected)' => NoneEnding(ui.selected)
            <4>1. \A k \in DOMAIN req : req[k].at = "ending" => req'[k] = req[k]
                BY <1>3, <1>7, <2>1
            <4>2. QED BY <2>1, <2>2, <4>1 DEF NoneEnding
        <3>5. ASSUME Watched({"replied", "settled"})', NoneEnding(ui.selected)'
              PROVE  Projected(ui.selected)'
            <4>1. Projected(ui.selected) /\ ui.selected \in Jobs
                BY <1>1, <3>3, <3>4, <3>5 DEF ExplorerInv, ShownInv, WatchInv, Watched
            <4>2. PICK j \in Jobs : j = ui.selected
                BY <4>1
            <4>3. Projected(j)
                BY <4>1, <4>2
            <4>4. ~Relevant(Head(down)) /\ Head(down).kind # "state"
                BY <1>1 DEF m, Relevant
            <4>5. Projected(j)'
                BY <1>1, <2>2, <4>3, <4>4, ProjectedReceived
            <4>6. QED BY <2>2, <4>2, <4>5 DEF Projected, Shows
        <3>6. \A k \in DOMAIN req' \ DOMAIN req : req'[k].op # "unwatch"
            BY <2>1
        <3>7. QED BY <2>2, <2>3, <3>1, <3>2, <3>3, <3>4, <3>5, <3>6, WatchKeeps
    <2>8. TypeOK'
        BY <1>1, <2>1, <2>2, <2>5 DEF TypeOK, sidecar
    <2>9. QED BY <2>4, <2>5, <2>6, <2>7, <2>8, JobSame DEF ExplorerInv
<1>12. QED BY <1>10, <1>11

-----------------------------------------------------------------------------
(* The steps of the user, and every step.                                  *)

LEMMA SelectKeeps ==
    ASSUME ExplorerInv, NEW j \in Jobs \cup {None}, Select(j)
    PROVE  ExplorerInv'
<1>1. TypeOK /\ ReplyInv
    BY DEF ExplorerInv
<1>2. /\ req' \in Seq(Sent) /\ ui' \in Stores
      /\ ReqInv' /\ WatchInv' /\ GoneInv' /\ ShownInv' /\ EvalOwned'
      /\ \A k \in DOMAIN req : k \in DOMAIN req' /\ req'[k] = req[k]
    BY <1>1, SelectsKeep DEF TypeOK, Select, Issue, Idle
<1>3. ReplyInv'
    BY <1>1, <1>2 DEF ReplyInv, Select, Idle
<1>4. TypeOK'
    <2>1. budget' \in [UserOps -> Nat]
        BY <1>1 DEF TypeOK, Select, Spend, UserOps
    <2>2. QED BY <1>1, <1>2, <2>1 DEF TypeOK, Select, Idle, sidecar
<1>5. QED BY <1>2, <1>3, <1>4, JobSame DEF ExplorerInv, Select, Idle

LEMMA UserKeeps ==
    ASSUME ExplorerInv, User
    PROVE  ExplorerInv'
<1>1. TypeOK /\ Len(req) \in Nat /\ ui \in Stores
    BY LenProperties DEF ExplorerInv, TypeOK
<1>2. ASSUME NEW op \in UserOps, Spend(op) PROVE budget' \in [UserOps -> Nat]
    BY <1>1, <1>2 DEF TypeOK, Spend
<1>3. ASSUME NEW j \in Jobs, Resume(j) PROVE ExplorerInv'
    <2>1. Spend("resume") /\ "resume" \in UserOps /\ Idle
        BY <1>3 DEF Resume, UserOps
    <2>2. budget' \in [UserOps -> Nat]
        BY <1>2, <2>1
    <2>3. PICK x \in Sent : x = Request("start", j) /\ x.op = "start" /\ x.at = "sent"
        <3>1. Request("start", j) \in Sent
            BY RequestTypes
        <3>2. QED BY <3>1 DEF Request
    <2>4. req' = req \o <<x>>
        BY <1>3, <2>3 DEF Resume, Issue
    <2>5. /\ ui' \in Stores /\ ui'.watching = ui.watching /\ ui'.selected = ui.selected
          /\ ui'.proj = ui.proj
          /\ ui'.evalrun = ui.evalrun
        BY <1>1, <1>3 DEF Resume, Stores
    <2>6. QED BY <2>1, <2>2, <2>3, <2>4, <2>5, AskKeeps DEF Idle
<1>4. CASE SendChat
    <2>1. Spend("chat") /\ "chat" \in UserOps /\ Idle
        BY <1>4 DEF SendChat, UserOps
    <2>2. budget' \in [UserOps -> Nat]
        BY <1>2, <2>1
    <2>3. PICK x \in Sent : x = Request("chat", None) /\ x.op = "chat" /\ x.at = "sent"
        <3>1. Request("chat", None) \in Sent
            BY RequestTypes
        <3>2. QED BY <3>1 DEF Request
    <2>4. req' = req \o <<x>>
        BY <1>4, <2>3 DEF SendChat, Issue
    <2>5. /\ ui' \in Stores /\ ui'.watching = ui.watching /\ ui'.selected = ui.selected
          /\ ui'.proj = ui.proj
          /\ ui'.evalrun = ui.evalrun
        BY <1>1, <1>4 DEF SendChat, Stores
    <2>6. QED BY <2>1, <2>2, <2>3, <2>4, <2>5, AskKeeps DEF Idle
<1>5. CASE CancelChat
    <2>1. Spend("cancelChat") /\ "cancelChat" \in UserOps /\ Idle
        BY <1>5 DEF CancelChat, UserOps
    <2>2. budget' \in [UserOps -> Nat]
        BY <1>2, <2>1
    <2>3. ui.chat \in Nat
        BY <1>1, <1>5 DEF CancelChat, Stores
    <2>4. PICK x \in Sent : x = Request("cancelChat", ui.chat) /\ x.op = "cancelChat" /\ x.at = "sent"
        <3>1. Request("cancelChat", ui.chat) \in Sent
            BY <2>3, RequestTypes
        <3>2. QED BY <3>1 DEF Request
    <2>5. req' = req \o <<x>>
        BY <1>5, <2>4 DEF CancelChat, Issue
    <2>6. /\ ui' \in Stores /\ ui'.watching = ui.watching /\ ui'.selected = ui.selected
          /\ ui'.proj = ui.proj
          /\ ui'.evalrun = ui.evalrun
        BY <1>1, <1>5 DEF CancelChat, Stores
    <2>7. QED BY <2>1, <2>2, <2>4, <2>5, <2>6, AskKeeps DEF Idle
<1>6. CASE RunQuestions
    <2>1. Spend("eval") /\ "eval" \in UserOps /\ Idle
        BY <1>6 DEF RunQuestions, UserOps
    <2>2. budget' \in [UserOps -> Nat]
        BY <1>2, <2>1
    <2>3. PICK x \in Sent : x = Request("evalsRun", None) /\ x.op = "evalsRun" /\ x.at = "sent"
        <3>1. Request("evalsRun", None) \in Sent
            BY RequestTypes
        <3>2. QED BY <3>1 DEF Request
    <2>4. req' = req \o <<x>>
        BY <1>6, <2>3 DEF RunQuestions, Issue
    <2>5. /\ ui' \in Stores /\ ui'.watching = ui.watching /\ ui'.selected = ui.selected
          /\ ui'.proj = ui.proj
          /\ ui.evalrun = None /\ ui'.evalrun = Len(req) + 1
        BY <1>1, <1>6 DEF RunQuestions, Stores
    <2>6. QED BY <2>1, <2>2, <2>3, <2>4, <2>5, AskKeeps DEF Idle
<1>7. CASE CancelRun
    <2>1. Spend("cancelEval") /\ "cancelEval" \in UserOps /\ Idle
        BY <1>7 DEF CancelRun, UserOps
    <2>2. budget' \in [UserOps -> Nat]
        BY <1>2, <2>1
    <2>3. ui.evalrun \in Nat
        BY <1>1, <1>7 DEF CancelRun, Stores
    <2>4. PICK x \in Sent : x = Request("evalsCancel", ui.evalrun) /\ x.op = "evalsCancel" /\ x.at = "sent"
        <3>1. Request("evalsCancel", ui.evalrun) \in Sent
            BY <2>3, RequestTypes
        <3>2. QED BY <3>1 DEF Request
    <2>5. req' = req \o <<x>>
        BY <1>7, <2>4 DEF CancelRun, Issue
    <2>6. /\ ui' \in Stores /\ ui'.watching = ui.watching /\ ui'.selected = ui.selected
          /\ ui'.proj = ui.proj
          /\ ui'.evalrun = ui.evalrun
        BY <1>1, <1>7 DEF CancelRun, Stores
    <2>7. QED BY <2>1, <2>2, <2>4, <2>5, <2>6, AskKeeps DEF Idle
<1>8. ASSUME NEW r \in Runs, LoadRun(r) PROVE ExplorerInv'
    <2>1. Spend("load") /\ "load" \in UserOps /\ Idle
        BY <1>8 DEF LoadRun, UserOps
    <2>2. budget' \in [UserOps -> Nat]
        BY <1>2, <2>1
    <2>3. PICK x \in Sent : x = Request("load", r) /\ x.op = "load" /\ x.at = "sent"
        <3>1. Request("load", r) \in Sent
            BY RequestTypes
        <3>2. QED BY <3>1 DEF Request
    <2>4. req' = req \o <<x>>
        BY <1>8, <2>3 DEF LoadRun, Issue
    <2>5. /\ ui' \in Stores /\ ui'.watching = ui.watching /\ ui'.selected = ui.selected
          /\ ui'.proj = ui.proj
          /\ ui'.evalrun = ui.evalrun
        BY <1>1, <1>8 DEF LoadRun, Stores
    <2>6. QED BY <2>1, <2>2, <2>3, <2>4, <2>5, AskKeeps DEF Idle
<1>9. ASSUME NEW r \in Runs, RunDiff(r) PROVE ExplorerInv'
    <2>1. Spend("diff") /\ "diff" \in UserOps /\ Idle
        BY <1>9 DEF RunDiff, UserOps
    <2>2. budget' \in [UserOps -> Nat]
        BY <1>2, <2>1
    <2>3. <<ui.run, r>> \in Runs \X Runs
        BY <1>1, <1>9 DEF RunDiff, Stores
    <2>4. PICK x \in Sent : x = Request("diff", <<ui.run, r>>) /\ x.op = "diff" /\ x.at = "sent"
        <3>1. Request("diff", <<ui.run, r>>) \in Sent
            BY <2>3, RequestTypes
        <3>2. QED BY <3>1 DEF Request
    <2>5. req' = req \o <<x>>
        BY <1>9, <2>4 DEF RunDiff, Issue
    <2>6. /\ ui' \in Stores /\ ui'.watching = ui.watching /\ ui'.selected = ui.selected
          /\ ui'.proj = ui.proj
          /\ ui'.evalrun = ui.evalrun
        BY <1>1, <1>9 DEF RunDiff, Stores
    <2>7. QED BY <2>1, <2>2, <2>4, <2>5, <2>6, AskKeeps DEF Idle
<1>10. CASE LoadCatalog
    <2>1. Spend("catalog") /\ "catalog" \in UserOps /\ Idle
        BY <1>10 DEF LoadCatalog, UserOps
    <2>2. budget' \in [UserOps -> Nat]
        BY <1>2, <2>1
    <2>3. PICK x \in Sent : x = Request("catalog", None) /\ x.op = "catalog" /\ x.at = "sent"
        <3>1. Request("catalog", None) \in Sent
            BY RequestTypes
        <3>2. QED BY <3>1 DEF Request
    <2>4. req' = req \o <<x>>
        BY <1>10, <2>3 DEF LoadCatalog, Issue
    <2>5. /\ ui' \in Stores /\ ui'.watching = ui.watching /\ ui'.selected = ui.selected
          /\ ui'.proj = ui.proj
          /\ ui'.evalrun = ui.evalrun
        BY <1>1, <1>10 DEF LoadCatalog, Stores
    <2>6. QED BY <2>1, <2>2, <2>3, <2>4, <2>5, AskKeeps DEF Idle
<1>11. CASE Scaffold
    <2>1. Spend("scaffold") /\ "scaffold" \in UserOps /\ Idle
        BY <1>11 DEF Scaffold, UserOps
    <2>2. budget' \in [UserOps -> Nat]
        BY <1>2, <2>1
    <2>3. PICK x \in Sent : x = Request("scaffold", None) /\ x.op = "scaffold" /\ x.at = "sent"
        <3>1. Request("scaffold", None) \in Sent
            BY RequestTypes
        <3>2. QED BY <3>1 DEF Request
    <2>4. req' = req \o <<x>>
        BY <1>11, <2>3 DEF Scaffold, Issue
    <2>5. /\ ui' \in Stores /\ ui'.watching = ui.watching /\ ui'.selected = ui.selected
          /\ ui'.proj = ui.proj
          /\ ui'.evalrun = ui.evalrun
        BY <1>1, <1>11 DEF Scaffold, Stores
    <2>6. QED BY <2>1, <2>2, <2>3, <2>4, <2>5, AskKeeps DEF Idle
<1>12. QED BY <1>3, <1>4, <1>5, <1>6, <1>7, <1>8, <1>9, <1>10, <1>11, SelectKeeps DEF User

LEMMA ReceiveKeeps ==
    ASSUME ExplorerInv, Receive
    PROVE  ExplorerInv'
BY EventKeeps, ReplyKeeps DEF Receive

LEMMA ExplorerStarts ==
    ASSUME Init
    PROVE  ExplorerInv
<1>1. \A k \in JobKinds : /\ k \in Job /\ (k.alive => k.sup = "live")
                          /\ k.file <= Len(k.log) /\ k.fed <= Len(k.log)
    <2> DEFINE Shown(n) == [done |-> n, hit |-> FALSE]
               Past(n, s) == [alive |-> FALSE, sup |-> "none", seg |-> n, kept |-> n,
                              hits |-> 0, log |-> [i \in 1..n |-> Shown(i)],
                              file |-> n, fed |-> n, status |-> s]
    <2>1. Total \in Nat /\ 1 \in 0..Total /\ Total \in 0..Total /\ 0 \in 0..Total
        BY TotalAssumption
    <2>2. ASSUME NEW n \in 0..Total, NEW s \in Statuses
          PROVE  /\ Past(n, s) \in Job /\ Past(n, s).alive = FALSE
                 /\ Past(n, s).file = n /\ Past(n, s).fed = n /\ Len(Past(n, s).log) = n
        <3> DEFINE l == [i \in 1..n |-> Shown(i)]
        <3>1. l \in Seq(Line) /\ Len(l) = n
            <4>1. \A i \in 1..n : l[i] \in Line
                BY DEF Line
            <4>2. DOMAIN l = 1..n /\ l = [i \in 1..n |-> l[i]] /\ n \in Nat
                BY <2>1
            <4> HIDE DEF l
            <4>3. QED BY <4>1, <4>2, MapFacts
        <3> HIDE DEF l
        <3>2. Past(n, s) = [alive |-> FALSE, sup |-> "none", seg |-> n, kept |-> n, hits |-> 0,
                            log |-> l, file |-> n, fed |-> n, status |-> s]
            BY DEF l
        <3> HIDE DEF Past
        <3>3. QED BY <2>1, <3>1, <3>2 DEF Job
    <2>3. JobKinds = {Past(Total, "done"), Past(1, "paused"),
                      [Past(0, "running") EXCEPT !.alive = TRUE, !.sup = "live"]}
        BY DEF JobKinds
    <2>4. {"done", "paused", "running"} \subseteq Statuses
        BY DEF Statuses
    <2> HIDE DEF Past
    <2>5. ASSUME NEW k \in {Past(Total, "done"), Past(1, "paused")}
          PROVE  /\ k \in Job /\ (k.alive => k.sup = "live")
                 /\ k.file <= Len(k.log) /\ k.fed <= Len(k.log)
        <3>1. PICK n \in 0..Total, s \in Statuses : k = Past(n, s)
            BY <2>1, <2>4, <2>5
        <3>2. /\ k \in Job /\ k.alive = FALSE /\ k.file = n /\ k.fed = n
              /\ Len(k.log) = n /\ n \in Nat
            <4>1. /\ Past(n, s) \in Job /\ Past(n, s).alive = FALSE /\ Past(n, s).file = n
                  /\ Past(n, s).fed = n /\ Len(Past(n, s).log) = n
                BY <2>2
            <4>2. n \in Nat
                BY <2>1
            <4>3. QED BY <3>1, <4>1, <4>2
        <3>3. QED BY <3>2
    <2>6. ASSUME NEW k, k = [Past(0, "running") EXCEPT !.alive = TRUE, !.sup = "live"]
          PROVE  /\ k \in Job /\ (k.alive => k.sup = "live")
                 /\ k.file <= Len(k.log) /\ k.fed <= Len(k.log)
        <3>1. PICK p \in Job : /\ p = Past(0, "running") /\ p.file = 0 /\ p.fed = 0
                               /\ Len(p.log) = 0
            BY <2>1, <2>2, <2>4
        <3>2. k = [p EXCEPT !.alive = TRUE, !.sup = "live"]
            BY <2>6, <3>1
        <3>3. k \in Job /\ k.sup = "live" /\ k.file = p.file /\ k.fed = p.fed /\ k.log = p.log
            BY <3>2 DEF Job
        <3>4. QED BY <3>1, <3>3
    <2>7. QED BY <2>3, <2>5, <2>6
<1>2. req = <<>> /\ down = <<>> /\ DOMAIN req = {} /\ DOMAIN down = {}
    BY DEF Init
<1>3. TypeOK
    <2>1. job \in [Jobs -> Job]
        BY <1>1 DEF Init
    <2>2. /\ req \in Seq(Sent) /\ down \in Seq(Message) /\ loaded \subseteq Runs
          /\ templates \in Nat /\ catalog \in Nat \cup {None}
        BY DEF Init
    <2>3. ui \in Stores
        BY DEF Init, Stores, Fresh
    <2>4. budget \in [UserOps -> Nat]
        BY BudgetsAssumption DEF Init
    <2>5. QED BY <2>1, <2>2, <2>3, <2>4 DEF TypeOK
<1>4. JobInv
    BY <1>1 DEF JobInv, Init
<1>5. ReqInv /\ ReplyInv /\ EvalOwned
    BY <1>2 DEF ReqInv, ReplyInv, EvalOwned
<1>6. ui.watching = None /\ ui.selected = None
    BY DEF Init
<1>7. WatchInv /\ GoneInv /\ ShownInv
    BY <1>6 DEF WatchInv, GoneInv, ShownInv, Watched
<1>8. QED BY <1>3, <1>4, <1>5, <1>7 DEF ExplorerInv

LEMMA ExplorerKept ==
    ASSUME ExplorerInv, [Next]_vars
    PROVE  ExplorerInv'
<1>1. CASE User
    BY <1>1, UserKeeps
<1>2. CASE Receive
    BY <1>2, ReceiveKeeps
<1>3. ASSUME NEW j \in Jobs, Worker(j) PROVE ExplorerInv'
    BY <1>3, WorkersKeep
<1>4. ASSUME NEW j \in Jobs, Supervisor(j) PROVE ExplorerInv'
    BY <1>4, FeedKeeps, CloseKeeps DEF Supervisor
<1>5. ASSUME NEW id \in DOMAIN req, Sidecar(id) PROVE ExplorerInv'
    BY <1>5, SidecarKeeps
<1>6. CASE UNCHANGED vars
    <2>1. UNCHANGED <<job, req, down, sidecar, ui, budget>>
        BY <1>6 DEF vars, sidecar
    <2>2. TypeOK' /\ JobInv'
        BY <2>1, JobSame DEF ExplorerInv, TypeOK, sidecar
    <2>3. ReqInv' /\ ReplyInv' /\ EvalOwned'
        BY <2>1 DEF ExplorerInv, ReqInv, ReplyInv, EvalOwned
    <2>4. WatchInv' /\ GoneInv'
        BY <2>1 DEF ExplorerInv, WatchInv, GoneInv, Watched, Pending
    <2>5. ShownInv'
        BY <2>1 DEF ExplorerInv, ShownInv, Watched, Pending, NoneEnding, Projected, Shows
    <2>6. QED BY <2>2, <2>3, <2>4, <2>5 DEF ExplorerInv
<1>7. QED BY <1>1, <1>2, <1>3, <1>4, <1>5, <1>6 DEF Next

-----------------------------------------------------------------------------
(* The theorems.                                                           *)

\* Whatever the interleaving: a job runs under its supervisor, a request is answered
\* once, the store awaits one watch that nobody has ended, and what is on its way to
\* the projection ends in what state.json says.
THEOREM ExplorerInvariants == Spec => []ExplorerInv
<1>1. Init => ExplorerInv
    BY ExplorerStarts
<1>2. ExplorerInv /\ [Next]_vars => ExplorerInv'
    BY ExplorerKept
<1>3. QED BY <1>1, <1>2, PTL DEF Spec

\* The types of what the sidecar, the workers and the stores keep.
THEOREM ExplorerTypes == Spec => []TypeOK
<1>1. ExplorerInv => TypeOK
    BY DEF ExplorerInv
<1>2. QED BY <1>1, ExplorerInvariants, PTL

\* At rest the projection of the selected job shows its state.json, whatever the watch
\* missed or was told twice; the store's slot is the evaluation that is open.
THEOREM ExplorerStoresAgree == Spec => []StoresAgree
<1>1. ExplorerInv => StoresAgree
    <2>1. SUFFICES ASSUME ExplorerInv, NEW j \in Jobs, AllSettled, ui.selected = j,
                          ui.proj.from \subseteq {j}
                   PROVE  [ui.proj EXCEPT !.from = {}]
                            = [done |-> job[j].seg, cached |-> job[j].hits,
                               status |-> job[j].status, from |-> {}]
        BY DEF StoresAgree, ShownAtRest, ExplorerInv
    <2>2. TypeOK /\ WatchInv /\ ShownInv
        BY <2>1 DEF ExplorerInv
    <2>3. ui.watching # None /\ ui.watching \in DOMAIN req
        BY <2>1, <2>2, NoneAssumption DEF WatchInv
    <2>4. \A id \in DOMAIN req : req[id].at = "settled"
        BY <2>1 DEF AllSettled
    <2>5. Watched({"replied", "settled"}) /\ NoneEnding(j)
        BY <2>1, <2>3, <2>4 DEF Watched, Pending, NoneEnding
    <2>6. Projected(j)
        BY <2>1, <2>2, <2>5 DEF ShownInv
    <2>7. DOMAIN down = {}
        BY <2>1 DEF AllSettled
    <2>8. Shows(j)
        BY <2>1, <2>6, <2>7 DEF Projected
    <2>9. ui.proj \in [done : Nat, cached : Nat, status : Statuses \cup {"idle"}, from : SUBSET Jobs]
        BY <2>2 DEF TypeOK, Stores
    <2>10. QED BY <2>8, <2>9 DEF Shows
<1>2. QED BY <1>1, ExplorerInvariants, PTL
=============================================================================

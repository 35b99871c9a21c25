---------------------------- MODULE JobRunsProofs ----------------------------
(***************************************************************************)
(* Proofs about JobRuns, for any run, any number of workers, kills and     *)
(* exits of the sidecar.                                                   *)
(***************************************************************************)
EXTENDS JobRuns, FiniteSetTheorems, TLAPS

-----------------------------------------------------------------------------
(* Sums over finite sets.  What the community modules define by a recursion *)
(* over the subsets is reasoned about through its least counterexample.     *)

LEMMA LeastSet ==
    ASSUME NEW S, IsFiniteSet(S), NEW B \in SUBSET (SUBSET S), B # {}
    PROVE  \E U \in B : \A V \in B : V \subseteq U => V = U
<1>1. IsWellFoundedOn(StrictSubsetOrdering(S), FiniteSubsetsOf(S))
    BY FS_StrictSubsetOrderingWellFounded
<1>2. B \subseteq FiniteSubsetsOf(S)
    BY FS_FiniteSubsetsOfFinite
<1>3. PICK U \in B : \A V \in B : <<V, U>> \notin StrictSubsetOrdering(S)
    BY <1>1, <1>2, WFMin
<1>4. \A V \in B : V \subseteq U => V = U
    BY <1>3 DEF StrictSubsetOrdering
<1> QED BY <1>4

LEMMA LeastNat ==
    ASSUME NEW S \in SUBSET Nat, S # {}
    PROVE  \E m \in S : \A n \in S : m <= n
<1>1. PICK top \in S : TRUE
    OBVIOUS
<1> DEFINE B == {u \in SUBSET (0..top) : \E n \in S : n <= top /\ u = 0..n}
<1>2. 0..top \in B
    BY <1>1
<1>3. PICK u \in B : \A v \in B : v \subseteq u => v = u
    <2>1. B \in SUBSET (SUBSET (0..top)) /\ B # {}
        BY <1>2
    <2>2. IsFiniteSet(0..top)
        BY <1>1, FS_Interval
    <2> DEFINE D == 0..top
    <2>3. IsFiniteSet(D) /\ B \in SUBSET (SUBSET D) /\ B # {}
        BY <2>1, <2>2
    <2> HIDE DEF B, D
    <2>4. \E U \in B : \A V \in B : V \subseteq U => V = U
        BY <2>3, LeastSet
    <2> QED BY <2>4
<1>4. PICK m \in S : m <= top /\ u = 0..m
    BY <1>3
<1>5. ASSUME NEW n \in S, n < m PROVE FALSE
    <2>1. 0..n \in SUBSET (0..top) /\ n <= top
        BY <1>1, <1>4, <1>5
    <2>2. 0..n \in B
        BY <2>1
    <2>3. 0..n = 0..m
        <3>1. 0..n \subseteq u
            BY <1>4, <1>5
        <3> QED BY <1>3, <1>4, <2>2, <3>1
    <2>4. m \in 0..n
        BY <1>4, <2>3
    <2> QED BY <1>5, <2>4
<1> QED BY <1>4, <1>5

Some(s) == CHOOSE x \in s : TRUE

\* g[s] is the sum of f over s, for every part s of S.
Adds(g, f, S) ==
    /\ g \in [SUBSET S -> Int]
    /\ \A s \in SUBSET S : g[s] = IF s = {} THEN 0 ELSE f[Some(s)] + g[s \ {Some(s)}]

LEMMA AddsExists ==
    ASSUME NEW S, IsFiniteSet(S), NEW f \in [S -> Int]
    PROVE  \E g : Adds(g, f, S)
<1> DEFINE Small(n) == {s \in SUBSET S : Cardinality(s) <= n}
           Good(g, n) ==
               /\ g \in [Small(n) -> Int]
               /\ \A s \in Small(n) :
                      g[s] = IF s = {} THEN 0 ELSE f[Some(s)] + g[s \ {Some(s)}]
           Bad == {n \in Nat : ~ \E g : Good(g, n)}
<1>1. \A s \in SUBSET S : IsFiniteSet(s) /\ Cardinality(s) \in Nat
    BY FS_Subset, FS_CardinalityType
<1>2. \A s \in SUBSET S : s # {} =>
          /\ Some(s) \in s /\ s \ {Some(s)} \in SUBSET S
          /\ Cardinality(s \ {Some(s)}) = Cardinality(s) - 1
    BY <1>1, FS_RemoveElement DEF Some
<1>3. Bad = {}
    <2>1. SUFFICES ASSUME Bad # {} PROVE FALSE
        OBVIOUS
    <2>2. PICK m \in Bad : \A n \in Bad : m <= n
        <3>1. Bad \in SUBSET Nat
            OBVIOUS
        <3> HIDE DEF Bad
        <3> QED BY <2>1, <3>1, LeastNat
    <2>3. m \in Nat /\ ~ \E g : Good(g, m)
        BY <2>2
    <2>4. CASE m = 0
        <3>1. Small(0) = {{}}
            BY <1>1, FS_EmptySet
        <3>2. Good([s \in Small(0) |-> 0], 0)
            BY <3>1
        <3> QED BY <2>3, <2>4, <3>2
    <2>5. CASE m # 0
        <3> DEFINE l == m - 1
        <3>0. l \in Nat /\ ~(m <= l)
            BY <2>3, <2>5
        <3>1. l \notin Bad
            <4> HIDE DEF Bad, l
            <4> QED BY <2>2, <3>0
        <3>2. PICK g : Good(g, m - 1)
            <4> HIDE DEF Good
            <4> QED BY <3>0, <3>1
        <3> DEFINE h == [s \in Small(m) |->
                            IF s = {} THEN 0 ELSE f[Some(s)] + g[s \ {Some(s)}]]
        <3>3. ASSUME NEW s \in Small(m), s # {}
              PROVE  /\ s \ {Some(s)} \in Small(m - 1) /\ s \ {Some(s)} \in Small(m)
                     /\ f[Some(s)] \in Int
            BY <1>1, <1>2, <2>3, <3>3
        <3>4. h \in [Small(m) -> Int]
            BY <3>2, <3>3
        <3>5. ASSUME NEW s \in Small(m - 1) PROVE s \in Small(m) /\ h[s] = g[s]
            <4>1. s \in Small(m)
                BY <1>1, <2>3
            <4>2. g[s] = IF s = {} THEN 0 ELSE f[Some(s)] + g[s \ {Some(s)}]
                BY <3>2
            <4> QED BY <4>1, <4>2
        <3>6. ASSUME NEW s \in Small(m)
              PROVE  h[s] = IF s = {} THEN 0 ELSE f[Some(s)] + h[s \ {Some(s)}]
            <4>1. CASE s = {}
                BY <4>1
            <4>2. CASE s # {}
                <5>1. h[s \ {Some(s)}] = g[s \ {Some(s)}]
                    BY <3>3, <3>5, <4>2
                <5>2. h[s] = f[Some(s)] + g[s \ {Some(s)}]
                    BY <4>2
                <5> HIDE DEF h
                <5> QED BY <4>2, <5>1, <5>2
            <4> QED BY <4>1, <4>2
        <3>7. Good(h, m)
            <4> HIDE DEF h, Small
            <4> QED BY <3>4, <3>6
        <3> QED BY <2>3, <3>7
    <2> QED BY <2>4, <2>5
<1> DEFINE n == Cardinality(S)
<1>4. n \in Nat /\ Small(n) = SUBSET S
    BY <1>1, FS_Subset
<1>5. PICK g : Good(g, n)
    BY <1>3, <1>4
<1>6. Adds(g, f, S)
    BY <1>4, <1>5 DEF Adds
<1> QED BY <1>6

\* The sum of the community modules is such a sum.
LEMMA SumAdds ==
    ASSUME NEW S, IsFiniteSet(S), NEW f \in [S -> Int]
    PROVE  \E g : Adds(g, f, S) /\ SumFunction(f) = g[S]
<1> DEFINE Rec(g) == g = [s \in SUBSET S |->
                            IF s = {} THEN 0 ELSE f[Some(s)] + g[s \ {Some(s)}]]
           iter == CHOOSE g : Rec(g)
<1>1. \E g : Rec(g)
    <2>1. PICK g : Adds(g, f, S)
        BY AddsExists
    <2>2. Rec(g)
        BY <2>1 DEF Adds
    <2> QED BY <2>2
<1>2. Rec(iter)
    BY <1>1
<1>3. SumFunction(f) = iter[S]
    BY DEF SumFunction, SumFunctionOnSet, FoldFunctionOnSet, MapThenFoldSet, Some
<1> HIDE DEF iter
<1>4. \A s \in SUBSET S : iter[s] = IF s = {} THEN 0 ELSE f[Some(s)] + iter[s \ {Some(s)}]
    BY <1>2
<1>5. PICK g : Adds(g, f, S)
    BY AddsExists
<1>6. \A s \in SUBSET S : iter[s] = g[s]
    <2> DEFINE B == {s \in SUBSET S : iter[s] # g[s]}
    <2>1. SUFFICES ASSUME B # {} PROVE FALSE
        OBVIOUS
    <2>2. PICK s \in B : \A t \in B : t \subseteq s => t = s
        <3>1. B \in SUBSET (SUBSET S)
            OBVIOUS
        <3> HIDE DEF B
        <3> QED BY <2>1, <3>1, LeastSet
    <2>3. s \in SUBSET S /\ iter[s] # g[s]
        BY <2>2
    <2>4. g[s] = IF s = {} THEN 0 ELSE f[Some(s)] + g[s \ {Some(s)}]
        BY <1>5, <2>3 DEF Adds
    <2>5. CASE s = {}
        BY <1>4, <2>3, <2>4, <2>5
    <2>6. CASE s # {}
        <3>1. Some(s) \in s
            BY <2>6 DEF Some
        <3>2. s \ {Some(s)} \in SUBSET S /\ s \ {Some(s)} \notin B
            BY <2>2, <2>3, <3>1
        <3>3. iter[s \ {Some(s)}] = g[s \ {Some(s)}]
            BY <3>2
        <3> QED BY <1>4, <2>3, <2>4, <2>6, <3>3
    <2> QED BY <2>5, <2>6
<1>7. iter[S] = g[S]
    BY <1>6
<1> QED BY <1>3, <1>5, <1>7

\* Two sums of what agrees on a set agree on it.
LEMMA SumsAgree ==
    ASSUME NEW S, NEW T, NEW f, NEW h, NEW d, NEW e, Adds(d, f, S), Adds(e, h, T),
           NEW U, U \subseteq S, U \subseteq T, IsFiniteSet(U),
           \A x \in U : f[x] = h[x]
    PROVE  d[U] = e[U]
<1> DEFINE B == {s \in SUBSET U : d[s] # e[s]}
<1>1. SUFFICES ASSUME B # {} PROVE FALSE
    OBVIOUS
<1>2. PICK s \in B : \A t \in B : t \subseteq s => t = s
    <2>1. B \in SUBSET (SUBSET U)
        OBVIOUS
    <2> HIDE DEF B
    <2> QED BY <1>1, <2>1, LeastSet
<1>3. s \in SUBSET S /\ s \in SUBSET T /\ s \in SUBSET U /\ d[s] # e[s]
    BY <1>2
<1>4. /\ d[s] = IF s = {} THEN 0 ELSE f[Some(s)] + d[s \ {Some(s)}]
      /\ e[s] = IF s = {} THEN 0 ELSE h[Some(s)] + e[s \ {Some(s)}]
    BY <1>3 DEF Adds
<1>5. s # {}
    BY <1>3, <1>4
<1>6. Some(s) \in s
    BY <1>5 DEF Some
<1>7. s \ {Some(s)} \in SUBSET U /\ s \ {Some(s)} \notin B
    BY <1>2, <1>3, <1>6
<1>8. d[s \ {Some(s)}] = e[s \ {Some(s)}] /\ f[Some(s)] = h[Some(s)]
    BY <1>3, <1>6, <1>7
<1> QED BY <1>3, <1>4, <1>5, <1>8

\* A sum may be started with any element.
LEMMA SumRemove ==
    ASSUME NEW S, IsFiniteSet(S), NEW f \in [S -> Int], NEW d, Adds(d, f, S)
    PROVE  \A s \in SUBSET S : \A k \in s : d[s] = f[k] + d[s \ {k}]
<1> DEFINE B == {s \in SUBSET S : \E k \in s : d[s] # f[k] + d[s \ {k}]}
<1>1. SUFFICES ASSUME B # {} PROVE FALSE
    OBVIOUS
<1>2. PICK s \in B : \A t \in B : t \subseteq s => t = s
    <2>1. B \in SUBSET (SUBSET S)
        OBVIOUS
    <2> HIDE DEF B
    <2> QED BY <1>1, <2>1, LeastSet
<1>3. s \in SUBSET S
    BY <1>2
<1>4. PICK k \in s : d[s] # f[k] + d[s \ {k}]
    BY <1>2
<1> DEFINE x == Some(s)
<1>5. x \in s
    BY <1>4 DEF Some
<1>6. d[s] = f[x] + d[s \ {x}]
    BY <1>3, <1>4 DEF Adds
<1>7. x # k
    BY <1>4, <1>6
<1> HIDE DEF x
<1> DEFINE r == s \ {x}
           q == s \ {k}
           b == s \ {x, k}
<1>8. /\ r \in SUBSET S /\ q \in SUBSET S /\ b \in SUBSET S
      /\ r \ {k} = b /\ q \ {x} = b /\ k \in r /\ x \in q
    BY <1>3, <1>4, <1>5, <1>7
<1>9. r \notin B /\ q \notin B
    BY <1>2, <1>4, <1>5
<1>10. d[r] = f[k] + d[b] /\ d[q] = f[x] + d[b]
    BY <1>8, <1>9
<1>11. d[r] \in Int /\ d[q] \in Int /\ d[b] \in Int /\ f[x] \in Int /\ f[k] \in Int
    BY <1>3, <1>4, <1>5, <1>8 DEF Adds
<1>12. d[s] = f[x] + d[r] /\ d[s] # f[k] + d[q]
    BY <1>4, <1>6
<1> HIDE DEF r, q, b
<1> QED BY <1>10, <1>11, <1>12

LEMMA SumIsInt ==
    ASSUME NEW S, IsFiniteSet(S), NEW f \in [S -> Int]
    PROVE  SumFunction(f) \in Int
<1>1. PICK d : Adds(d, f, S) /\ SumFunction(f) = d[S]
    BY SumAdds
<1> QED BY <1>1 DEF Adds

LEMMA SumOfZeros ==
    ASSUME NEW S, IsFiniteSet(S), NEW f \in [S -> Int], \A k \in S : f[k] = 0
    PROVE  SumFunction(f) = 0
<1>1. PICK d : Adds(d, f, S) /\ SumFunction(f) = d[S]
    BY SumAdds
<1> DEFINE B == {s \in SUBSET S : d[s] # 0}
<1>2. SUFFICES ASSUME B # {} PROVE FALSE
    BY <1>1
<1>3. PICK s \in B : \A t \in B : t \subseteq s => t = s
    <2>1. B \in SUBSET (SUBSET S)
        OBVIOUS
    <2> HIDE DEF B
    <2> QED BY <1>2, <2>1, LeastSet
<1>4. d[s] = IF s = {} THEN 0 ELSE f[Some(s)] + d[s \ {Some(s)}]
    BY <1>1, <1>3 DEF Adds
<1>5. s # {}
    BY <1>3, <1>4
<1>6. Some(s) \in s
    BY <1>5 DEF Some
<1>7. s \ {Some(s)} \in SUBSET S /\ s \ {Some(s)} \notin B
    BY <1>3, <1>6
<1>8. d[s \ {Some(s)}] = 0 /\ f[Some(s)] = 0
    BY <1>3, <1>6, <1>7
<1> QED BY <1>3, <1>4, <1>5, <1>8

\* What one element changes is what the sum changes.
LEMMA SumChanges ==
    ASSUME NEW S, IsFiniteSet(S), NEW f \in [S -> Int], NEW h \in [S -> Int],
           NEW k \in S, \A x \in S \ {k} : h[x] = f[x]
    PROVE  SumFunction(h) = SumFunction(f) + (h[k] - f[k])
<1>1. PICK d : Adds(d, f, S) /\ SumFunction(f) = d[S]
    BY SumAdds
<1>2. PICK e : Adds(e, h, S) /\ SumFunction(h) = e[S]
    BY SumAdds
<1> DEFINE U == S \ {k}
<1>3. d[S] = f[k] + d[U]
    BY <1>1, SumRemove
<1>4. e[S] = h[k] + e[U]
    BY <1>2, SumRemove
<1>5. d[U] = e[U]
    <2>1. U \subseteq S /\ IsFiniteSet(U) /\ \A x \in U : f[x] = h[x]
        BY FS_Subset
    <2> HIDE DEF U
    <2> QED BY <1>1, <1>2, <2>1, SumsAgree
<1>6. d[U] \in Int /\ f[k] \in Int /\ h[k] \in Int
    BY <1>1 DEF Adds
<1> HIDE DEF U
<1> QED BY <1>1, <1>2, <1>3, <1>4, <1>5, <1>6

\* What is new in the domain is added.
LEMMA SumExtends ==
    ASSUME NEW S, IsFiniteSet(S), NEW f \in [S -> Int], NEW T, NEW k \in T,
           k \notin S, T = S \cup {k}, NEW h \in [T -> Int], \A x \in S : h[x] = f[x]
    PROVE  SumFunction(h) = SumFunction(f) + h[k]
<1>1. PICK d : Adds(d, f, S) /\ SumFunction(f) = d[S]
    BY SumAdds
<1>2. IsFiniteSet(T) /\ T \ {k} = S /\ k \in T
    BY FS_AddElement
<1>3. PICK e : Adds(e, h, T) /\ SumFunction(h) = e[T]
    BY <1>2, SumAdds
<1>4. e[T] = h[k] + e[S]
    <2>1. e[T] = h[k] + e[T \ {k}]
        BY <1>2, <1>3, SumRemove
    <2> QED BY <1>2, <2>1
<1>5. e[S] = d[S]
    <2>1. S \subseteq T
        OBVIOUS
    <2> QED BY <1>1, <1>3, <2>1, SumsAgree
<1>6. d[S] \in Int /\ h[k] \in Int
    BY <1>1 DEF Adds
<1> QED BY <1>1, <1>3, <1>4, <1>5, <1>6

-----------------------------------------------------------------------------
(* What the assumption says of the constants.                              *)

LEMMA ConstantFacts ==
    /\ Len(Artifacts) \in Nat
    /\ DOMAIN Artifacts = 1..Len(Artifacts)
    /\ \A j \in 1..Len(Artifacts) : Artifacts[j] \in Keys
    /\ \A j, k \in 1..Len(Artifacts) : Artifacts[j] = Artifacts[k] => j = k
    /\ None \notin Pids /\ None \notin Ledgers /\ None \notin Nat
    /\ Price \in [Keys -> Nat]
    /\ MaxStarts \in Nat /\ MaxKills \in Nat /\ MaxRestarts \in Nat
<1>1. Len(Artifacts) \in Nat /\ DOMAIN Artifacts = 1..Len(Artifacts)
    BY JobAssumption
<1>2. \A j \in 1..Len(Artifacts) : Artifacts[j] \in Keys
    BY JobAssumption
<1>3. \A j, k \in 1..Len(Artifacts) : Artifacts[j] = Artifacts[k] => j = k
    BY <1>1, JobAssumption DEF IsInjective
<1>4. MaxStarts \in Nat /\ None \notin Nat
    BY JobAssumption
<1>5. None \notin Pids
    BY <1>4 DEF Pids
<1> QED BY <1>1, <1>2, <1>3, <1>4, <1>5, JobAssumption

LEMMA NewStateFacts ==
    /\ NewState \in Ledgers
    /\ NewState.status = "created" /\ NewState.pid = None /\ NewState.done = 0
    /\ NewState.segments = <<>>
<1>1. <<>> \in Seq(Segments)
    OBVIOUS
<1>2. 0 \in 0..Len(Artifacts)
    BY ConstantFacts
<1> QED BY <1>1, <1>2 DEF NewState, Ledgers, Statuses

LEMMA WorkerFacts ==
    ASSUME NEW pc \in PCs
    PROVE  /\ Worker(pc) \in Workers
           /\ Worker(pc).pc = pc /\ Worker(pc).piped = TRUE /\ Worker(pc).i = 1
           /\ Worker(pc).cost = 0 /\ Worker(pc).mem = NewState
<1>1. 1 \in 1..(Len(Artifacts) + 1)
    BY ConstantFacts
<1> QED BY <1>1, NewStateFacts DEF Worker, Workers

-----------------------------------------------------------------------------
(* A step of the worker p, field by field.                                 *)

Turns(p, pc, i, cost, mem) ==
    /\ worker' \in [Pids -> Workers]
    /\ \A q \in Pids : q # p => worker'[q] = worker[q]
    /\ worker'[p].pc = pc /\ worker'[p].i = i /\ worker'[p].cost = cost
    /\ worker'[p].mem = mem /\ worker'[p].piped = worker[p].piped

LEMMA Turn ==
    ASSUME NEW p \in Pids, worker \in [Pids -> Workers], NEW w \in Workers,
           w.piped = worker[p].piped, worker' = [worker EXCEPT ![p] = w]
    PROVE  Turns(p, w.pc, w.i, w.cost, w.mem)
BY DEF Turns

LEMMA GotoTurns ==
    ASSUME NEW p \in Pids, worker \in [Pids -> Workers], NEW pc \in PCs, Goto(p, pc)
    PROVE  Turns(p, pc, worker[p].i, worker[p].cost, worker[p].mem)
<1> DEFINE w == [worker[p] EXCEPT !.pc = pc]
<1>1. worker[p] \in Workers
    OBVIOUS
<1>2. w \in Workers /\ w.pc = pc /\ w.i = worker[p].i /\ w.cost = worker[p].cost
         /\ w.mem = worker[p].mem /\ w.piped = worker[p].piped
    BY <1>1 DEF Workers
<1>3. worker' = [worker EXCEPT ![p] = w]
    BY DEF Goto
<1> HIDE DEF w
<1>4. Turns(p, w.pc, w.i, w.cost, w.mem)
    BY <1>2, <1>3, Turn
<1> QED BY <1>2, <1>4

LEMMA MemTurns ==
    ASSUME NEW p \in Pids, worker \in [Pids -> Workers], NEW pc \in PCs, NEW mem \in Ledgers,
           worker' = [worker EXCEPT ![p].pc = pc, ![p].mem = mem]
    PROVE  Turns(p, pc, worker[p].i, worker[p].cost, mem)
<1> DEFINE w == [worker[p] EXCEPT !.pc = pc, !.mem = mem]
<1>1. worker[p] \in Workers
    OBVIOUS
<1>2. w \in Workers /\ w.pc = pc /\ w.i = worker[p].i /\ w.cost = worker[p].cost
         /\ w.mem = mem /\ w.piped = worker[p].piped
    BY <1>1 DEF Workers
<1>3. worker' = [worker EXCEPT ![p] = w]
    OBVIOUS
<1> HIDE DEF w
<1>4. Turns(p, w.pc, w.i, w.cost, w.mem)
    BY <1>2, <1>3, Turn
<1> QED BY <1>2, <1>4

\* It takes up another step and keeps what it knows.
Stays(p, pc) == Turns(p, pc, worker[p].i, worker[p].cost, worker[p].mem)

Entering == {"none", "spawned", "open"}

Working == {"look", "copy", "copying", "setup", "check", "call", "store", "report", "forward",
            "assemble", "pausing", "failing", "failed", "finish", "finalize"}

\* What a worker knows at the place where it is.
PlaceInv ==
    \A p \in Pids :
        /\ worker[p].pc \in {"call", "store", "report", "forward"} => worker[p].i <= Len(Artifacts)
        /\ worker[p].pc \in {"assemble", "finish", "finalize"} => worker[p].i > Len(Artifacts)
        /\ worker[p].pc \in Working \ {"failed"} => worker[p].mem.status = "running"
        /\ worker[p].pc \in Working => worker[p].mem.pid = p
        /\ worker[p].pc = "failed" => worker[p].mem.status = "failed"
        /\ worker[p].pc \in Entering \cup {"dead"} => worker[p].cost = 0

LEMMA SegmentFacts ==
    ASSUME TypeOK, NEW p \in Pids, NEW reason \in {"paused", "failed", "done"}
    PROVE  /\ EndSegment(p, reason) \in Ledgers
           /\ EndSegment(p, reason).status = Mem(p).status
           /\ EndSegment(p, reason).pid = Mem(p).pid
           /\ EndSegment(p, reason).done = Mem(p).done
           /\ EndSegment(p, reason).segments =
                  Append(Mem(p).segments, [cost |-> worker[p].cost, reason |-> reason])
<1>1. worker[p] \in Workers
    BY DEF TypeOK
<1>2. Mem(p) \in Ledgers /\ worker[p].cost \in Nat
    BY <1>1 DEF Workers, Mem
<1> DEFINE segment == [cost |-> worker[p].cost, reason |-> reason]
<1>3. segment \in Segments
    BY <1>2 DEF Segments
<1>4. Append(Mem(p).segments, segment) \in Seq(Segments)
    BY <1>2, <1>3 DEF Ledgers
<1> HIDE DEF segment
<1>5. [Mem(p) EXCEPT !.segments = Append(@, segment)] \in Ledgers
    BY <1>2, <1>4 DEF Ledgers
<1>6. EndSegment(p, reason) = [Mem(p) EXCEPT !.segments = Append(@, segment)]
    BY DEF EndSegment, segment
<1>7. segment = [cost |-> worker[p].cost, reason |-> reason]
    BY DEF segment
<1> QED BY <1>2, <1>5, <1>6, <1>7 DEF Ledgers

\* The worker enters itself into the ledger it has read.
Entry(p, s) == [s EXCEPT !.status = "running", !.pid = p, !.done = 0]

LEMMA EntryFacts ==
    ASSUME NEW s \in Ledgers, NEW p \in Pids
    PROVE  /\ Entry(p, s) \in Ledgers
           /\ Entry(p, s).status = "running" /\ Entry(p, s).pid = p /\ Entry(p, s).done = 0
           /\ Entry(p, s).segments = s.segments
<1>1. 0 \in 0..Len(Artifacts)
    BY ConstantFacts
<1> QED BY <1>1 DEF Entry, Ledgers, Statuses

LEMMA LedgerFacts ==
    ASSUME NEW s \in Ledgers, NEW v \in Statuses
    PROVE  /\ [s EXCEPT !.status = v] \in Ledgers
           /\ [s EXCEPT !.status = v].status = v /\ [s EXCEPT !.status = v].pid = s.pid
           /\ [s EXCEPT !.status = v].done = s.done
           /\ [s EXCEPT !.status = v].segments = s.segments
           /\ s.status \in Statuses /\ s.pid \in Pids \cup {None}
           /\ s.done \in 0..Len(Artifacts) /\ s.segments \in Seq(Segments)
BY DEF Ledgers

LEMMA CountFacts ==
    ASSUME NEW s \in Ledgers, NEW n \in 0..Len(Artifacts)
    PROVE  /\ [s EXCEPT !.done = n] \in Ledgers
           /\ [s EXCEPT !.done = n].status = s.status /\ [s EXCEPT !.done = n].pid = s.pid
           /\ [s EXCEPT !.done = n].done = n
           /\ [s EXCEPT !.done = n].segments = s.segments
BY DEF Ledgers

-----------------------------------------------------------------------------
(* What each step of a worker does to it.                                  *)

LEMMA TurnsOfMoves ==
    ASSUME TypeOK, NEW p \in Pids
    PROVE  /\ CopyLook(p) =>
                  Stays(p, IF MayCopy /\ cache = {} /\ ~torn THEN "copy" ELSE "setup")
           /\ CopyFile(p) => Stays(p, IF gone \/ layout.parent \subseteq cache THEN "setup" ELSE "copying")
           /\ CopyContents(p) => Stays(p, "copy")
           /\ Setup(p) =>
                  Stays(p, IF ~worker[p].piped
                              \/ (worker[p].ceiling # None /\ Estimate > worker[p].ceiling)
                           THEN "failing" ELSE "check")
           /\ Check(p) =>
                  Stays(p, CASE PauseAsked(p)                      -> "pausing"
                             [] ~PauseAsked(p) /\ Key(p) \in cache -> "report"
                             [] OTHER                              -> "call")
           /\ Fails(p) => Stays(p, "failing")
           /\ Rendered(p) => Stays(p, "assemble")
           /\ Assemble(p) => Stays(p, IF worker[p].piped THEN "finish" ELSE "failing")
           /\ EndPaused(p) => Stays(p, "exit")
           /\ WriteFailed(p) => Stays(p, "exit")
           /\ Finalize(p) => Stays(p, "exit")
<1>1. worker \in [Pids -> Workers]
    BY DEF TypeOK
<1>2. \A pc \in PCs : Goto(p, pc) => Stays(p, pc)
    BY <1>1, GotoTurns DEF Stays
<1>3. CopyLook(p) => Stays(p, IF MayCopy /\ cache = {} /\ ~torn THEN "copy" ELSE "setup")
    BY <1>2 DEF CopyLook, PCs
<1>4. CopyFile(p) => Stays(p, IF gone \/ layout.parent \subseteq cache THEN "setup" ELSE "copying")
    BY <1>2 DEF CopyFile, PCs
<1>5. CopyContents(p) => Stays(p, "copy")
    BY <1>2 DEF CopyContents, PCs
<1>6. Setup(p) => Stays(p, IF ~worker[p].piped
                              \/ (worker[p].ceiling # None /\ Estimate > worker[p].ceiling)
                           THEN "failing" ELSE "check")
    BY <1>2 DEF Setup, PCs
<1>7. Check(p) => Stays(p, CASE PauseAsked(p)                      -> "pausing"
                             [] ~PauseAsked(p) /\ Key(p) \in cache -> "report"
                             [] OTHER                              -> "call")
    BY <1>2 DEF Check, PCs
<1>8. Fails(p) => Stays(p, "failing")
    BY <1>2 DEF Fails, PCs
<1>9. Rendered(p) => Stays(p, "assemble")
    BY <1>2 DEF Rendered, PCs
<1>10. Assemble(p) => Stays(p, IF worker[p].piped THEN "finish" ELSE "failing")
    BY <1>2 DEF Assemble, PCs
<1>11. EndPaused(p) => Stays(p, "exit")
    BY <1>2 DEF EndPaused, PCs
<1>12. WriteFailed(p) => Stays(p, "exit")
    BY <1>2 DEF WriteFailed, PCs
<1>13. Finalize(p) => Stays(p, "exit")
    BY <1>2 DEF Finalize, PCs
<1> QED BY <1>3, <1>4, <1>5, <1>6, <1>7, <1>8, <1>9, <1>10, <1>11, <1>12, <1>13

LEMMA TurnOfBoot ==
    ASSUME TypeOK, NEW p \in Pids, Boot(p)
    PROVE  Stays(p, IF request THEN "open" ELSE "exit")
<1>1. worker \in [Pids -> Workers] /\ worker[p] \in Workers /\ ceiling \in Nat \cup {None}
    BY DEF TypeOK
<1>2. CASE ~request
    <2>1. Goto(p, "exit")
        BY <1>2 DEF Boot
    <2> QED BY <1>1, <1>2, <2>1, GotoTurns DEF Stays, PCs
<1>3. CASE request
    <2> DEFINE w == [worker[p] EXCEPT !.pc = "open", !.ceiling = ceiling]
    <2>1. w \in Workers /\ w.pc = "open" /\ w.i = worker[p].i /\ w.cost = worker[p].cost
             /\ w.mem = worker[p].mem /\ w.piped = worker[p].piped
        BY <1>1 DEF Workers, PCs
    <2>2. worker' = [worker EXCEPT ![p] = w]
        BY <1>3 DEF Boot
    <2> HIDE DEF w
    <2>3. Turns(p, w.pc, w.i, w.cost, w.mem)
        BY <1>1, <2>1, <2>2, Turn
    <2> QED BY <1>3, <2>1, <2>3 DEF Stays
<1> QED BY <1>2, <1>3

\* The ledger that a worker enters itself into.
Found == IF state = None THEN NewState ELSE state

LEMMA TurnOfOpen ==
    ASSUME TypeOK, NEW p \in Pids, Open(p)
    PROVE  /\ Found \in Ledgers
           /\ state' = Entry(p, Found)
           /\ Turns(p, "look", worker[p].i, worker[p].cost, state')
<1>1. worker \in [Pids -> Workers]
    BY DEF TypeOK
<1>2. Found \in Ledgers
    BY NewStateFacts DEF TypeOK, Found
<1>3. state' = Entry(p, Found)
    BY DEF Open, Entry, Found
<1>4. state' \in Ledgers
    BY <1>2, <1>3, EntryFacts
<1>5. worker' = [worker EXCEPT ![p].pc = "look", ![p].mem = state']
    BY DEF Open
<1>6. Turns(p, "look", worker[p].i, worker[p].cost, state')
    BY <1>1, <1>4, <1>5, MemTurns DEF PCs
<1> QED BY <1>2, <1>3, <1>6

LEMMA KeyFacts ==
    ASSUME TypeOK, PlaceInv, NEW p \in Pids,
           worker[p].pc \in {"call", "store", "report", "forward"}
    PROVE  /\ worker[p].i \in 1..Len(Artifacts)
           /\ Key(p) \in Keys /\ Price[Key(p)] \in Nat
<1>1. worker[p] \in Workers
    BY DEF TypeOK
<1>2. worker[p].i \in 1..(Len(Artifacts) + 1)
    BY <1>1 DEF Workers
<1>3. worker[p].i \in 1..Len(Artifacts)
    BY <1>2, ConstantFacts DEF PlaceInv
<1> QED BY <1>3, ConstantFacts DEF Key

LEMMA TurnOfCall ==
    ASSUME TypeOK, PlaceInv, NEW p \in Pids, Call(p)
    PROVE  \/ Stays(p, "failing") /\ lost' = [lost EXCEPT ![Key(p)] = @ + 1]
           \/ Stays(p, "store") /\ lost' = lost
<1>1. worker \in [Pids -> Workers]
    BY DEF TypeOK
<1>2. \A pc \in PCs : Goto(p, pc) => Stays(p, pc)
    BY <1>1, GotoTurns DEF Stays
<1> QED BY <1>2 DEF Call, PCs

LEMMA TurnOfStore ==
    ASSUME TypeOK, PlaceInv, NEW p \in Pids, Store(p)
    PROVE  Turns(p, "report", worker[p].i, worker[p].cost + Price[Key(p)], worker[p].mem)
<1>1. worker \in [Pids -> Workers] /\ worker[p] \in Workers
    BY DEF TypeOK
<1>2. Price[Key(p)] \in Nat
    BY KeyFacts DEF Store, At
<1> DEFINE cost == worker[p].cost + Price[Key(p)]
           w == [worker[p] EXCEPT !.pc = "report", !.cost = cost]
<1>3. cost \in Nat
    BY <1>1, <1>2 DEF Workers
<1>4. worker' = [worker EXCEPT ![p] = [worker[p] EXCEPT !.pc = "report",
                                          !.cost = worker[p].cost + Price[Key(p)]]]
    BY DEF Store
<1>5. worker' = [worker EXCEPT ![p] = w]
    BY <1>4
<1> HIDE DEF cost
<1>6. w \in Workers /\ w.pc = "report" /\ w.i = worker[p].i /\ w.cost = cost
         /\ w.mem = worker[p].mem /\ w.piped = worker[p].piped
    BY <1>1, <1>3 DEF Workers, PCs
<1> HIDE DEF w
<1>7. Turns(p, w.pc, w.i, w.cost, w.mem)
    BY <1>1, <1>5, <1>6, Turn
<1> QED BY <1>6, <1>7 DEF cost

LEMMA TurnOfReport ==
    ASSUME TypeOK, PlaceInv, NEW p \in Pids, Report(p)
    PROVE  /\ worker[p].i \in 0..Len(Artifacts)
           /\ state' = [Mem(p) EXCEPT !.done = worker[p].i] /\ state' \in Ledgers
           /\ Turns(p, "forward", worker[p].i, worker[p].cost, state')
<1>1. worker \in [Pids -> Workers] /\ worker[p] \in Workers
    BY DEF TypeOK
<1>2. worker[p].i \in 1..Len(Artifacts)
    BY KeyFacts DEF Report, At
<1>3. Mem(p) \in Ledgers
    BY <1>1 DEF Mem, Workers
<1>4. worker[p].i \in 0..Len(Artifacts)
    BY <1>2, ConstantFacts
<1>5. state' = [Mem(p) EXCEPT !.done = worker[p].i]
    BY DEF Report
<1>6. state' \in Ledgers
    BY <1>3, <1>4, <1>5, CountFacts
<1>7. worker' = [worker EXCEPT ![p].pc = "forward", ![p].mem = state']
    BY DEF Report
<1>8. Turns(p, "forward", worker[p].i, worker[p].cost, state')
    BY <1>1, <1>6, <1>7, MemTurns DEF PCs
<1> QED BY <1>4, <1>5, <1>6, <1>8

LEMMA TurnOfForward ==
    ASSUME TypeOK, PlaceInv, NEW p \in Pids, Forward(p)
    PROVE  \/ /\ worker[p].piped
              /\ Turns(p, "check", worker[p].i + 1, worker[p].cost, worker[p].mem)
           \/ ~worker[p].piped /\ Stays(p, "failing")
<1>1. worker \in [Pids -> Workers] /\ worker[p] \in Workers
    BY DEF TypeOK
<1>2. CASE ~worker[p].piped
    <2>1. Goto(p, "failing")
        BY <1>2 DEF Forward, Goto
    <2> QED BY <1>1, <1>2, <2>1, GotoTurns DEF Stays, PCs
<1>3. CASE worker[p].piped
    <2> DEFINE n == worker[p].i + 1
               w == [worker[p] EXCEPT !.pc = "check", !.i = n]
    <2>1. worker[p].i \in 1..Len(Artifacts)
        BY KeyFacts DEF Forward, At
    <2>2. n \in 1..(Len(Artifacts) + 1)
        BY <2>1, ConstantFacts
    <2>3. worker' = [worker EXCEPT ![p] = w]
        BY <1>3 DEF Forward
    <2> HIDE DEF n
    <2>4. w \in Workers /\ w.pc = "check" /\ w.i = n /\ w.cost = worker[p].cost
             /\ w.mem = worker[p].mem /\ w.piped = worker[p].piped
        BY <1>1, <2>2 DEF Workers, PCs
    <2> HIDE DEF w
    <2>5. Turns(p, w.pc, w.i, w.cost, w.mem)
        BY <1>1, <2>3, <2>4, Turn
    <2> QED BY <1>3, <2>4, <2>5 DEF n
<1> QED BY <1>2, <1>3

LEMMA TurnOfEndFailed ==
    ASSUME TypeOK, NEW p \in Pids, EndFailed(p)
    PROVE  \/ /\ worker[p].piped
              /\ [EndSegment(p, "failed") EXCEPT !.status = "failed"] \in Ledgers
              /\ Turns(p, "failed", worker[p].i, worker[p].cost,
                       [EndSegment(p, "failed") EXCEPT !.status = "failed"])
           \/ ~worker[p].piped /\ Stays(p, "exit")
<1>1. worker \in [Pids -> Workers]
    BY DEF TypeOK
<1>2. CASE ~worker[p].piped
    <2>1. Goto(p, "exit")
        BY <1>2 DEF EndFailed, Goto
    <2> QED BY <1>1, <1>2, <2>1, GotoTurns DEF Stays, PCs
<1>3. CASE worker[p].piped
    <2>1. EndSegment(p, "failed") \in Ledgers
        BY SegmentFacts
    <2> DEFINE mem == [EndSegment(p, "failed") EXCEPT !.status = "failed"]
    <2>2. mem \in Ledgers
        BY <2>1, LedgerFacts DEF Statuses
    <2>3. worker' = [worker EXCEPT ![p].pc = "failed", ![p].mem = mem]
        BY <1>3 DEF EndFailed
    <2> HIDE DEF mem
    <2>4. Turns(p, "failed", worker[p].i, worker[p].cost, mem)
        BY <1>1, <2>2, <2>3, MemTurns DEF PCs
    <2> QED BY <1>3, <2>2, <2>4 DEF mem
<1> QED BY <1>2, <1>3

LEMMA TurnOfEndDone ==
    ASSUME TypeOK, NEW p \in Pids, EndDone(p)
    PROVE  \/ /\ worker[p].piped
              /\ [EndSegment(p, "done") EXCEPT !.done = Len(Artifacts)] \in Ledgers
              /\ Turns(p, "finalize", worker[p].i, worker[p].cost,
                       [EndSegment(p, "done") EXCEPT !.done = Len(Artifacts)])
           \/ ~worker[p].piped /\ Stays(p, "exit")
<1>1. worker \in [Pids -> Workers]
    BY DEF TypeOK
<1>2. CASE ~worker[p].piped
    <2>1. Goto(p, "exit")
        BY <1>2 DEF EndDone, Goto
    <2> QED BY <1>1, <1>2, <2>1, GotoTurns DEF Stays, PCs
<1>3. CASE worker[p].piped
    <2>1. EndSegment(p, "done") \in Ledgers
        BY SegmentFacts
    <2>6. Len(Artifacts) \in 0..Len(Artifacts)
        BY ConstantFacts
    <2> DEFINE mem == [EndSegment(p, "done") EXCEPT !.done = Len(Artifacts)]
    <2>2. mem \in Ledgers
        BY <2>1, <2>6, CountFacts
    <2>3. worker' = [worker EXCEPT ![p].pc = "finalize", ![p].mem = mem]
        BY <1>3 DEF EndDone
    <2> HIDE DEF mem
    <2>4. Turns(p, "finalize", worker[p].i, worker[p].cost, mem)
        BY <1>1, <2>2, <2>3, MemTurns DEF PCs
    <2> QED BY <1>3, <2>2, <2>4 DEF mem
<1> QED BY <1>2, <1>3

\* A worker that is gone, as if it had never been.
Gone(p) ==
    /\ worker' \in [Pids -> Workers]
    /\ \A q \in Pids : q # p => worker'[q] = worker[q]
    /\ worker'[p] = Worker("dead")
    /\ worker'[p].pc = "dead" /\ worker'[p].i = 1 /\ worker'[p].cost = 0
    /\ worker'[p].mem = NewState /\ worker'[p].piped = TRUE

LEMMA TurnOfEnds ==
    ASSUME TypeOK, NEW p \in Pids, Ends(p)
    PROVE  Gone(p)
<1> DEFINE w == Worker("dead")
<1>1. /\ w \in Workers /\ w.pc = "dead" /\ w.i = 1 /\ w.cost = 0 /\ w.mem = NewState
      /\ w.piped = TRUE
    BY WorkerFacts DEF PCs
<1>2. worker' = [worker EXCEPT ![p] = w] /\ worker \in [Pids -> Workers]
    BY DEF Ends, TypeOK
<1>3. w = Worker("dead")
    OBVIOUS
<1> HIDE DEF w
<1>4. /\ worker' \in [Pids -> Workers] /\ worker'[p] = w
      /\ \A q \in Pids : q # p => worker'[q] = worker[q]
    BY <1>1, <1>2
<1> QED BY <1>1, <1>3, <1>4 DEF Gone

LEMMA TurnOfTerminate ==
    ASSUME TypeOK, NEW p \in Pids, Terminate(p)
    PROVE  \/ /\ Gone(p) /\ cutShort' = TRUE
              /\ worker[p].pc \in {"spawned", "finish", "finalize", "exit"}
           \/ Stays(p, worker[p].pc) /\ cutShort' = cutShort
<1>1. worker \in [Pids -> Workers] /\ worker[p] \in Workers
    BY DEF TypeOK
<1>2. CASE /\ Ends(p) /\ cutShort' = TRUE
           /\ worker[p].pc \in {"spawned", "finish", "finalize", "exit"}
    BY <1>2, TurnOfEnds
<1>3. CASE worker' = [worker EXCEPT ![p].signalled = TRUE] /\ UNCHANGED cutShort
    <2> DEFINE w == [worker[p] EXCEPT !.signalled = TRUE]
    <2>1. w \in Workers /\ w.pc = worker[p].pc /\ w.i = worker[p].i /\ w.cost = worker[p].cost
             /\ w.mem = worker[p].mem /\ w.piped = worker[p].piped
        BY <1>1 DEF Workers
    <2>2. worker' = [worker EXCEPT ![p] = w]
        BY <1>3
    <2> HIDE DEF w
    <2>3. Turns(p, w.pc, w.i, w.cost, w.mem)
        BY <1>1, <2>1, <2>2, Turn
    <2> QED BY <1>3, <2>1, <2>3 DEF Stays
<1> QED BY <1>2, <1>3 DEF Terminate

LEMMA TurnOfStart ==
    ASSUME TypeOK, Start
    PROVE  \E p \in Pids : /\ At(p, "none") /\ Stays(p, "spawned")
                           /\ sup' = [pid |-> p, exited |-> FALSE]
<1>1. worker \in [Pids -> Workers]
    BY DEF TypeOK
<1>2. PICK p \in Pids : At(p, "none") /\ Goto(p, "spawned") /\ sup' = [pid |-> p, exited |-> FALSE]
    BY DEF Start
<1>3. Stays(p, "spawned")
    BY <1>1, <1>2, GotoTurns DEF Stays, PCs
<1> QED BY <1>2, <1>3

\* The sidecar forgets every worker.
Forgets ==
    /\ worker' \in [Pids -> Workers]
    /\ \A p \in Pids :
           /\ worker'[p].pc = worker[p].pc /\ worker'[p].i = worker[p].i
           /\ worker'[p].cost = worker[p].cost /\ worker'[p].mem = worker[p].mem
           /\ worker'[p].piped = (worker[p].piped /\ ~Live(p))

LEMMA TurnOfRestart ==
    ASSUME TypeOK, Restart
    PROVE  Forgets
<1>1. worker \in [Pids -> Workers]
    BY DEF TypeOK
<1>2. \A p \in Pids : worker[p] \in Workers
    BY <1>1
<1>3. ASSUME NEW p \in Pids
      PROVE  /\ [worker[p] EXCEPT !.piped = FALSE] \in Workers
             /\ [worker[p] EXCEPT !.piped = FALSE].pc = worker[p].pc
             /\ [worker[p] EXCEPT !.piped = FALSE].i = worker[p].i
             /\ [worker[p] EXCEPT !.piped = FALSE].cost = worker[p].cost
             /\ [worker[p] EXCEPT !.piped = FALSE].mem = worker[p].mem
             /\ [worker[p] EXCEPT !.piped = FALSE].piped = FALSE
    BY <1>2 DEF Workers
<1>4. worker' = [p \in Pids |-> IF Live(p) THEN [worker[p] EXCEPT !.piped = FALSE] ELSE worker[p]]
    BY DEF Restart
<1>5. worker' \in [Pids -> Workers]
    BY <1>2, <1>3, <1>4
<1>6. ASSUME NEW p \in Pids
      PROVE  /\ worker'[p].pc = worker[p].pc /\ worker'[p].i = worker[p].i
             /\ worker'[p].cost = worker[p].cost /\ worker'[p].mem = worker[p].mem
             /\ worker'[p].piped = (worker[p].piped /\ ~Live(p))
    <2>1. worker[p].piped \in BOOLEAN
        BY <1>2 DEF Workers
    <2>2. CASE Live(p)
        BY <1>3, <1>4, <2>1, <2>2
    <2>3. CASE ~Live(p)
        BY <1>4, <2>1, <2>3
    <2> QED BY <2>2, <2>3
<1> QED BY <1>5, <1>6 DEF Forgets

-----------------------------------------------------------------------------
(* Types, and what a worker knows at its place.                            *)

LEMMA TypeInit == ASSUME Init PROVE TypeOK /\ PlaceInv
<1>1. Worker("none") \in Workers /\ Worker("none").pc = "none" /\ Worker("none").cost = 0
    BY WorkerFacts DEF PCs
<1>2. worker = [p \in Pids |-> Worker("none")]
    BY DEF Init
<1>3. worker \in [Pids -> Workers] /\ (\A p \in Pids : worker[p].pc = "none" /\ worker[p].cost = 0)
    BY <1>1, <1>2
<1>4. PlaceInv
    BY <1>3 DEF PlaceInv, Working, Entering
<1>5. layout \in Layouts /\ cache \subseteq Keys /\ ceiling \in Nat \cup {None}
    BY JobAssumption DEF Init, LayoutOK
<1>6. billed \in [Keys -> Nat] /\ lost \in [Keys -> Nat] /\ kills \in 0..MaxKills
         /\ restarts \in 0..MaxRestarts
    BY ConstantFacts DEF Init
<1>7. state \in Ledgers \cup {None}
    BY NewStateFacts DEF Init
<1>8. sup \in [pid : Pids \cup {None}, exited : BOOLEAN]
    BY DEF Init
<1>9. cancel \in [pc : {"idle", "look", "wait", "terminated", "read", "write"},
                  state : Ledgers \cup {None}]
    BY DEF Init
<1>10. /\ request \in BOOLEAN /\ pauseFile \in BOOLEAN /\ gone \in BOOLEAN
       /\ torn \in BOOLEAN /\ cutShort \in BOOLEAN /\ cutCopy \in BOOLEAN
    BY DEF Init
<1> QED BY <1>3, <1>4, <1>5, <1>6, <1>7, <1>8, <1>9, <1>10 DEF TypeOK

\* What may happen, one action after the other.
LEMMA Cases ==
    ASSUME Next
    PROVE  \/ \E p \in Pids :
                  \/ Boot(p)
                  \/ Open(p)
                  \/ CopyLook(p)
                  \/ CopyFile(p)
                  \/ CopyContents(p)
                  \/ Setup(p)
                  \/ Check(p)
                  \/ Store(p)
                  \/ Report(p)
                  \/ Forward(p)
                  \/ Rendered(p)
                  \/ Assemble(p)
                  \/ EndPaused(p)
                  \/ EndFailed(p)
                  \/ WriteFailed(p)
                  \/ EndDone(p)
                  \/ Finalize(p)
                  \/ Exit(p)
                  \/ Call(p)
                  \/ Fails(p)
                  \/ Kill(p)
           \/ Reap \/ CancelLook \/ CancelTimeout \/ CancelProceed \/ CancelRead \/ CancelWrite
           \/ Start \/ Pause \/ CancelAsk \/ Delete \/ DeleteParent
           \/ RaiseCeiling \/ Restart
BY DEF Next, Works, Manages

LEMMA TypeOfWork ==
    ASSUME TypeOK, PlaceInv, NEW p \in Pids, Works(p) \/ Call(p) \/ Fails(p) \/ Kill(p)
    PROVE  TypeOK'
<1>1. Mem(p) \in Ledgers
    BY DEF TypeOK, Mem, Workers
<1>2. CASE Boot(p)
    <2>1. worker' \in [Pids -> Workers]
        BY <1>2, TurnOfBoot DEF Stays, Turns
    <2>2. UNCHANGED <<request, state, ceiling, cache, torn, layout, gone, sup, cancel, billed, lost,
                     cutShort, cutCopy, kills, restarts>>
        BY <1>2 DEF Boot, disk, copies, manager, history
    <2>3. pauseFile' \in BOOLEAN
        BY <1>2 DEF Boot, TypeOK
    <2> QED BY <2>1, <2>2, <2>3 DEF TypeOK
<1>3. CASE Open(p)
    <2>1. worker' \in [Pids -> Workers]
        BY <1>3, TurnOfOpen DEF Stays, Turns
    <2>2. UNCHANGED <<request, pauseFile, ceiling, cache, torn, layout, gone, sup, cancel, billed, lost,
                     cutShort, cutCopy, kills, restarts>>
        BY <1>3 DEF Open, disk, copies, manager, history
    <2>3. state' \in Ledgers
        BY <1>3, TurnOfOpen, EntryFacts
    <2> QED BY <2>1, <2>2, <2>3 DEF TypeOK
<1>4. CASE CopyLook(p)
    <2>1. worker' \in [Pids -> Workers]
        BY <1>4, TurnsOfMoves DEF Stays, Turns
    <2>2. UNCHANGED <<request, pauseFile, state, ceiling, cache, torn, layout, gone, sup, cancel, billed,
                     lost, cutShort, cutCopy, kills, restarts>>
        BY <1>4 DEF CopyLook, disk, copies, manager, history
    <2> QED BY <2>1, <2>2 DEF TypeOK
<1>5. CASE CopyFile(p)
    <2>1. worker' \in [Pids -> Workers]
        BY <1>5, TurnsOfMoves DEF Stays, Turns
    <2>2. UNCHANGED <<request, pauseFile, state, ceiling, cache, layout, gone, sup, cancel, billed, lost,
                     cutShort, cutCopy, kills, restarts>>
        BY <1>5 DEF CopyFile, disk, copies, manager, history
    <2>3. torn' \in BOOLEAN
        BY <1>5 DEF CopyFile, TypeOK
    <2> QED BY <2>1, <2>2, <2>3 DEF TypeOK
<1>6. CASE CopyContents(p)
    <2>1. worker' \in [Pids -> Workers]
        BY <1>6, TurnsOfMoves DEF Stays, Turns
    <2>2. UNCHANGED <<request, pauseFile, state, ceiling, layout, gone, sup, cancel, billed, lost,
                     cutShort, cutCopy, kills, restarts>>
        BY <1>6 DEF CopyContents, disk, copies, manager, history
    <2>4. layout.parent \subseteq Keys
        BY JobAssumption DEF TypeOK, LayoutOK
    <2>3. cache' \subseteq Keys /\ torn' \in BOOLEAN
        BY <1>6, <2>4 DEF CopyContents, TypeOK
    <2> QED BY <2>1, <2>2, <2>3 DEF TypeOK
<1>7. CASE Setup(p)
    <2>1. worker' \in [Pids -> Workers]
        BY <1>7, TurnsOfMoves DEF Stays, Turns
    <2>2. UNCHANGED <<request, pauseFile, ceiling, cache, torn, layout, gone, sup, cancel, billed, lost,
                     cutShort, cutCopy, kills, restarts>>
        BY <1>7 DEF Setup, disk, copies, manager, history
    <2>3. state' \in Ledgers
        BY <1>1, <1>7 DEF Setup
    <2> QED BY <2>1, <2>2, <2>3 DEF TypeOK
<1>8. CASE Check(p)
    <2>1. worker' \in [Pids -> Workers]
        BY <1>8, TurnsOfMoves DEF Stays, Turns
    <2>2. UNCHANGED <<request, pauseFile, state, ceiling, cache, torn, layout, gone, sup, cancel, billed,
                     lost, cutShort, cutCopy, kills, restarts>>
        BY <1>8 DEF Check, disk, copies, manager, history
    <2> QED BY <2>1, <2>2 DEF TypeOK
<1>9. CASE Store(p)
    <2>1. worker' \in [Pids -> Workers]
        BY <1>9, TurnOfStore DEF Stays, Turns
    <2>2. UNCHANGED <<request, pauseFile, state, ceiling, torn, layout, gone, sup, cancel, billed, lost,
                     cutShort, cutCopy, kills, restarts>>
        BY <1>9 DEF Store, disk, copies, manager, history
    <2>3. Key(p) \in Keys
        BY <1>9, KeyFacts DEF Store, At
    <2>4. cache' \subseteq Keys
        BY <1>9, <2>3 DEF Store, TypeOK
    <2> QED BY <2>1, <2>2, <2>3, <2>4 DEF TypeOK
<1>10. CASE Report(p)
    <2>1. worker' \in [Pids -> Workers]
        BY <1>10, TurnOfReport DEF Stays, Turns
    <2>2. UNCHANGED <<request, pauseFile, ceiling, cache, torn, layout, gone, sup, cancel, billed, lost,
                     cutShort, cutCopy, kills, restarts>>
        BY <1>10 DEF Report, disk, copies, manager, history
    <2>3. state' \in Ledgers
        BY <1>10, TurnOfReport
    <2> QED BY <2>1, <2>2, <2>3 DEF TypeOK
<1>11. CASE Forward(p)
    <2>1. worker' \in [Pids -> Workers]
        BY <1>11, TurnOfForward DEF Stays, Turns
    <2>2. UNCHANGED <<request, pauseFile, state, ceiling, cache, torn, layout, gone, sup, cancel, billed,
                     lost, cutShort, cutCopy, kills, restarts>>
        BY <1>11 DEF Forward, disk, copies, manager, history
    <2> QED BY <2>1, <2>2 DEF TypeOK
<1>12. CASE Rendered(p)
    <2>1. worker' \in [Pids -> Workers]
        BY <1>12, TurnsOfMoves DEF Stays, Turns
    <2>2. UNCHANGED <<request, pauseFile, state, ceiling, cache, torn, layout, gone, sup, cancel, billed,
                     lost, cutShort, cutCopy, kills, restarts>>
        BY <1>12 DEF Rendered, disk, copies, manager, history
    <2> QED BY <2>1, <2>2 DEF TypeOK
<1>13. CASE Assemble(p)
    <2>1. worker' \in [Pids -> Workers]
        BY <1>13, TurnsOfMoves DEF Stays, Turns
    <2>2. UNCHANGED <<request, pauseFile, ceiling, cache, torn, layout, gone, sup, cancel, billed, lost,
                     cutShort, cutCopy, kills, restarts>>
        BY <1>13 DEF Assemble, disk, copies, manager, history
    <2>3. state' \in Ledgers
        BY <1>1, <1>13 DEF Assemble
    <2> QED BY <2>1, <2>2, <2>3 DEF TypeOK
<1>14. CASE EndPaused(p)
    <2>1. worker' \in [Pids -> Workers]
        BY <1>14, TurnsOfMoves DEF Stays, Turns
    <2>2. UNCHANGED <<request, pauseFile, ceiling, cache, torn, layout, gone, sup, cancel, billed, lost,
                     cutShort, cutCopy, kills, restarts>>
        BY <1>14 DEF EndPaused, disk, copies, manager, history
    <2>3. EndSegment(p, "paused") \in Ledgers
        BY SegmentFacts
    <2>4. state' \in Ledgers
        BY <1>14, <2>3, LedgerFacts DEF EndPaused, Statuses
    <2> QED BY <2>1, <2>2, <2>3, <2>4 DEF TypeOK
<1>15. CASE EndFailed(p)
    <2>1. worker' \in [Pids -> Workers]
        BY <1>15, TurnOfEndFailed DEF Stays, Turns
    <2>2. UNCHANGED <<request, pauseFile, state, ceiling, cache, torn, layout, gone, sup, cancel, billed,
                     lost, cutShort, cutCopy, kills, restarts>>
        BY <1>15 DEF EndFailed, disk, copies, manager, history
    <2> QED BY <2>1, <2>2 DEF TypeOK
<1>16. CASE WriteFailed(p)
    <2>1. worker' \in [Pids -> Workers]
        BY <1>16, TurnsOfMoves DEF Stays, Turns
    <2>2. UNCHANGED <<request, pauseFile, ceiling, cache, torn, layout, gone, sup, cancel, billed, lost,
                     cutShort, cutCopy, kills, restarts>>
        BY <1>16 DEF WriteFailed, disk, copies, manager, history
    <2>3. state' \in Ledgers
        BY <1>1, <1>16 DEF WriteFailed
    <2> QED BY <2>1, <2>2, <2>3 DEF TypeOK
<1>17. CASE EndDone(p)
    <2>1. worker' \in [Pids -> Workers]
        BY <1>17, TurnOfEndDone DEF Stays, Turns
    <2>2. UNCHANGED <<request, pauseFile, state, ceiling, cache, torn, layout, gone, sup, cancel, billed,
                     lost, cutShort, cutCopy, kills, restarts>>
        BY <1>17 DEF EndDone, disk, copies, manager, history
    <2> QED BY <2>1, <2>2 DEF TypeOK
<1>18. CASE Finalize(p)
    <2>1. worker' \in [Pids -> Workers]
        BY <1>18, TurnsOfMoves DEF Stays, Turns
    <2>2. UNCHANGED <<request, pauseFile, ceiling, cache, torn, layout, gone, sup, cancel, billed, lost,
                     cutShort, cutCopy, kills, restarts>>
        BY <1>18 DEF Finalize, disk, copies, manager, history
    <2>3. state' \in Ledgers
        BY <1>18, <1>1, LedgerFacts DEF Finalize, Statuses
    <2> QED BY <2>1, <2>2, <2>3 DEF TypeOK
<1>19. CASE Exit(p)
    <2>1. worker' \in [Pids -> Workers]
        BY <1>19, TurnOfEnds DEF Gone, Exit
    <2>2. UNCHANGED <<request, pauseFile, state, ceiling, cache, torn, layout, gone, sup, cancel, billed,
                     lost, cutShort, cutCopy, kills, restarts>>
        BY <1>19 DEF Exit, disk, copies, manager, history
    <2> QED BY <2>1, <2>2 DEF TypeOK
<1>20. CASE Call(p)
    <2>1. worker' \in [Pids -> Workers]
        BY <1>20, TurnOfCall DEF Stays, Turns
    <2>2. UNCHANGED <<request, pauseFile, state, ceiling, cache, torn, layout, gone, sup, cancel,
                     cutShort, cutCopy, kills, restarts>>
        BY <1>20 DEF Call, disk, copies, manager, history
    <2>3. Key(p) \in Keys
        BY <1>20, KeyFacts DEF Call, At
    <2>4. billed' \in [Keys -> Nat]
        BY <1>20, <2>3 DEF Call, TypeOK
    <2>5. lost' \in [Keys -> Nat]
        BY <1>20, <2>3, TurnOfCall DEF TypeOK
    <2> QED BY <2>1, <2>2, <2>3, <2>4, <2>5 DEF TypeOK
<1>21. CASE Fails(p)
    <2>1. worker' \in [Pids -> Workers]
        BY <1>21, TurnsOfMoves DEF Stays, Turns
    <2>2. UNCHANGED <<request, pauseFile, state, ceiling, cache, torn, layout, gone, sup, cancel, billed,
                     lost, cutShort, cutCopy, kills, restarts>>
        BY <1>21 DEF Fails, disk, copies, manager, history
    <2> QED BY <2>1, <2>2 DEF TypeOK
<1>22. CASE Kill(p)
    <2>1. worker' \in [Pids -> Workers]
        BY <1>22, TurnOfEnds DEF Gone, Kill
    <2>2. UNCHANGED <<request, pauseFile, state, ceiling, cache, torn, layout, gone, sup, cancel, billed,
                     restarts>>
        BY <1>22 DEF Kill, disk, copies, manager, history
    <2>3. lost' \in [Keys -> Nat]
        BY <1>22 DEF Kill, LostWith, TypeOK
    <2>4. kills' \in 0..MaxKills
        BY <1>22, ConstantFacts DEF Kill, TypeOK
    <2>5. cutShort' \in BOOLEAN /\ cutCopy' \in BOOLEAN
        BY <1>22 DEF Kill, TypeOK
    <2> QED BY <2>1, <2>2, <2>3, <2>4, <2>5 DEF TypeOK
<1> QED BY <1>2, <1>3, <1>4, <1>5, <1>6, <1>7, <1>8, <1>9, <1>10, <1>11, <1>12, <1>13, <1>14,
           <1>15, <1>16, <1>17, <1>18, <1>19, <1>20, <1>21, <1>22 DEF Works

Cancels == [pc : {"idle", "look", "wait", "terminated", "read", "write"},
            state : Ledgers \cup {None}]

LEMMA TypeOfManager ==
    ASSUME TypeOK,
           \/ Reap \/ CancelLook \/ CancelTimeout \/ CancelProceed \/ CancelRead \/ CancelWrite
           \/ Start \/ Pause \/ CancelAsk \/ Delete \/ DeleteParent
           \/ RaiseCeiling \/ Restart,
           cancel.pc = "write" => cancel.state # None
    PROVE  TypeOK'
<1>1. cancel \in Cancels /\ sup \in [pid : Pids \cup {None}, exited : BOOLEAN]
    BY DEF TypeOK, Cancels
<1>2. CASE Reap
    <2>1. UNCHANGED <<request, pauseFile, state, ceiling, cache, torn, layout, gone, worker, cancel,
                     billed, lost, cutShort, cutCopy, kills, restarts>>
        BY <1>2 DEF Reap, disk, copies, manager, history
    <2>2. sup' \in [pid : Pids \cup {None}, exited : BOOLEAN]
        BY <1>1, <1>2 DEF Reap
    <2> QED BY <2>1, <2>2 DEF TypeOK, Cancels
<1>3. CASE CancelLook
    <2>1. UNCHANGED <<request, pauseFile, state, ceiling, cache, torn, layout, gone, worker, sup, billed,
                     lost, cutShort, cutCopy, kills, restarts>>
        BY <1>3 DEF CancelLook, disk, copies, manager, history
    <2>2. cancel' \in Cancels
        BY <1>1, <1>3 DEF CancelLook, Cancels
    <2> QED BY <2>1, <2>2 DEF TypeOK, Cancels
<1>4. CASE CancelTimeout
    <2>1. UNCHANGED <<request, pauseFile, state, ceiling, cache, torn, layout, gone, sup, billed, lost,
                     cutCopy, kills, restarts>>
        BY <1>4 DEF CancelTimeout, disk, copies, manager, history
    <2>2. cancel' \in Cancels
        BY <1>1, <1>4 DEF CancelTimeout, Cancels
    <2>3. sup.pid \in Pids
        BY <1>1, <1>4 DEF CancelTimeout, Supervised
    <2>4. Terminate(sup.pid)
        BY <1>4 DEF CancelTimeout
    <2>5. worker' \in [Pids -> Workers] /\ cutShort' \in BOOLEAN
        BY <2>3, <2>4, TurnOfTerminate DEF Stays, Turns, Gone, TypeOK
    <2> QED BY <2>1, <2>2, <2>3, <2>4, <2>5 DEF TypeOK, Cancels
<1>5. CASE CancelProceed
    <2>1. UNCHANGED <<request, pauseFile, state, ceiling, cache, torn, layout, gone, worker, sup, billed,
                     lost, cutShort, cutCopy, kills, restarts>>
        BY <1>5 DEF CancelProceed, disk, copies, manager, history
    <2>2. cancel' \in Cancels
        BY <1>1, <1>5 DEF CancelProceed, Cancels
    <2> QED BY <2>1, <2>2 DEF TypeOK, Cancels
<1>6. CASE CancelRead
    <2>1. UNCHANGED <<request, pauseFile, state, ceiling, cache, torn, layout, gone, worker, sup, billed,
                     lost, cutShort, cutCopy, kills, restarts>>
        BY <1>6 DEF CancelRead, disk, copies, manager, history
    <2>2. cancel' \in Cancels
        BY <1>1, <1>6 DEF CancelRead, Cancels, TypeOK
    <2> QED BY <2>1, <2>2 DEF TypeOK, Cancels
<1>7. CASE CancelWrite
    <2>1. UNCHANGED <<request, pauseFile, ceiling, cache, torn, layout, gone, worker, sup, billed, lost,
                     cutShort, cutCopy, kills, restarts>>
        BY <1>7 DEF CancelWrite, disk, copies, manager, history
    <2>2. cancel' \in Cancels
        BY <1>1, <1>7 DEF CancelWrite, Cancels
    <2>3. cancel.state \in Ledgers
        BY <1>1, <1>7 DEF CancelWrite, Cancels
    <2>4. state' \in Ledgers \cup {None}
        BY <2>3, <1>7, LedgerFacts DEF CancelWrite, TypeOK, Statuses
    <2> QED BY <2>1, <2>2, <2>3, <2>4 DEF TypeOK, Cancels
<1>8. CASE Start
    <2>1. UNCHANGED <<request, pauseFile, state, ceiling, cache, torn, layout, gone, cancel, billed,
                     lost, cutShort, cutCopy, kills, restarts>>
        BY <1>8 DEF Start, disk, copies, manager, history
    <2>2. PICK p \in Pids : Stays(p, "spawned") /\ sup' = [pid |-> p, exited |-> FALSE]
        BY <1>8, TurnOfStart
    <2>3. worker' \in [Pids -> Workers] /\ sup' \in [pid : Pids \cup {None}, exited : BOOLEAN]
        BY <2>2 DEF Stays, Turns
    <2> QED BY <2>1, <2>2, <2>3 DEF TypeOK, Cancels
<1>9. CASE Pause
    <2>1. UNCHANGED <<request, state, ceiling, cache, torn, layout, gone, worker, sup, cancel, billed,
                     lost, cutShort, cutCopy, kills, restarts>>
        BY <1>9 DEF Pause, disk, copies, manager, history
    <2>2. pauseFile' \in BOOLEAN
        BY <1>9 DEF Pause
    <2> QED BY <2>1, <2>2 DEF TypeOK, Cancels
<1>10. CASE CancelAsk
    <2>1. UNCHANGED <<request, state, ceiling, cache, torn, layout, gone, worker, sup, billed, lost,
                     cutShort, cutCopy, kills, restarts>>
        BY <1>10 DEF CancelAsk, disk, copies, manager, history
    <2>2. cancel' \in Cancels
        BY <1>1, <1>10 DEF CancelAsk, Cancels
    <2>3. pauseFile' \in BOOLEAN
        BY <1>10 DEF CancelAsk
    <2> QED BY <2>1, <2>2, <2>3 DEF TypeOK, Cancels
<1>11. CASE Delete
    <2>1. UNCHANGED <<ceiling, layout, gone, torn, worker, sup, cancel, billed, lost, cutShort,
                     cutCopy, kills, restarts>>
        BY <1>11 DEF Delete, disk, copies, manager, history
    <2>2. /\ request' \in BOOLEAN /\ state' \in Ledgers \cup {None} /\ pauseFile' \in BOOLEAN
         /\ cache' \subseteq Keys
        BY <1>11 DEF Delete, TypeOK
    <2> QED BY <2>1, <2>2 DEF TypeOK, Cancels
<1>14. CASE DeleteParent
    <2>1. UNCHANGED <<request, state, pauseFile, ceiling, layout, torn, worker, sup, cancel, billed,
                     lost, cutShort, cutCopy, kills, restarts>>
        BY <1>14 DEF DeleteParent, disk, copies, manager, history
    <2>2. cache' \subseteq Keys /\ gone' \in BOOLEAN
        BY <1>14 DEF DeleteParent, TypeOK
    <2> QED BY <2>1, <2>2 DEF TypeOK, Cancels
<1>12. CASE RaiseCeiling
    <2>1. UNCHANGED <<request, pauseFile, state, cache, torn, layout, gone, worker, sup, cancel, billed,
                     lost, cutShort, cutCopy, kills, restarts>>
        BY <1>12 DEF RaiseCeiling, disk, copies, manager, history
    <2>2. ceiling' \in Nat \cup {None}
        BY <1>12 DEF RaiseCeiling
    <2> QED BY <2>1, <2>2 DEF TypeOK, Cancels
<1>13. CASE Restart
    <2>1. UNCHANGED <<request, pauseFile, state, ceiling, cache, torn, layout, gone, billed, lost,
                     cutShort, cutCopy, kills>>
        BY <1>13 DEF Restart, disk, copies, manager, history
    <2>2. cancel' \in Cancels
        BY <1>1, <1>13 DEF Restart, Cancels
    <2>3. sup' \in [pid : Pids \cup {None}, exited : BOOLEAN]
        BY <1>1, <1>13 DEF Restart
    <2>4. worker' \in [Pids -> Workers]
        BY <1>13, TurnOfRestart DEF Forgets
    <2>5. restarts' \in 0..MaxRestarts
        BY <1>13, ConstantFacts DEF Restart, TypeOK
    <2> QED BY <2>1, <2>2, <2>3, <2>4, <2>5 DEF TypeOK, Cancels
<1> QED BY <1>2, <1>3, <1>4, <1>5, <1>6, <1>7, <1>8, <1>9, <1>10, <1>11, <1>12, <1>13,
           <1>14

\* Where each step leads from where.
LEMMA Path ==
    ASSUME TypeOK, PlaceInv, NEW p \in Pids
    PROVE  /\ Boot(p) =>
                At(p, "spawned") /\ Stays(p, IF request THEN "open" ELSE "exit")
           /\ Open(p) =>
                At(p, "open") /\ Turns(p, "look", worker[p].i, worker[p].cost, Entry(p, Found))
           /\ CopyLook(p) =>
                /\ At(p, "look")
                /\ \/ MayCopy /\ cache = {} /\ ~torn /\ Stays(p, "copy")
                   \/ ~(MayCopy /\ cache = {} /\ ~torn) /\ Stays(p, "setup")
           /\ CopyFile(p) =>
                /\ At(p, "copy")
                /\ \/ (gone \/ layout.parent \subseteq cache) /\ Stays(p, "setup")
                   \/ ~(gone \/ layout.parent \subseteq cache) /\ Stays(p, "copying")
           /\ CopyContents(p) =>
                At(p, "copying") /\ Stays(p, "copy")
           /\ Setup(p) =>
                /\ At(p, "setup")
                /\ Stays(p, "failing") \/ (worker[p].piped /\ Stays(p, "check"))
           /\ Check(p) =>
                /\ At(p, "check") /\ worker[p].i <= Len(Artifacts)
                /\ \/ Stays(p, "pausing")
                   \/ Key(p) \in cache /\ Stays(p, "report")
                   \/ Key(p) \notin cache /\ Stays(p, "call")
           /\ Store(p) =>
                /\ At(p, "store")
                /\ Turns(p, "report", worker[p].i, worker[p].cost + Price[Key(p)], worker[p].mem)
           /\ Report(p) =>
                /\ At(p, "report")
                /\ Turns(p, "forward", worker[p].i, worker[p].cost,
                         [Mem(p) EXCEPT !.done = worker[p].i])
           /\ Forward(p) =>
                /\ At(p, "forward")
                /\ \/ /\ worker[p].piped
                      /\ Turns(p, "check", worker[p].i + 1, worker[p].cost, worker[p].mem)
                   \/ ~worker[p].piped /\ Stays(p, "failing")
           /\ Rendered(p) =>
                At(p, "check") /\ worker[p].i > Len(Artifacts) /\ Stays(p, "assemble")
           /\ Assemble(p) =>
                At(p, "assemble") /\ (Stays(p, "finish") \/ Stays(p, "failing"))
           /\ EndPaused(p) =>
                At(p, "pausing") /\ Stays(p, "exit")
           /\ EndFailed(p) =>
                /\ At(p, "failing")
                /\ \/ Turns(p, "failed", worker[p].i, worker[p].cost,
                            [EndSegment(p, "failed") EXCEPT !.status = "failed"])
                   \/ ~worker[p].piped /\ Stays(p, "exit")
           /\ WriteFailed(p) =>
                At(p, "failed") /\ Stays(p, "exit")
           /\ EndDone(p) =>
                /\ At(p, "finish")
                /\ \/ Turns(p, "finalize", worker[p].i, worker[p].cost,
                            [EndSegment(p, "done") EXCEPT !.done = Len(Artifacts)])
                   \/ ~worker[p].piped /\ Stays(p, "exit")
           /\ Finalize(p) =>
                At(p, "finalize") /\ Stays(p, "exit")
           /\ Exit(p) =>
                At(p, "exit") /\ Gone(p)
           /\ Call(p) =>
                At(p, "call") /\ (Stays(p, "failing") \/ Stays(p, "store"))
           /\ Fails(p) =>
                worker[p].pc \in {"setup", "call", "assemble", "copy"} /\ Stays(p, "failing")
           /\ Kill(p) =>
                Live(p) /\ Gone(p)
<1>1. Boot(p) =>
                At(p, "spawned") /\ Stays(p, IF request THEN "open" ELSE "exit")
    BY TurnOfBoot DEF Boot, At
<1>2. Open(p) =>
                At(p, "open") /\ Turns(p, "look", worker[p].i, worker[p].cost, Entry(p, Found))
    BY TurnOfOpen DEF Open, At
<1>3. CopyLook(p) =>
                /\ At(p, "look")
                /\ \/ MayCopy /\ cache = {} /\ ~torn /\ Stays(p, "copy")
                   \/ ~(MayCopy /\ cache = {} /\ ~torn) /\ Stays(p, "setup")
    BY TurnsOfMoves DEF CopyLook, At
<1>4. CopyFile(p) =>
                /\ At(p, "copy")
                /\ \/ (gone \/ layout.parent \subseteq cache) /\ Stays(p, "setup")
                   \/ ~(gone \/ layout.parent \subseteq cache) /\ Stays(p, "copying")
    BY TurnsOfMoves DEF CopyFile, At
<1>5. CopyContents(p) =>
                At(p, "copying") /\ Stays(p, "copy")
    BY TurnsOfMoves DEF CopyContents, At
<1>6. Setup(p) =>
                /\ At(p, "setup")
                /\ Stays(p, "failing") \/ (worker[p].piped /\ Stays(p, "check"))
    BY TurnsOfMoves DEF Setup, At
<1>7. Check(p) =>
                /\ At(p, "check") /\ worker[p].i <= Len(Artifacts)
                /\ \/ Stays(p, "pausing")
                   \/ Key(p) \in cache /\ Stays(p, "report")
                   \/ Key(p) \notin cache /\ Stays(p, "call")
    BY TurnsOfMoves DEF Check, At
<1>8. Store(p) =>
                /\ At(p, "store")
                /\ Turns(p, "report", worker[p].i, worker[p].cost + Price[Key(p)], worker[p].mem)
    BY TurnOfStore DEF Store, At
<1>9. Report(p) =>
                /\ At(p, "report")
                /\ Turns(p, "forward", worker[p].i, worker[p].cost,
                         [Mem(p) EXCEPT !.done = worker[p].i])
    BY TurnOfReport DEF Report, At
<1>10. Forward(p) =>
                /\ At(p, "forward")
                /\ \/ /\ worker[p].piped
                      /\ Turns(p, "check", worker[p].i + 1, worker[p].cost, worker[p].mem)
                   \/ ~worker[p].piped /\ Stays(p, "failing")
    BY TurnOfForward DEF Forward, At
<1>11. Rendered(p) =>
                At(p, "check") /\ worker[p].i > Len(Artifacts) /\ Stays(p, "assemble")
    BY TurnsOfMoves DEF Rendered, At
<1>12. Assemble(p) =>
                At(p, "assemble") /\ (Stays(p, "finish") \/ Stays(p, "failing"))
    BY TurnsOfMoves DEF Assemble, At
<1>13. EndPaused(p) =>
                At(p, "pausing") /\ Stays(p, "exit")
    BY TurnsOfMoves DEF EndPaused, At
<1>14. EndFailed(p) =>
                /\ At(p, "failing")
                /\ \/ Turns(p, "failed", worker[p].i, worker[p].cost,
                            [EndSegment(p, "failed") EXCEPT !.status = "failed"])
                   \/ ~worker[p].piped /\ Stays(p, "exit")
    BY TurnOfEndFailed DEF EndFailed, At
<1>15. WriteFailed(p) =>
                At(p, "failed") /\ Stays(p, "exit")
    BY TurnsOfMoves DEF WriteFailed, At
<1>16. EndDone(p) =>
                /\ At(p, "finish")
                /\ \/ Turns(p, "finalize", worker[p].i, worker[p].cost,
                            [EndSegment(p, "done") EXCEPT !.done = Len(Artifacts)])
                   \/ ~worker[p].piped /\ Stays(p, "exit")
    BY TurnOfEndDone DEF EndDone, At
<1>17. Finalize(p) =>
                At(p, "finalize") /\ Stays(p, "exit")
    BY TurnsOfMoves DEF Finalize, At
<1>18. Exit(p) =>
                At(p, "exit") /\ Gone(p)
    BY TurnOfEnds DEF Exit, At
<1>19. Call(p) =>
                At(p, "call") /\ (Stays(p, "failing") \/ Stays(p, "store"))
    BY TurnOfCall DEF Call, At
<1>20. Fails(p) =>
                worker[p].pc \in {"setup", "call", "assemble", "copy"} /\ Stays(p, "failing")
    BY TurnsOfMoves DEF Fails, At
<1>21. Kill(p) =>
                Live(p) /\ Gone(p)
    BY TurnOfEnds DEF Kill
<1> QED BY <1>1, <1>2, <1>3, <1>4, <1>5, <1>6, <1>7, <1>8, <1>9, <1>10, <1>11, <1>12, <1>13,
           <1>14, <1>15, <1>16, <1>17, <1>18, <1>19, <1>20, <1>21

LEMMA PlaceOfOne ==
    ASSUME PlaceInv, NEW p \in Pids, \A q \in Pids : q # p => worker'[q] = worker[q],
           /\ worker'[p].pc \in {"call", "store", "report", "forward"} =>
                  worker'[p].i <= Len(Artifacts)
           /\ worker'[p].pc \in {"assemble", "finish", "finalize"} => worker'[p].i > Len(Artifacts)
           /\ worker'[p].pc \in Working \ {"failed"} => worker'[p].mem.status = "running"
           /\ worker'[p].pc \in Working => worker'[p].mem.pid = p
           /\ worker'[p].pc = "failed" => worker'[p].mem.status = "failed"
           /\ worker'[p].pc \in Entering \cup {"dead"} => worker'[p].cost = 0
    PROVE  PlaceInv'
BY DEF PlaceInv

LEMMA PlaceOfWork ==
    ASSUME TypeOK, PlaceInv, NEW p \in Pids, Works(p) \/ Call(p) \/ Fails(p) \/ Kill(p)
    PROVE  PlaceInv'
<1>1. Mem(p) \in Ledgers /\ Mem(p) = worker[p].mem /\ worker[p].i \in 1..(Len(Artifacts) + 1)
    BY DEF TypeOK, Mem, Workers
<1>2. /\ worker[p].pc \in {"call", "store", "report", "forward"} => worker[p].i <= Len(Artifacts)
      /\ worker[p].pc \in {"assemble", "finish", "finalize"} => worker[p].i > Len(Artifacts)
      /\ worker[p].pc \in Working \ {"failed"} => worker[p].mem.status = "running"
      /\ worker[p].pc \in Working => worker[p].mem.pid = p
      /\ worker[p].pc = "failed" => worker[p].mem.status = "failed"
      /\ worker[p].pc \in Entering \cup {"dead"} => worker[p].cost = 0
    BY DEF PlaceInv
<1>3. CASE Boot(p)
    <2>1. At(p, "spawned") /\ (Stays(p, "open") \/ Stays(p, "exit"))
        BY <1>3, Path
    <2> QED BY <1>2, <2>1, PlaceOfOne DEF Stays, Turns, Working, Entering, At
<1>4. CASE Open(p)
    <2>1. Found \in Ledgers
        BY <1>4, TurnOfOpen
    <2>2. Entry(p, Found).status = "running" /\ Entry(p, Found).pid = p
        BY <2>1, EntryFacts
    <2>3. At(p, "open") /\ Turns(p, "look", worker[p].i, worker[p].cost, Entry(p, Found))
        BY <1>4, Path
    <2> QED BY <1>2, <2>2, <2>3, PlaceOfOne DEF Turns, Working, Entering, At
<1>5. CASE CopyLook(p)
    <2>1. At(p, "look") /\ (Stays(p, "copy") \/ Stays(p, "setup"))
        BY <1>5, Path
    <2> QED BY <1>2, <2>1, PlaceOfOne DEF Stays, Turns, Working, Entering, At
<1>6. CASE CopyFile(p)
    <2>1. At(p, "copy") /\ (Stays(p, "setup") \/ Stays(p, "copying"))
        BY <1>6, Path
    <2> QED BY <1>2, <2>1, PlaceOfOne DEF Stays, Turns, Working, Entering, At
<1>7. CASE CopyContents(p)
    <2>1. At(p, "copying") /\ Stays(p, "copy")
        BY <1>7, Path
    <2> QED BY <1>2, <2>1, PlaceOfOne DEF Stays, Turns, Working, Entering, At
<1>8. CASE Setup(p)
    <2>1. At(p, "setup") /\ (Stays(p, "failing") \/ Stays(p, "check"))
        BY <1>8, Path
    <2> QED BY <1>2, <2>1, PlaceOfOne DEF Stays, Turns, Working, Entering, At
<1>9. CASE Check(p)
    <2>1. /\ At(p, "check") /\ worker[p].i <= Len(Artifacts)
          /\ Stays(p, "pausing") \/ Stays(p, "report") \/ Stays(p, "call")
        BY <1>9, Path
    <2> QED BY <1>2, <2>1, PlaceOfOne DEF Stays, Turns, Working, Entering, At
<1>10. CASE Store(p)
    <2>1. /\ At(p, "store")
          /\ Turns(p, "report", worker[p].i, worker[p].cost + Price[Key(p)], worker[p].mem)
        BY <1>10, Path
    <2> QED BY <1>2, <2>1, PlaceOfOne DEF Stays, Turns, Working, Entering, At
<1>11. CASE Report(p)
    <2>1. worker[p].i \in 0..Len(Artifacts)
        BY <1>11, TurnOfReport
    <2> DEFINE mem == [Mem(p) EXCEPT !.done = worker[p].i]
    <2>2. mem.status = worker[p].mem.status /\ mem.pid = worker[p].mem.pid
        BY <1>1, <2>1, CountFacts
    <2>3. At(p, "report") /\ Turns(p, "forward", worker[p].i, worker[p].cost, mem)
        BY <1>11, Path
    <2> HIDE DEF mem
    <2> QED BY <1>2, <2>2, <2>3, PlaceOfOne DEF Turns, Working, Entering, At
<1>12. CASE Forward(p)
    <2>1. At(p, "forward") /\ (Stays(p, "failing")
                               \/ Turns(p, "check", worker[p].i + 1, worker[p].cost, worker[p].mem))
        BY <1>12, Path
    <2> QED BY <1>2, <2>1, PlaceOfOne DEF Stays, Turns, Working, Entering, At
<1>13. CASE Rendered(p)
    <2>1. At(p, "check") /\ worker[p].i > Len(Artifacts) /\ Stays(p, "assemble")
        BY <1>13, Path
    <2> QED BY <1>2, <2>1, PlaceOfOne DEF Stays, Turns, Working, Entering, At
<1>14. CASE Assemble(p)
    <2>1. At(p, "assemble") /\ (Stays(p, "finish") \/ Stays(p, "failing"))
        BY <1>14, Path
    <2> QED BY <1>2, <2>1, PlaceOfOne DEF Stays, Turns, Working, Entering, At
<1>15. CASE EndPaused(p)
    <2>1. At(p, "pausing") /\ Stays(p, "exit")
        BY <1>15, Path
    <2> QED BY <1>2, <2>1, PlaceOfOne DEF Stays, Turns, Working, Entering, At
<1>16. CASE EndFailed(p)
    <2> DEFINE mem == [EndSegment(p, "failed") EXCEPT !.status = "failed"]
    <2>1. EndSegment(p, "failed") \in Ledgers /\ EndSegment(p, "failed").pid = worker[p].mem.pid
             /\ EndSegment(p, "failed").status = worker[p].mem.status
        BY SegmentFacts DEF Mem
    <2>2. Len(Artifacts) \in 0..Len(Artifacts)
        BY ConstantFacts
    <2>3. mem.pid = worker[p].mem.pid /\ mem.status = "failed"
        BY <2>1, <2>2, LedgerFacts, CountFacts DEF Statuses
    <2>4. /\ At(p, "failing")
          /\ Turns(p, "failed", worker[p].i, worker[p].cost, mem) \/ Stays(p, "exit")
        BY <1>16, Path
    <2> HIDE DEF mem
    <2> QED BY <1>2, <2>3, <2>4, PlaceOfOne DEF Stays, Turns, Working, Entering, At
<1>17. CASE WriteFailed(p)
    <2>1. At(p, "failed") /\ Stays(p, "exit")
        BY <1>17, Path
    <2> QED BY <1>2, <2>1, PlaceOfOne DEF Stays, Turns, Working, Entering, At
<1>18. CASE EndDone(p)
    <2> DEFINE mem == [EndSegment(p, "done") EXCEPT !.done = Len(Artifacts)]
    <2>1. EndSegment(p, "done") \in Ledgers /\ EndSegment(p, "done").pid = worker[p].mem.pid
             /\ EndSegment(p, "done").status = worker[p].mem.status
        BY SegmentFacts DEF Mem
    <2>2. Len(Artifacts) \in 0..Len(Artifacts)
        BY ConstantFacts
    <2>3. mem.pid = worker[p].mem.pid /\ mem.status = worker[p].mem.status
        BY <2>1, <2>2, LedgerFacts, CountFacts DEF Statuses
    <2>4. /\ At(p, "finish")
          /\ Turns(p, "finalize", worker[p].i, worker[p].cost, mem) \/ Stays(p, "exit")
        BY <1>18, Path
    <2> HIDE DEF mem
    <2> QED BY <1>2, <2>3, <2>4, PlaceOfOne DEF Stays, Turns, Working, Entering, At
<1>19. CASE Finalize(p)
    <2>1. At(p, "finalize") /\ Stays(p, "exit")
        BY <1>19, Path
    <2> QED BY <1>2, <2>1, PlaceOfOne DEF Stays, Turns, Working, Entering, At
<1>20. CASE Exit(p)
    <2>1. Gone(p)
        BY <1>20, Path
    <2> QED BY <2>1, PlaceOfOne DEF Gone, Working, Entering
<1>21. CASE Call(p)
    <2>1. At(p, "call") /\ (Stays(p, "failing") \/ Stays(p, "store"))
        BY <1>21, Path
    <2> QED BY <1>2, <2>1, PlaceOfOne DEF Stays, Turns, Working, Entering, At
<1>22. CASE Fails(p)
    <2>1. worker[p].pc \in {"setup", "call", "assemble", "copy"} /\ Stays(p, "failing")
        BY <1>22, Path
    <2> QED BY <1>2, <2>1, PlaceOfOne DEF Stays, Turns, Working, Entering, At
<1>23. CASE Kill(p)
    <2>1. Gone(p)
        BY <1>23, Path
    <2> QED BY <2>1, PlaceOfOne DEF Gone, Working, Entering
<1> QED BY <1>3, <1>4, <1>5, <1>6, <1>7, <1>8, <1>9, <1>10, <1>11, <1>12, <1>13, <1>14, <1>15,
           <1>16, <1>17, <1>18, <1>19, <1>20, <1>21, <1>22, <1>23 DEF Works

LEMMA PlaceOfManager ==
    ASSUME TypeOK, PlaceInv,
           \/ Reap \/ CancelLook \/ CancelTimeout \/ CancelProceed \/ CancelRead \/ CancelWrite
           \/ Start \/ Pause \/ CancelAsk \/ Delete \/ DeleteParent
           \/ RaiseCeiling \/ Restart
    PROVE  PlaceInv'
<1>1. CASE Reap \/ CancelLook \/ CancelProceed \/ CancelRead \/ CancelWrite
           \/ Pause \/ CancelAsk \/ Delete \/ DeleteParent \/ RaiseCeiling
    <2>1. worker' = worker
        BY <1>1 DEF Reap, CancelLook, CancelProceed, CancelRead, CancelWrite, Pause, CancelAsk,
                    Delete, DeleteParent, RaiseCeiling
    <2> QED BY <2>1 DEF PlaceInv
<1>2. CASE CancelTimeout
    <2>1. sup.pid \in Pids
        BY <1>2 DEF TypeOK, CancelTimeout, Supervised
    <2>2. Gone(sup.pid) \/ Stays(sup.pid, worker[sup.pid].pc)
        BY <1>2, <2>1, TurnOfTerminate DEF CancelTimeout
    <2>3. CASE Gone(sup.pid)
        BY <2>1, <2>3, PlaceOfOne DEF Gone, Working, Entering
    <2>4. CASE Stays(sup.pid, worker[sup.pid].pc)
        BY <2>1, <2>4, PlaceOfOne DEF Stays, Turns, PlaceInv
    <2> QED BY <2>2, <2>3, <2>4
<1>3. CASE Start
    <2>1. PICK p \in Pids : At(p, "none") /\ Stays(p, "spawned")
        BY <1>3, TurnOfStart
    <2>2. worker[p].cost = 0
        BY <2>1 DEF PlaceInv, At, Entering
    <2> QED BY <2>1, <2>2, PlaceOfOne DEF Stays, Turns, Working, Entering
<1>4. CASE Restart
    <2>1. Forgets
        BY <1>4, TurnOfRestart
    <2> QED BY <2>1 DEF Forgets, PlaceInv
<1> QED BY <1>1, <1>2, <1>3, <1>4

-----------------------------------------------------------------------------
(* What a worker leaves alone.                                             *)

LEMMA WorkFrame ==
    ASSUME TypeOK, PlaceInv, NEW p \in Pids, Works(p) \/ Call(p) \/ Fails(p) \/ Kill(p)
    PROVE  /\ UNCHANGED <<request, layout, gone, sup, cancel, restarts>>
           /\ \A q \in Pids : q # p => worker'[q] = worker[q]
           /\ Live(p) /\ worker'[p].pc \notin {"none", "spawned"}
           /\ worker[p].pc \notin Entering => worker'[p].pc \notin Entering
           /\ worker'[p].pc # "dead" => worker'[p].piped = worker[p].piped
<1>1. CASE Boot(p)
    <2>1. At(p, "spawned") /\ (Stays(p, "open") \/ Stays(p, "exit"))
        BY <1>1, Path
    <2>2. UNCHANGED <<request, layout, gone, sup, cancel, restarts>>
        BY <1>1 DEF Boot, disk, copies, manager, history
    <2> QED BY <2>1, <2>2 DEF At, Live, Entering, Stays, Turns
<1>2. CASE Open(p)
    <2>1. At(p, "open") /\ Turns(p, "look", worker[p].i, worker[p].cost, Entry(p, Found))
        BY <1>2, Path
    <2>2. UNCHANGED <<request, layout, gone, sup, cancel, restarts>>
        BY <1>2 DEF Open, disk, copies, manager, history
    <2> QED BY <2>1, <2>2 DEF At, Live, Entering, Turns
<1>3. CASE CopyLook(p)
    <2>1. At(p, "look") /\ (Stays(p, "copy") \/ Stays(p, "setup"))
        BY <1>3, Path
    <2>2. UNCHANGED <<request, layout, gone, sup, cancel, restarts>>
        BY <1>3 DEF CopyLook, disk, copies, manager, history
    <2> QED BY <2>1, <2>2 DEF At, Live, Entering, Stays, Turns
<1>4. CASE CopyFile(p)
    <2>1. At(p, "copy") /\ (Stays(p, "setup") \/ Stays(p, "copying"))
        BY <1>4, Path
    <2>2. UNCHANGED <<request, layout, gone, sup, cancel, restarts>>
        BY <1>4 DEF CopyFile, disk, copies, manager, history
    <2> QED BY <2>1, <2>2 DEF At, Live, Entering, Stays, Turns
<1>5. CASE CopyContents(p)
    <2>1. At(p, "copying") /\ Stays(p, "copy")
        BY <1>5, Path
    <2>2. UNCHANGED <<request, layout, gone, sup, cancel, restarts>>
        BY <1>5 DEF CopyContents, disk, copies, manager, history
    <2> QED BY <2>1, <2>2 DEF At, Live, Entering, Stays, Turns
<1>6. CASE Setup(p)
    <2>1. At(p, "setup") /\ (Stays(p, "failing") \/ Stays(p, "check"))
        BY <1>6, Path
    <2>2. UNCHANGED <<request, layout, gone, sup, cancel, restarts>>
        BY <1>6 DEF Setup, disk, copies, manager, history
    <2> QED BY <2>1, <2>2 DEF At, Live, Entering, Stays, Turns
<1>7. CASE Check(p)
    <2>1. At(p, "check") /\ (Stays(p, "pausing") \/ Stays(p, "report") \/ Stays(p, "call"))
        BY <1>7, Path
    <2>2. UNCHANGED <<request, layout, gone, sup, cancel, restarts>>
        BY <1>7 DEF Check, disk, copies, manager, history
    <2> QED BY <2>1, <2>2 DEF At, Live, Entering, Stays, Turns
<1>8. CASE Store(p)
    <2>1. /\ At(p, "store")
          /\ Turns(p, "report", worker[p].i, worker[p].cost + Price[Key(p)], worker[p].mem)
        BY <1>8, Path
    <2>2. UNCHANGED <<request, layout, gone, sup, cancel, restarts>>
        BY <1>8 DEF Store, disk, copies, manager, history
    <2> QED BY <2>1, <2>2 DEF At, Live, Entering, Turns
<1>9. CASE Report(p)
    <2>1. /\ At(p, "report")
          /\ Turns(p, "forward", worker[p].i, worker[p].cost, [Mem(p) EXCEPT !.done = worker[p].i])
        BY <1>9, Path
    <2>2. UNCHANGED <<request, layout, gone, sup, cancel, restarts>>
        BY <1>9 DEF Report, disk, copies, manager, history
    <2> QED BY <2>1, <2>2 DEF At, Live, Entering, Turns
<1>10. CASE Forward(p)
    <2>1. /\ At(p, "forward")
          /\ \/ Stays(p, "failing")
             \/ Turns(p, "check", worker[p].i + 1, worker[p].cost, worker[p].mem)
        BY <1>10, Path
    <2>2. UNCHANGED <<request, layout, gone, sup, cancel, restarts>>
        BY <1>10 DEF Forward, disk, copies, manager, history
    <2> QED BY <2>1, <2>2 DEF At, Live, Entering, Stays, Turns
<1>11. CASE Rendered(p)
    <2>1. At(p, "check") /\ Stays(p, "assemble")
        BY <1>11, Path
    <2>2. UNCHANGED <<request, layout, gone, sup, cancel, restarts>>
        BY <1>11 DEF Rendered, disk, copies, manager, history
    <2> QED BY <2>1, <2>2 DEF At, Live, Entering, Stays, Turns
<1>12. CASE Assemble(p)
    <2>1. At(p, "assemble") /\ (Stays(p, "finish") \/ Stays(p, "failing"))
        BY <1>12, Path
    <2>2. UNCHANGED <<request, layout, gone, sup, cancel, restarts>>
        BY <1>12 DEF Assemble, disk, copies, manager, history
    <2> QED BY <2>1, <2>2 DEF At, Live, Entering, Stays, Turns
<1>13. CASE EndPaused(p)
    <2>1. At(p, "pausing") /\ Stays(p, "exit")
        BY <1>13, Path
    <2>2. UNCHANGED <<request, layout, gone, sup, cancel, restarts>>
        BY <1>13 DEF EndPaused, disk, copies, manager, history
    <2> QED BY <2>1, <2>2 DEF At, Live, Entering, Stays, Turns
<1>14. CASE EndFailed(p)
    <2>1. /\ At(p, "failing")
          /\ \/ Stays(p, "exit")
             \/ Turns(p, "failed", worker[p].i, worker[p].cost,
                      [EndSegment(p, "failed") EXCEPT !.status = "failed"])
        BY <1>14, Path
    <2>2. UNCHANGED <<request, layout, gone, sup, cancel, restarts>>
        BY <1>14 DEF EndFailed, disk, copies, manager, history
    <2> QED BY <2>1, <2>2 DEF At, Live, Entering, Stays, Turns
<1>15. CASE WriteFailed(p)
    <2>1. At(p, "failed") /\ Stays(p, "exit")
        BY <1>15, Path
    <2>2. UNCHANGED <<request, layout, gone, sup, cancel, restarts>>
        BY <1>15 DEF WriteFailed, disk, copies, manager, history
    <2> QED BY <2>1, <2>2 DEF At, Live, Entering, Stays, Turns
<1>16. CASE EndDone(p)
    <2>1. /\ At(p, "finish")
          /\ \/ Stays(p, "exit")
             \/ Turns(p, "finalize", worker[p].i, worker[p].cost,
                      [EndSegment(p, "done") EXCEPT !.done = Len(Artifacts)])
        BY <1>16, Path
    <2>2. UNCHANGED <<request, layout, gone, sup, cancel, restarts>>
        BY <1>16 DEF EndDone, disk, copies, manager, history
    <2> QED BY <2>1, <2>2 DEF At, Live, Entering, Stays, Turns
<1>17. CASE Finalize(p)
    <2>1. At(p, "finalize") /\ Stays(p, "exit")
        BY <1>17, Path
    <2>2. UNCHANGED <<request, layout, gone, sup, cancel, restarts>>
        BY <1>17 DEF Finalize, disk, copies, manager, history
    <2> QED BY <2>1, <2>2 DEF At, Live, Entering, Stays, Turns
<1>18. CASE Exit(p)
    <2>1. At(p, "exit") /\ Gone(p)
        BY <1>18, Path
    <2>2. UNCHANGED <<request, layout, gone, sup, cancel, restarts>>
        BY <1>18 DEF Exit, disk, copies, manager, history
    <2> QED BY <2>1, <2>2 DEF At, Live, Entering, Gone
<1>19. CASE Call(p)
    <2>1. At(p, "call") /\ (Stays(p, "failing") \/ Stays(p, "store"))
        BY <1>19, Path
    <2>2. UNCHANGED <<request, layout, gone, sup, cancel, restarts>>
        BY <1>19 DEF Call, disk, copies, manager, history
    <2> QED BY <2>1, <2>2 DEF At, Live, Entering, Stays, Turns
<1>20. CASE Fails(p)
    <2>1. worker[p].pc \in {"setup", "call", "assemble", "copy"} /\ Stays(p, "failing")
        BY <1>20, Path
    <2>2. UNCHANGED <<request, layout, gone, sup, cancel, restarts>>
        BY <1>20 DEF Fails, disk, copies, manager, history
    <2> QED BY <2>1, <2>2 DEF At, Live, Entering, Stays, Turns
<1>21. CASE Kill(p)
    <2>1. Live(p) /\ Gone(p)
        BY <1>21, Path
    <2>2. UNCHANGED <<request, layout, gone, sup, cancel, restarts>>
        BY <1>21 DEF Kill, disk, copies, manager, history
    <2> QED BY <2>1, <2>2 DEF At, Live, Entering, Gone
<1> QED BY <1>1, <1>2, <1>3, <1>4, <1>5, <1>6, <1>7, <1>8, <1>9, <1>10, <1>11, <1>12, <1>13,
           <1>14, <1>15, <1>16, <1>17, <1>18, <1>19, <1>20, <1>21 DEF Works

-----------------------------------------------------------------------------
(* Who is in the ledgers, and whom the manager supervises.                 *)

\* A ledger names a worker that has entered itself, if it says that one is at work.
Entered(s, w) ==
    /\ s.status = "running" => s.pid # None
    /\ s.pid # None => w[s.pid].pc \notin Entering

LedgerInv ==
    /\ request => state # None
    /\ state # None => Entered(state, worker)
    /\ cancel.pc = "write" <=> cancel.state # None
    /\ cancel.state # None => Entered(cancel.state, worker)
    /\ cancel.pc \in {"read", "write"} => ~Supervised

\* The manager supervises every worker that can still write to its pipe.
SupInv == \A p \in Pids : Live(p) /\ worker[p].piped => sup.pid = p /\ ~sup.exited

\* The ledgers that a worker writes are its own.
LEMMA WorkWrites ==
    ASSUME TypeOK, PlaceInv, NEW p \in Pids, Works(p) \/ Call(p) \/ Fails(p) \/ Kill(p)
    PROVE  \/ state' = state
           \/ state' \in Ledgers /\ state'.pid = p /\ worker[p].pc # "spawned"
<1>1. Mem(p) \in Ledgers /\ Mem(p) = worker[p].mem
    BY DEF TypeOK, Mem, Workers
<1>2. worker[p].pc \in Working => worker[p].mem.pid = p
    BY DEF PlaceInv
<1>3. CASE Open(p)
    <2>1. Found \in Ledgers /\ state' = Entry(p, Found)
        BY <1>3, TurnOfOpen
    <2>2. state' \in Ledgers /\ state'.pid = p
        BY <2>1, EntryFacts
    <2>3. worker[p].pc = "open"
        BY <1>3 DEF Open, At
    <2> QED BY <2>2, <2>3
<1>4. CASE Setup(p)
    BY <1>1, <1>2, <1>4 DEF Setup, At, Working
<1>5. CASE Report(p)
    <2>1. worker[p].i \in 0..Len(Artifacts) /\ state' = [Mem(p) EXCEPT !.done = worker[p].i]
        BY <1>5, TurnOfReport
    <2>2. At(p, "report")
        BY <1>5 DEF Report
    <2> QED BY <1>1, <1>2, <2>1, <2>2, CountFacts DEF At, Working
<1>6. CASE Assemble(p)
    BY <1>1, <1>2, <1>6 DEF Assemble, At, Working
<1>7. CASE EndPaused(p)
    <2> DEFINE mem == EndSegment(p, "paused")
    <2>1. mem \in Ledgers /\ mem.pid = Mem(p).pid
        BY SegmentFacts
    <2>2. At(p, "pausing") /\ state' = [mem EXCEPT !.status = "paused"]
        BY <1>7 DEF EndPaused
    <2> HIDE DEF mem
    <2>3. [mem EXCEPT !.status = "paused"] \in Ledgers
             /\ [mem EXCEPT !.status = "paused"].pid = mem.pid
        BY <2>1, LedgerFacts DEF Statuses
    <2>4. state' \in Ledgers /\ state'.pid = Mem(p).pid
        BY <2>1, <2>2, <2>3
    <2> QED BY <1>1, <1>2, <2>2, <2>4 DEF At, Working
<1>8. CASE WriteFailed(p)
    BY <1>1, <1>2, <1>8 DEF WriteFailed, At, Working
<1>9. CASE Finalize(p)
    <2>1. At(p, "finalize") /\ state' = [Mem(p) EXCEPT !.status = "done"]
        BY <1>9 DEF Finalize
    <2>2. state' \in Ledgers /\ state'.pid = Mem(p).pid
        BY <1>1, <2>1, LedgerFacts DEF Statuses
    <2> QED BY <1>1, <1>2, <2>1, <2>2 DEF At, Working
<1>10. CASE \/ Boot(p) \/ CopyLook(p) \/ CopyFile(p) \/ CopyContents(p) \/ Check(p) \/ Store(p)
            \/ Forward(p) \/ Rendered(p) \/ EndFailed(p) \/ EndDone(p) \/ Exit(p) \/ Call(p)
            \/ Fails(p) \/ Kill(p)
    BY <1>10 DEF Boot, CopyLook, CopyFile, CopyContents, Check, Store, Forward, Rendered, EndFailed,
                 EndDone, Exit, Call, Fails, Kill, disk
<1> QED BY <1>3, <1>4, <1>5, <1>6, <1>7, <1>8, <1>9, <1>10 DEF Works

LEMMA EnteredStays ==
    ASSUME NEW s \in Ledgers, Entered(s, worker),
           \A p \in Pids : worker[p].pc \notin Entering => worker'[p].pc \notin Entering
    PROVE  Entered(s, worker')
<1>1. s.pid \in Pids \cup {None}
    BY DEF Ledgers
<1> QED BY <1>1 DEF Entered

LEMMA LedgerInit == ASSUME Init PROVE LedgerInv /\ SupInv
<1>1. \A p \in Pids : worker[p].pc = "none"
    BY WorkerFacts DEF Init, PCs
<1>2. Entered(state, worker)
    BY NewStateFacts DEF Init, Entered
<1>3. /\ state # None /\ cancel.pc = "idle" /\ cancel.state = None
    BY NewStateFacts, ConstantFacts DEF Init
<1> QED BY <1>1, <1>2, <1>3 DEF LedgerInv, SupInv, Live

LEMMA LedgerOfWork ==
    ASSUME TypeOK, PlaceInv, LedgerInv, SupInv, NEW p \in Pids,
           Works(p) \/ Call(p) \/ Fails(p) \/ Kill(p)
    PROVE  LedgerInv' /\ SupInv'
<1>1. /\ UNCHANGED <<request, sup, cancel>>
      /\ \A q \in Pids : q # p => worker'[q] = worker[q]
      /\ Live(p) /\ worker'[p].pc \notin {"none", "spawned"}
      /\ worker[p].pc \notin Entering => worker'[p].pc \notin Entering
      /\ worker'[p].pc # "dead" => worker'[p].piped = worker[p].piped
    BY WorkFrame
<1>2. \A q \in Pids : worker[q].pc \notin Entering => worker'[q].pc \notin Entering
    BY <1>1
<1>3. state \in Ledgers \cup {None} /\ cancel.state \in Ledgers \cup {None} /\ None \notin Ledgers
    BY ConstantFacts DEF TypeOK
<1>4. state' # None => Entered(state', worker')
    <2>1. CASE state' = state
        BY <1>2, <1>3, <2>1, EnteredStays DEF LedgerInv
    <2>2. CASE state' # state
        <3>1. state' \in Ledgers /\ state'.pid = p
            BY <2>2, WorkWrites
        <3>2. worker'[p].pc \notin Entering
            <4>1. CASE worker[p].pc # "open"
                BY <1>1, <2>2, <4>1, WorkWrites DEF Entering, Live
            <4>2. CASE worker[p].pc = "open"
                <5>1. Open(p) \/ Kill(p)
                    BY <4>2 DEF Works, At, Boot, Open, CopyLook, CopyFile, CopyContents, Setup,
                       Check,
                        Store, Report, Forward, Rendered, Assemble, EndPaused, EndFailed, WriteFailed,
                        EndDone, Finalize, Exit, Call, Fails
                <5>2. CASE Open(p)
                    BY <5>2, Path DEF Turns, Entering
                <5>3. CASE Kill(p)
                    BY <5>3, Path DEF Gone, Entering
                <5> QED BY <5>1, <5>2, <5>3
            <4> QED BY <4>1, <4>2
        <3>3. p # None
            BY ConstantFacts
        <3> QED BY <3>1, <3>2, <3>3 DEF Entered
    <2> QED BY <2>1, <2>2
<1>5. cancel.state # None => Entered(cancel.state, worker')
    BY <1>2, <1>3, EnteredStays DEF LedgerInv
<1>6. request => state' # None
    <2>1. state' = state \/ state' \in Ledgers
        BY WorkWrites
    <2> QED BY <1>3, <2>1 DEF LedgerInv
<1>7. SupInv'
    BY <1>1 DEF SupInv, Live
<1>8. Supervised' = Supervised
    BY <1>1 DEF Supervised
<1> QED BY <1>1, <1>4, <1>5, <1>6, <1>7, <1>8 DEF LedgerInv

LEMMA LedgerOfManager ==
    ASSUME TypeOK, PlaceInv, LedgerInv, SupInv,
           \/ Reap \/ CancelLook \/ CancelTimeout \/ CancelProceed \/ CancelRead \/ CancelWrite
           \/ Start \/ Pause \/ CancelAsk \/ Delete \/ DeleteParent
           \/ RaiseCeiling \/ Restart
    PROVE  LedgerInv' /\ SupInv'
<1>1. /\ state \in Ledgers \cup {None} /\ None \notin Ledgers /\ None \notin Pids
      /\ cancel \in Cancels /\ sup \in [pid : Pids \cup {None}, exited : BOOLEAN]
    BY ConstantFacts DEF TypeOK, Cancels
<1>2. /\ cancel.state \in Ledgers \cup {None}
      /\ sup.pid \in Pids \cup {None}
    BY <1>1 DEF Cancels
<1>3. CASE Reap
    <2>1. /\ UNCHANGED <<request, state, worker, cancel>> /\ sup.pid \in Pids
          /\ sup'.pid = sup.pid /\ sup'.exited = TRUE /\ worker[sup.pid].pc = "dead"
        BY <1>1, <1>2, <1>3 DEF Reap, Supervised, disk, copies, At
    <2>2. SupInv'
        BY <2>1 DEF SupInv, Live
    <2> QED BY <2>1, <2>2 DEF LedgerInv, Supervised
<1>4. CASE CancelLook
    <2>1. /\ UNCHANGED <<request, state, worker, sup>> /\ cancel.pc = "look"
          /\ cancel'.state = cancel.state
          /\ cancel'.pc = IF Supervised THEN "wait" ELSE "read"
        BY <1>1, <1>4 DEF CancelLook, Cancels, disk, copies
    <2> QED BY <2>1 DEF LedgerInv, SupInv, Supervised, Live
<1>5. CASE CancelTimeout
    <2>1. /\ UNCHANGED <<request, state, sup>> /\ cancel.pc = "wait"
          /\ cancel'.state = cancel.state /\ cancel'.pc = "terminated"
          /\ sup.pid \in Pids /\ Terminate(sup.pid)
        BY <1>1, <1>2, <1>5 DEF CancelTimeout, Cancels, Supervised, disk, copies
    <2>2. \/ Gone(sup.pid)
          \/ Stays(sup.pid, worker[sup.pid].pc)
        BY <2>1, TurnOfTerminate
    <2>3. \A q \in Pids : worker[q].pc \notin Entering => worker'[q].pc \notin Entering
        BY <2>1, <2>2 DEF Gone, Stays, Turns, Entering
    <2>4. SupInv'
        BY <2>1, <2>2 DEF Gone, Stays, Turns, SupInv, Live
    <2>5. state # None => Entered(state, worker')
        BY <1>1, <2>3, EnteredStays DEF LedgerInv
    <2>6. cancel.state = None /\ (request => state # None)
        BY <2>1 DEF LedgerInv
    <2> QED BY <2>1, <2>4, <2>5, <2>6 DEF LedgerInv
<1>6. CASE CancelProceed
    <2>1. /\ UNCHANGED <<request, state, worker, sup>> /\ cancel.pc \in {"wait", "terminated"}
          /\ cancel'.state = cancel.state /\ cancel'.pc = "read" /\ ~Supervised
        BY <1>1, <1>6 DEF CancelProceed, Cancels, disk, copies
    <2> QED BY <2>1 DEF LedgerInv, SupInv, Supervised, Live
<1>7. CASE CancelRead
    <2>1. /\ UNCHANGED <<request, state, worker, sup>> /\ cancel.pc = "read"
          /\ \/ cancel'.pc = "idle" /\ cancel'.state = None
             \/ state # None /\ cancel'.pc = "write" /\ cancel'.state = state
        BY <1>7 DEF CancelRead, disk, copies
    <2> QED BY <2>1 DEF LedgerInv, SupInv, Supervised, Live
<1>8. CASE CancelWrite
    <2>1. /\ UNCHANGED <<request, worker, sup>> /\ cancel.pc = "write"
          /\ cancel'.pc = "idle" /\ cancel'.state = None
          /\ state' = IF request THEN [cancel.state EXCEPT !.status = "cancelled"] ELSE state
        BY <1>8 DEF CancelWrite, copies
    <2>2. cancel.state \in Ledgers
        BY <1>2, <2>1 DEF LedgerInv
    <2> DEFINE s == [cancel.state EXCEPT !.status = "cancelled"]
    <2>3. s \in Ledgers /\ s.status = "cancelled" /\ s.pid = cancel.state.pid
        BY <2>2, LedgerFacts DEF Statuses
    <2>4. state' = IF request THEN s ELSE state
        BY <2>1
    <2> HIDE DEF s
    <2>5. Entered(cancel.state, worker)
        BY <1>1, <2>2 DEF LedgerInv
    <2>6. Entered(s, worker)
        BY <2>3, <2>5 DEF Entered
    <2>7. (request => state' # None) /\ (state' # None => Entered(state', worker))
        BY <1>1, <2>3, <2>4, <2>6 DEF LedgerInv
    <2> QED BY <2>1, <2>7 DEF LedgerInv, SupInv, Live
<1>9. CASE Start
    <2>1. PICK p \in Pids : At(p, "none") /\ Stays(p, "spawned")
                            /\ sup' = [pid |-> p, exited |-> FALSE]
        BY <1>9, TurnOfStart
    <2>2. UNCHANGED <<request, state, cancel>> /\ cancel.pc \in {"idle", "look"} /\ ~Supervised
        BY <1>9 DEF Start, disk, copies
    <2>3. \A q \in Pids : worker[q].pc \notin Entering => worker'[q].pc \notin Entering
        BY <2>1 DEF At, Stays, Turns, Entering
    <2>4. \A q \in Pids : Live(q) => ~worker[q].piped
        BY <1>1, <1>2, <2>2 DEF SupInv, Supervised
    <2>5. SupInv'
        BY <2>1, <2>4 DEF At, Stays, Turns, SupInv, Live
    <2>6. state # None => Entered(state, worker')
        BY <1>1, <2>3, EnteredStays DEF LedgerInv
    <2>7. cancel.state = None /\ (request => state # None)
        BY <2>2 DEF LedgerInv
    <2> QED BY <2>2, <2>5, <2>6, <2>7 DEF LedgerInv
<1>10. CASE Pause \/ RaiseCeiling \/ DeleteParent
    <2>1. UNCHANGED <<request, state, worker, sup, cancel>>
        BY <1>10 DEF Pause, RaiseCeiling, DeleteParent, manager
    <2> QED BY <2>1 DEF LedgerInv, SupInv, Supervised, Live
<1>11. CASE CancelAsk
    <2>1. /\ UNCHANGED <<request, state, worker, sup>> /\ cancel.pc = "idle"
          /\ cancel'.pc = "look" /\ cancel'.state = cancel.state
        BY <1>1, <1>11 DEF CancelAsk, Cancels
    <2> QED BY <2>1 DEF LedgerInv, SupInv, Live
<1>12. CASE Delete
    <2>1. UNCHANGED <<worker, sup, cancel>> /\ request' = FALSE /\ state' = None
        BY <1>12 DEF Delete, manager
    <2> QED BY <2>1 DEF LedgerInv, SupInv, Supervised, Live
<1>13. CASE Restart
    <2>1. Forgets
        BY <1>13, TurnOfRestart
    <2>2. UNCHANGED <<request, state>> /\ cancel'.pc = "idle" /\ cancel'.state = None
        BY <1>13 DEF Restart, disk, copies
    <2>3. \A q \in Pids : worker[q].pc \notin Entering => worker'[q].pc \notin Entering
        BY <2>1 DEF Forgets
    <2>4. SupInv'
        BY <2>1 DEF Forgets, SupInv, Live
    <2>5. state # None => Entered(state, worker')
        BY <1>1, <2>3, EnteredStays DEF LedgerInv
    <2> QED BY <2>2, <2>4, <2>5 DEF LedgerInv
<1> QED BY <1>3, <1>4, <1>5, <1>6, <1>7, <1>8, <1>9, <1>10, <1>11, <1>12, <1>13

-----------------------------------------------------------------------------
(* The ledger claims no more than the snapshot holds.                      *)

LEMMA KeysFinite == IsFiniteSet(Keys)
<1> DEFINE n == Len(Artifacts)
           F == [j \in 1..n |-> Artifacts[j]]
<1>1. n \in Nat
    BY ConstantFacts
<1>2. IsFiniteSet(1..n)
    BY <1>1, FS_Interval
<1>3. Keys = {Artifacts[j] : j \in 1..n}
    BY ConstantFacts DEF Keys, Range
<1>4. F \in Surjection(1..n, Keys)
    BY <1>3 DEF Surjection
<1> QED BY <1>2, <1>4, FS_Surjection

\* The first n artifacts are in the snapshot c.
Prefix(n, c) == \A j \in 1..n : Artifacts[j] \in c

LEMMA PrefixCount ==
    ASSUME NEW n \in 0..Len(Artifacts), NEW c \in SUBSET Keys, Prefix(n, c)
    PROVE  n <= Cardinality(c)
<1> DEFINE F == [j \in 1..n |-> Artifacts[j]]
<1>1. n \in Nat /\ \A j \in 1..n : j \in 1..Len(Artifacts)
    BY ConstantFacts
<1>2. Cardinality(1..n) = n
    BY <1>1, FS_Interval
<1>3. IsFiniteSet(c)
    BY KeysFinite, FS_Subset
<1>4. F \in [1..n -> c]
    BY DEF Prefix
<1>5. \A j, k \in 1..n : F[j] = F[k] => j = k
    BY <1>1, ConstantFacts
<1>6. F \in Injection(1..n, c)
    BY <1>4, <1>5 DEF Injection, IsInjective
<1> HIDE DEF F
<1>7. Cardinality(1..n) <= Cardinality(c)
    BY <1>3, <1>6, FS_Injection
<1> QED BY <1>2, <1>7

SnapInv ==
    request /\ SnapshotKept =>
        /\ Prefix(state.done, cache)
        /\ cancel.state # None => Prefix(cancel.state.done, cache)
        /\ \A p \in Pids :
               /\ Prefix(worker[p].mem.done, cache)
               /\ Prefix(worker[p].i - 1, cache)
               /\ worker[p].pc \in {"report", "forward"} => Key(p) \in cache

LEMMA WorkKeeps ==
    ASSUME NEW p \in Pids, Works(p) \/ Call(p) \/ Fails(p) \/ Kill(p)
    PROVE  cache \subseteq cache'
<1>1. CASE Store(p)
    BY <1>1 DEF Store
<1>2. CASE CopyContents(p)
    BY <1>2 DEF CopyContents
<1>3. CASE \/ Boot(p) \/ Open(p) \/ CopyLook(p) \/ CopyFile(p) \/ Setup(p) \/ Check(p) \/ Report(p)
           \/ Forward(p) \/ Rendered(p) \/ Assemble(p) \/ EndPaused(p) \/ EndFailed(p)
           \/ WriteFailed(p) \/ EndDone(p) \/ Finalize(p) \/ Exit(p) \/ Call(p) \/ Fails(p) \/ Kill(p)
    BY <1>3 DEF Boot, Open, CopyLook, CopyFile, Setup, Check, Report, Forward, Rendered, Assemble,
                EndPaused, EndFailed, WriteFailed, EndDone, Finalize, Exit, Call, Fails, Kill, disk
<1> QED BY <1>1, <1>2, <1>3 DEF Works

\* It is enough to look at the worker that moves and at the ledger it writes.
LEMMA SnapOfOne ==
    ASSUME SnapInv, NEW p \in Pids, Works(p) \/ Call(p) \/ Fails(p) \/ Kill(p), TypeOK, PlaceInv,
           request /\ SnapshotKept =>
                      /\ Prefix(state'.done, cache')
                      /\ Prefix(worker'[p].mem.done, cache')
                      /\ Prefix(worker'[p].i - 1, cache')
                      /\ worker'[p].pc \in {"report", "forward"} => Artifacts[worker'[p].i] \in cache'
    PROVE  SnapInv'
<1>1. /\ request' = request /\ cancel' = cancel /\ layout' = layout /\ gone' = gone
      /\ \A q \in Pids : q # p => worker'[q] = worker[q]
    BY WorkFrame
<1>2. cache \subseteq cache'
    BY WorkKeeps
<1>3. \A n : Prefix(n, cache) => Prefix(n, cache')
    BY <1>2 DEF Prefix
<1>5. SnapshotKept' = SnapshotKept
    BY <1>1 DEF SnapshotKept, ParentLost
<1>4. ASSUME request, SnapshotKept, NEW q \in Pids
      PROVE  /\ Prefix(worker'[q].mem.done, cache') /\ Prefix(worker'[q].i - 1, cache')
             /\ worker'[q].pc \in {"report", "forward"} => Artifacts[worker'[q].i] \in cache'
    <2>1. CASE q = p
        BY <1>4, <2>1
    <2>2. CASE q # p
        BY <1>1, <1>2, <1>3, <1>4, <2>2 DEF SnapInv, Key
    <2> QED BY <2>1, <2>2
<1> QED BY <1>1, <1>3, <1>4, <1>5 DEF SnapInv, Key

LEMMA SnapOfWork ==
    ASSUME TypeOK, PlaceInv, LedgerInv, SnapInv, NEW p \in Pids,
           Works(p) \/ Call(p) \/ Fails(p) \/ Kill(p)
    PROVE  SnapInv'
<1>1. SUFFICES ASSUME request, SnapshotKept
               PROVE  /\ Prefix(state'.done, cache')
                      /\ Prefix(worker'[p].mem.done, cache')
                      /\ Prefix(worker'[p].i - 1, cache')
                      /\ worker'[p].pc \in {"report", "forward"} => Artifacts[worker'[p].i] \in cache'
    BY SnapOfOne
<1>2. /\ Prefix(state.done, cache) /\ Prefix(worker[p].mem.done, cache)
      /\ Prefix(worker[p].i - 1, cache)
      /\ worker[p].pc \in {"report", "forward"} => Artifacts[worker[p].i] \in cache
    BY <1>1 DEF SnapInv, Key
<1>3. \A n : Prefix(n, cache) => Prefix(n, cache')
    BY WorkKeeps DEF Prefix
<1>4. Mem(p) \in Ledgers /\ Mem(p) = worker[p].mem /\ worker[p].i \in 1..(Len(Artifacts) + 1)
    BY DEF TypeOK, Mem, Workers
<1>5. Prefix(0, cache') /\ Len(Artifacts) \in Nat
    BY ConstantFacts DEF Prefix
<1>6. Prefix(state.done, cache') /\ Prefix(worker[p].mem.done, cache')
         /\ Prefix(worker[p].i - 1, cache')
    BY <1>2, <1>3
<1>7. CASE Boot(p)
    <2>1. Stays(p, "open") \/ Stays(p, "exit")
        BY <1>7, Path
    <2>2. state' = state
        BY <1>7 DEF Boot, disk
    <2> QED BY <1>6, <2>1, <2>2 DEF Stays, Turns
<1>8. CASE Open(p)
    <2>1. Turns(p, "look", worker[p].i, worker[p].cost, Entry(p, Found)) /\ state' = Entry(p, Found)
        BY <1>8, Path, TurnOfOpen
    <2>2. Entry(p, Found).done = 0
        BY <1>8, TurnOfOpen, EntryFacts
    <2> QED BY <1>5, <1>6, <2>1, <2>2 DEF Turns
<1>9. CASE CopyLook(p)
    <2>1. Stays(p, "copy") \/ Stays(p, "setup")
        BY <1>9, Path
    <2>2. state' = state
        BY <1>9 DEF CopyLook, disk
    <2> QED BY <1>6, <2>1, <2>2 DEF Stays, Turns
<1>10. CASE CopyFile(p)
    <2>1. Stays(p, "setup") \/ Stays(p, "copying")
        BY <1>10, Path
    <2>2. state' = state
        BY <1>10 DEF CopyFile, disk
    <2> QED BY <1>6, <2>1, <2>2 DEF Stays, Turns
<1>11. CASE CopyContents(p)
    <2>1. Stays(p, "copy")
        BY <1>11, Path
    <2>2. state' = state
        BY <1>11 DEF CopyContents, disk
    <2> QED BY <1>6, <2>1, <2>2 DEF Stays, Turns
<1>12. CASE Setup(p)
    <2>1. Stays(p, "failing") \/ Stays(p, "check")
        BY <1>12, Path
    <2>2. state' = worker[p].mem
        BY <1>4, <1>12 DEF Setup
    <2> QED BY <1>6, <2>1, <2>2 DEF Stays, Turns
<1>13. CASE Check(p)
    <2>1. \/ Stays(p, "pausing") \/ Stays(p, "call")
          \/ Key(p) \in cache /\ Stays(p, "report")
        BY <1>13, Path
    <2>2. state' = state /\ cache' = cache
        BY <1>13 DEF Check, disk
    <2> QED BY <1>6, <2>1, <2>2 DEF Stays, Turns, Key
<1>14. CASE Store(p)
    <2>1. Turns(p, "report", worker[p].i, worker[p].cost + Price[Key(p)], worker[p].mem)
        BY <1>14, Path
    <2>2. state' = state /\ Artifacts[worker[p].i] \in cache'
        BY <1>1, <1>14 DEF Store, Key, SnapshotKept
    <2> QED BY <1>6, <2>1, <2>2 DEF Turns
<1>15. CASE Report(p)
    <2> DEFINE mem == [Mem(p) EXCEPT !.done = worker[p].i]
    <2>1. Turns(p, "forward", worker[p].i, worker[p].cost, mem) /\ state' = mem
        BY <1>15, Path, TurnOfReport
    <2>2. mem.done = worker[p].i /\ worker[p].i \in Nat
        BY <1>15, <1>4, <1>5, TurnOfReport, CountFacts
    <2>3. cache' = cache /\ Artifacts[worker[p].i] \in cache
        BY <1>2, <1>15 DEF Report, At
    <2>4. Prefix(worker[p].i, cache')
        BY <1>4, <1>6, <2>2, <2>3 DEF Prefix
    <2> HIDE DEF mem
    <2> QED BY <1>6, <2>1, <2>2, <2>3, <2>4 DEF Turns
<1>16. CASE Forward(p)
    <2>1. \/ Stays(p, "failing")
          \/ Turns(p, "check", worker[p].i + 1, worker[p].cost, worker[p].mem)
        BY <1>16, Path
    <2>2. state' = state /\ cache' = cache /\ Artifacts[worker[p].i] \in cache
        BY <1>2, <1>16 DEF Forward, disk, At
    <2>3. Prefix((worker[p].i + 1) - 1, cache')
        BY <1>4, <1>6, <2>2 DEF Prefix
    <2> QED BY <1>6, <2>1, <2>2, <2>3 DEF Stays, Turns
<1>17. CASE Rendered(p)
    <2>1. Stays(p, "assemble")
        BY <1>17, Path
    <2>2. state' = state
        BY <1>17 DEF Rendered, disk
    <2> QED BY <1>6, <2>1, <2>2 DEF Stays, Turns
<1>18. CASE Assemble(p)
    <2>1. Stays(p, "finish") \/ Stays(p, "failing")
        BY <1>18, Path
    <2>2. state' = worker[p].mem
        BY <1>4, <1>18 DEF Assemble
    <2> QED BY <1>6, <2>1, <2>2 DEF Stays, Turns
<1>19. CASE EndPaused(p)
    <2>1. Stays(p, "exit")
        BY <1>19, Path
    <2> DEFINE mem == EndSegment(p, "paused")
    <2>3. mem \in Ledgers /\ mem.done = worker[p].mem.done
        BY <1>4, SegmentFacts
    <2>4. state' = [mem EXCEPT !.status = "paused"]
        BY <1>19 DEF EndPaused
    <2> HIDE DEF mem
    <2>5. [mem EXCEPT !.status = "paused"].done = mem.done
        BY <2>3, LedgerFacts DEF Statuses
    <2>2. state'.done = worker[p].mem.done
        BY <2>3, <2>4, <2>5
    <2> QED BY <1>6, <2>1, <2>2 DEF Stays, Turns
<1>20. CASE EndFailed(p)
    <2> DEFINE end == EndSegment(p, "failed")
               mem == [end EXCEPT !.status = "failed"]
    <2>1. Turns(p, "failed", worker[p].i, worker[p].cost, mem) \/ Stays(p, "exit")
        BY <1>20, Path
    <2>2. end \in Ledgers /\ end.done = worker[p].mem.done
        BY <1>4, SegmentFacts
    <2> HIDE DEF end
    <2>3. mem.done = end.done
        BY <2>2, LedgerFacts DEF Statuses
    <2> HIDE DEF mem
    <2>4. state' = state
        BY <1>20 DEF EndFailed, disk
    <2> QED BY <1>6, <2>1, <2>2, <2>3, <2>4 DEF Stays, Turns
<1>21. CASE WriteFailed(p)
    <2>1. Stays(p, "exit")
        BY <1>21, Path
    <2>2. state' = worker[p].mem
        BY <1>4, <1>21 DEF WriteFailed
    <2> QED BY <1>6, <2>1, <2>2 DEF Stays, Turns
<1>22. CASE EndDone(p)
    <2> DEFINE end == EndSegment(p, "done")
               mem == [end EXCEPT !.done = Len(Artifacts)]
    <2>1. Turns(p, "finalize", worker[p].i, worker[p].cost, mem) \/ Stays(p, "exit")
        BY <1>22, Path
    <2>2. end \in Ledgers
        BY SegmentFacts
    <2>3. Len(Artifacts) \in 0..Len(Artifacts)
        BY <1>5
    <2> HIDE DEF end
    <2>4. mem.done = Len(Artifacts)
        BY <2>2, <2>3, CountFacts
    <2> HIDE DEF mem
    <2>5. state' = state
        BY <1>22 DEF EndDone, disk
    <2>6. worker[p].i > Len(Artifacts)
        BY <1>22 DEF EndDone, At, PlaceInv
    <2>7. worker[p].i - 1 = Len(Artifacts)
        BY <1>4, <1>5, <2>6
    <2> QED BY <1>6, <2>1, <2>4, <2>5, <2>7 DEF Stays, Turns
<1>23. CASE Finalize(p)
    <2>1. Stays(p, "exit")
        BY <1>23, Path
    <2>2. state'.done = worker[p].mem.done
        BY <1>4, <1>23, LedgerFacts DEF Finalize, Statuses
    <2> QED BY <1>6, <2>1, <2>2 DEF Stays, Turns
<1>24. CASE Exit(p)
    <2>1. Gone(p)
        BY <1>24, Path
    <2>2. state' = state
        BY <1>24 DEF Exit, disk
    <2> QED BY <1>5, <1>6, <2>1, <2>2, NewStateFacts DEF Gone
<1>25. CASE Call(p)
    <2>1. Stays(p, "failing") \/ Stays(p, "store")
        BY <1>25, Path
    <2>2. state' = state
        BY <1>25 DEF Call, disk
    <2> QED BY <1>6, <2>1, <2>2 DEF Stays, Turns
<1>26. CASE Fails(p)
    <2>1. Stays(p, "failing")
        BY <1>26, Path
    <2>2. state' = state
        BY <1>26 DEF Fails, disk
    <2> QED BY <1>6, <2>1, <2>2 DEF Stays, Turns
<1>27. CASE Kill(p)
    <2>1. Gone(p)
        BY <1>27, Path
    <2>2. state' = state
        BY <1>27 DEF Kill, disk
    <2> QED BY <1>5, <1>6, <2>1, <2>2, NewStateFacts DEF Gone
<1> QED BY <1>7, <1>8, <1>9, <1>10, <1>11, <1>12, <1>13, <1>14, <1>15, <1>16, <1>17, <1>18, <1>19,
           <1>20, <1>21, <1>22, <1>23, <1>24, <1>25, <1>26, <1>27 DEF Works

LEMMA SnapOfManager ==
    ASSUME TypeOK, PlaceInv, LedgerInv, SnapInv,
           \/ Reap \/ CancelLook \/ CancelTimeout \/ CancelProceed \/ CancelRead \/ CancelWrite
           \/ Start \/ Pause \/ CancelAsk \/ Delete \/ DeleteParent
           \/ RaiseCeiling \/ Restart
    PROVE  SnapInv'
<1>1. CASE \/ Reap \/ CancelLook \/ CancelProceed \/ Pause \/ CancelAsk \/ RaiseCeiling
    <2>1. UNCHANGED <<request, state, worker, cache, layout, gone>>
        BY <1>1 DEF Reap, CancelLook, CancelProceed, Pause, CancelAsk, RaiseCeiling, disk, copies
    <2>2. cancel'.state = cancel.state
        BY <1>1 DEF Reap, CancelLook, CancelProceed, Pause, CancelAsk, RaiseCeiling, manager, TypeOK
    <2> QED BY <2>1, <2>2 DEF SnapInv, Key, SnapshotKept, ParentLost
<1>2. CASE CancelRead
    <2>1. /\ UNCHANGED <<request, state, worker, cache, layout, gone>>
          /\ cancel'.state = None \/ cancel'.state = state
        BY <1>2 DEF CancelRead, disk, copies
    <2> QED BY <2>1 DEF SnapInv, Key, SnapshotKept, ParentLost
<1>3. CASE CancelWrite
    <2>1. /\ UNCHANGED <<request, worker, cache, layout, gone>> /\ cancel'.state = None
          /\ state' = IF request THEN [cancel.state EXCEPT !.status = "cancelled"] ELSE state
        BY <1>3 DEF CancelWrite, copies
    <2>2. cancel.state \in Ledgers /\ cancel.state # None
        BY <1>3 DEF CancelWrite, LedgerInv, TypeOK
    <2> DEFINE s == [cancel.state EXCEPT !.status = "cancelled"]
    <2>3. s.done = cancel.state.done
        BY <2>2, LedgerFacts DEF Statuses
    <2>4. state' = IF request THEN s ELSE state
        BY <2>1
    <2> HIDE DEF s
    <2> QED BY <2>1, <2>2, <2>3, <2>4 DEF SnapInv, Key, SnapshotKept, ParentLost
<1>4. CASE Delete
    BY <1>4 DEF Delete, SnapInv
<1>5. CASE CancelTimeout
    <2>1. /\ UNCHANGED <<request, state, cache, layout, gone>> /\ cancel'.state = cancel.state
          /\ sup.pid \in Pids /\ Terminate(sup.pid)
        BY <1>5 DEF CancelTimeout, Supervised, disk, copies, TypeOK
    <2>2. Gone(sup.pid) \/ Stays(sup.pid, worker[sup.pid].pc)
        BY <2>1, TurnOfTerminate
    <2>3. Prefix(0, cache) /\ Prefix(1 - 1, cache)
        BY DEF Prefix
    <2>4. CASE Gone(sup.pid)
        BY <2>1, <2>3, <2>4, NewStateFacts DEF Gone, SnapInv, Key, SnapshotKept, ParentLost
    <2>5. CASE Stays(sup.pid, worker[sup.pid].pc)
        BY <2>1, <2>5 DEF Stays, Turns, SnapInv, Key, SnapshotKept, ParentLost
    <2> QED BY <2>2, <2>4, <2>5
<1>6. CASE Start
    <2>1. PICK p \in Pids : Stays(p, "spawned")
        BY <1>6, TurnOfStart
    <2>2. UNCHANGED <<request, state, cache, layout, gone, cancel>>
        BY <1>6 DEF Start, disk, copies
    <2> QED BY <2>1, <2>2 DEF Stays, Turns, SnapInv, Key, SnapshotKept, ParentLost
<1>7. CASE Restart
    <2>1. Forgets
        BY <1>7, TurnOfRestart
    <2>2. UNCHANGED <<request, state, cache, layout, gone>> /\ cancel'.state = None
        BY <1>7 DEF Restart, disk, copies
    <2> QED BY <2>1, <2>2 DEF Forgets, SnapInv, Key, SnapshotKept, ParentLost
<1>8. CASE DeleteParent
    <2>1. UNCHANGED <<request, state, worker, layout, cancel>> /\ gone' = TRUE
        BY <1>8 DEF DeleteParent, manager
    <2>2. SUFFICES ASSUME request, SnapshotKept' PROVE SnapInv'
        BY <2>1 DEF SnapInv
    <2>3. layout.place # "parent" /\ SnapshotKept
        BY <2>1, <2>2 DEF SnapshotKept, ParentLost
    <2>4. cache' = cache
        BY <1>8, <2>3 DEF DeleteParent
    <2> QED BY <2>1, <2>2, <2>3, <2>4 DEF SnapInv, Key
<1> QED BY <1>1, <1>2, <1>3, <1>4, <1>5, <1>6, <1>7, <1>8

-----------------------------------------------------------------------------
(* Before the sidecar has exited at all: one worker, in the ledger it says. *)

\* What state.json says while p lives.
Shows(p) ==
    /\ worker[p].piped /\ request
    /\ worker[p].pc \in Entering => state.status \in {"created", "paused", "failed", "running"}
    /\ worker[p].pc \in Working => state.status = "running" /\ state.pid = p
    /\ worker[p].pc = "exit" => state.status \in {"paused", "failed", "done"}

FreshInv == \A p \in Pids : At(p, "none") => worker[p].piped

WatchInv ==
    restarts = 0 =>
        /\ request \/ state = None
        /\ \A p \in Pids : Live(p) => Shows(p)
        /\ cancel.pc = "write" /\ request => cancel.state = state /\ state.status # "done"

LEMMA OnlyOne ==
    ASSUME LedgerInv, SupInv, WatchInv, restarts = 0, NEW p \in Pids, Live(p)
    PROVE  /\ Supervised \/ sup.pid = None
           /\ sup.pid = p /\ ~sup.exited
           /\ \A q \in Pids : Live(q) => q = p
           /\ request /\ worker[p].piped
<1>1. \A q \in Pids : Live(q) => worker[q].piped /\ request
    BY DEF WatchInv, Shows
<1>2. \A q \in Pids : Live(q) => sup.pid = q /\ ~sup.exited
    BY <1>1 DEF SupInv
<1> QED BY <1>1, <1>2 DEF Supervised

LEMMA Alive ==
    ASSUME LedgerInv, SupInv, WatchInv, restarts = 0, NEW p \in Pids, Live(p)
    PROVE  Supervised /\ cancel.pc \notin {"read", "write"}
<1>1. sup.pid = p /\ ~sup.exited /\ p # None
    BY OnlyOne, ConstantFacts
<1> QED BY <1>1 DEF Supervised, LedgerInv

LEMMA WatchInit == ASSUME Init PROVE WatchInv /\ FreshInv
<1>1. \A p \in Pids : worker[p].pc = "none" /\ worker[p].piped
    BY WorkerFacts DEF Init, PCs
<1>2. request /\ cancel.pc = "idle"
    BY DEF Init
<1> QED BY <1>1, <1>2 DEF WatchInv, FreshInv, Live

LEMMA WatchOfWork ==
    ASSUME TypeOK, PlaceInv, LedgerInv, SupInv, WatchInv, FreshInv, NEW p \in Pids,
           Works(p) \/ Call(p) \/ Fails(p) \/ Kill(p)
    PROVE  WatchInv' /\ FreshInv'
<1>1. /\ UNCHANGED <<request, sup, cancel, restarts>>
      /\ \A q \in Pids : q # p => worker'[q] = worker[q]
      /\ Live(p) /\ worker'[p].pc \notin {"none", "spawned"}
      /\ worker'[p].pc # "dead" => worker'[p].piped = worker[p].piped
    BY WorkFrame
<1>2. FreshInv'
    BY <1>1 DEF FreshInv, At
<1>3. SUFFICES ASSUME restarts = 0 PROVE WatchInv'
    BY <1>1, <1>2 DEF WatchInv
<1>4. /\ \A q \in Pids : Live(q) => q = p
      /\ request /\ worker[p].piped /\ cancel.pc # "write" /\ Shows(p)
    BY <1>1, <1>3, OnlyOne, Alive DEF WatchInv
<1>5. \A q \in Pids : Live(q)' => q = p
    BY <1>1, <1>4 DEF Live
<1>6. /\ worker[p].pc \in Working \ {"failed"} => worker[p].mem.status = "running"
      /\ worker[p].pc \in Working => worker[p].mem.pid = p
      /\ worker[p].pc = "failed" => worker[p].mem.status = "failed"
      /\ Mem(p) = worker[p].mem /\ Mem(p) \in Ledgers
    BY DEF PlaceInv, TypeOK, Workers, Mem
<1>7. SUFFICES ASSUME worker'[p].pc # "dead" PROVE Shows(p)'
    BY <1>1, <1>4, <1>5 DEF WatchInv, Live
<1>8. worker'[p].piped /\ request'
    BY <1>1, <1>4, <1>7
<1>9. CASE Boot(p)
    <2>1. At(p, "spawned") /\ Stays(p, "open") /\ state' = state
        BY <1>4, <1>9, Path DEF Boot
    <2> QED BY <1>4, <1>8, <2>1 DEF Stays, Turns, Shows, Working, Entering, At
<1>10. CASE Open(p)
    <2>1. worker'[p].pc = "look"
        BY <1>10, Path DEF Turns
    <2>2. state'.status = "running" /\ state'.pid = p
        BY <1>10, TurnOfOpen, EntryFacts
    <2> QED BY <1>8, <2>1, <2>2 DEF Shows, Working, Entering
<1>11. CASE CopyLook(p)
    <2>1. At(p, "look") /\ worker'[p].pc \in {"copy", "setup"}
        BY <1>11, Path DEF Stays, Turns
    <2>2. state' = state
        BY <1>11 DEF CopyLook, disk
    <2> QED BY <1>4, <1>8, <2>1, <2>2 DEF Shows, Working, Entering, At
<1>12. CASE CopyFile(p)
    <2>1. At(p, "copy") /\ worker'[p].pc \in {"setup", "copying"}
        BY <1>12, Path DEF Stays, Turns
    <2>2. state' = state
        BY <1>12 DEF CopyFile, disk
    <2> QED BY <1>4, <1>8, <2>1, <2>2 DEF Shows, Working, Entering, At
<1>13. CASE CopyContents(p)
    <2>1. At(p, "copying") /\ worker'[p].pc \in {"copy"}
        BY <1>13, Path DEF Stays, Turns
    <2>2. state' = state
        BY <1>13 DEF CopyContents, disk
    <2> QED BY <1>4, <1>8, <2>1, <2>2 DEF Shows, Working, Entering, At
<1>14. CASE Setup(p)
    <2>1. At(p, "setup") /\ worker'[p].pc \in {"failing", "check"}
        BY <1>14, Path DEF Stays, Turns
    <2>2. state' = worker[p].mem
        BY <1>6, <1>14 DEF Setup
    <2> QED BY <1>6, <1>8, <2>1, <2>2 DEF Shows, Working, Entering, At
<1>15. CASE Check(p)
    <2>1. At(p, "check") /\ worker'[p].pc \in {"pausing", "report", "call"}
        BY <1>15, Path DEF Stays, Turns
    <2>2. state' = state
        BY <1>15 DEF Check, disk
    <2> QED BY <1>4, <1>8, <2>1, <2>2 DEF Shows, Working, Entering, At
<1>16. CASE Store(p)
    <2>1. At(p, "store") /\ worker'[p].pc = "report"
        BY <1>16, Path DEF Stays, Turns
    <2>2. state' = state
        BY <1>16 DEF Store, disk
    <2> QED BY <1>4, <1>8, <2>1, <2>2 DEF Shows, Working, Entering, At
<1>17. CASE Report(p)
    <2> DEFINE mem == [Mem(p) EXCEPT !.done = worker[p].i]
    <2>1. At(p, "report") /\ Turns(p, "forward", worker[p].i, worker[p].cost, mem) /\ state' = mem
        BY <1>17, Path, TurnOfReport
    <2>2. mem.status = Mem(p).status /\ mem.pid = Mem(p).pid
        BY <1>6, <1>17, TurnOfReport, CountFacts
    <2> HIDE DEF mem
    <2>3. At(p, "report") /\ worker'[p].pc = "forward"
        BY <2>1 DEF Turns
    <2> QED BY <1>6, <1>8, <2>1, <2>2, <2>3 DEF Shows, Working, Entering, At
<1>18. CASE Forward(p)
    <2>1. /\ At(p, "forward") /\ worker'[p].pc \in {"failing", "check"}
        BY <1>18, Path DEF Stays, Turns
    <2>2. state' = state
        BY <1>18 DEF Forward, disk
    <2> QED BY <1>4, <1>8, <2>1, <2>2 DEF Shows, Working, Entering, At
<1>19. CASE Rendered(p)
    <2>1. At(p, "check") /\ worker'[p].pc \in {"assemble"}
        BY <1>19, Path DEF Stays, Turns
    <2>2. state' = state
        BY <1>19 DEF Rendered, disk
    <2> QED BY <1>4, <1>8, <2>1, <2>2 DEF Shows, Working, Entering, At
<1>20. CASE Assemble(p)
    <2>1. At(p, "assemble") /\ worker'[p].pc \in {"finish", "failing"}
        BY <1>20, Path DEF Stays, Turns
    <2>2. state' = worker[p].mem
        BY <1>6, <1>20 DEF Assemble
    <2> QED BY <1>6, <1>8, <2>1, <2>2 DEF Shows, Working, Entering, At
<1>21. CASE EndPaused(p)
    <2> DEFINE mem == EndSegment(p, "paused")
    <2>1. worker'[p].pc = "exit" /\ state' = [mem EXCEPT !.status = "paused"]
        BY <1>21, Path DEF EndPaused, Stays, Turns
    <2>2. mem \in Ledgers
        BY SegmentFacts
    <2> HIDE DEF mem
    <2>3. [mem EXCEPT !.status = "paused"].status = "paused"
        BY <2>2, LedgerFacts DEF Statuses
    <2>4. state'.status = "paused"
        BY <2>1, <2>3
    <2> QED BY <1>8, <2>1, <2>4 DEF Shows, Working, Entering
<1>22. CASE EndFailed(p)
    <2>1. At(p, "failing") /\ worker'[p].pc = "failed"
        BY <1>4, <1>22, Path DEF Turns
    <2>2. state' = state
        BY <1>22 DEF EndFailed, disk
    <2> QED BY <1>4, <1>8, <2>1, <2>2 DEF Shows, Working, Entering, At
<1>23. CASE WriteFailed(p)
    <2>1. At(p, "failed") /\ worker'[p].pc = "exit"
        BY <1>23, Path DEF Stays, Turns
    <2>2. state' = worker[p].mem
        BY <1>6, <1>23 DEF WriteFailed
    <2> QED BY <1>6, <1>8, <2>1, <2>2 DEF Shows, Working, Entering, At
<1>24. CASE EndDone(p)
    <2>1. At(p, "finish") /\ worker'[p].pc = "finalize"
        BY <1>4, <1>24, Path DEF Turns
    <2>2. state' = state
        BY <1>24 DEF EndDone, disk
    <2> QED BY <1>4, <1>8, <2>1, <2>2 DEF Shows, Working, Entering, At
<1>25. CASE Finalize(p)
    <2>1. worker'[p].pc = "exit"
        BY <1>25, Path DEF Stays, Turns
    <2>2. state'.status = "done"
        BY <1>6, <1>25, LedgerFacts DEF Finalize, Statuses
    <2> QED BY <1>8, <2>1, <2>2 DEF Shows, Working, Entering
<1>26. CASE Exit(p)
    <2>1. Gone(p)
        BY <1>26, Path
    <2> QED BY <1>7, <2>1 DEF Gone
<1>27. CASE Call(p)
    <2>1. At(p, "call") /\ worker'[p].pc \in {"failing", "store"}
        BY <1>27, Path DEF Stays, Turns
    <2>2. state' = state
        BY <1>27 DEF Call, disk
    <2> QED BY <1>4, <1>8, <2>1, <2>2 DEF Shows, Working, Entering, At
<1>28. CASE Fails(p)
    <2>1. worker[p].pc \in {"setup", "call", "assemble", "copy"} /\ Stays(p, "failing")
        BY <1>28, Path DEF Stays, Turns
    <2>2. state' = state
        BY <1>28 DEF Fails, disk
    <2> QED BY <1>4, <1>8, <2>1, <2>2 DEF Shows, Working, Entering, At, Stays, Turns
<1>29. CASE Kill(p)
    <2>1. Gone(p)
        BY <1>29, Path
    <2> QED BY <1>7, <2>1 DEF Gone
<1> QED BY <1>9, <1>10, <1>11, <1>12, <1>13, <1>14, <1>15, <1>16, <1>17, <1>18, <1>19, <1>20,
           <1>21, <1>22, <1>23, <1>24, <1>25, <1>26, <1>27, <1>28, <1>29 DEF Works

\* What the list shows of a job that may be started.
LEMMA ViewFacts ==
    /\ state = None => View = "deleted"
    /\ state # None /\ state.status # "running" => View = state.status
    /\ state # None /\ state.status = "running" /\ Live(state.pid) => View = "running"
    /\ state # None /\ state.status = "running" /\ ~Live(state.pid) => View = "interrupted"
    /\ View \in {"created", "paused", "interrupted", "failed"} /\ state.status \in Statuses =>
           state # None /\ state.status \in {"created", "paused", "failed", "running"}
<1>1. state = None => View = "deleted"
    BY DEF View
<1>2. state # None /\ state.status # "running" => View = state.status
    BY DEF View
<1>3. state # None /\ state.status = "running" /\ Live(state.pid) => View = "running"
    BY DEF View
<1>4. state # None /\ state.status = "running" /\ ~Live(state.pid) => View = "interrupted"
    BY DEF View
<1>5. ASSUME View \in {"created", "paused", "interrupted", "failed"}, state.status \in Statuses
      PROVE  state # None /\ state.status \in {"created", "paused", "failed", "running"}
    BY <1>1, <1>2, <1>5 DEF Statuses
<1> QED BY <1>1, <1>2, <1>3, <1>4, <1>5

LEMMA WatchOfManager ==
    ASSUME TypeOK, PlaceInv, LedgerInv, SupInv, WatchInv, FreshInv,
           \/ Reap \/ CancelLook \/ CancelTimeout \/ CancelProceed \/ CancelRead \/ CancelWrite
           \/ Start \/ Pause \/ CancelAsk \/ Delete \/ DeleteParent
           \/ RaiseCeiling \/ Restart
    PROVE  WatchInv' /\ FreshInv'
<1>1. CASE \/ Reap \/ CancelLook \/ CancelProceed \/ Pause \/ CancelAsk \/ RaiseCeiling
           \/ DeleteParent
    <2>1. UNCHANGED <<request, state, worker, restarts>>
        BY <1>1 DEF Reap, CancelLook, CancelProceed, Pause, CancelAsk, RaiseCeiling,
                    DeleteParent, disk, manager
    <2>2. cancel'.pc = "write" => cancel' = cancel
        BY <1>1 DEF Reap, CancelLook, CancelProceed, Pause, CancelAsk, RaiseCeiling,
                    DeleteParent, manager, TypeOK
    <2> QED BY <2>1, <2>2 DEF WatchInv, FreshInv, Shows, Live, At
<1>2. CASE CancelRead
    <2>1. /\ UNCHANGED <<request, state, worker, restarts>>
          /\ \/ cancel'.pc = "idle"
             \/ cancel'.state = state /\ state.status # "done"
        BY <1>2 DEF CancelRead, disk
    <2> QED BY <2>1 DEF WatchInv, FreshInv, Shows, Live, At
<1>3. CASE CancelTimeout
    <2>1. /\ UNCHANGED <<request, state, restarts>> /\ cancel'.pc = "terminated"
          /\ sup.pid \in Pids /\ Terminate(sup.pid)
        BY <1>3 DEF CancelTimeout, Supervised, disk, TypeOK
    <2>2. Gone(sup.pid) \/ Stays(sup.pid, worker[sup.pid].pc)
        BY <2>1, TurnOfTerminate
    <2>3. CASE Gone(sup.pid)
        BY <2>1, <2>3 DEF Gone, WatchInv, FreshInv, Shows, Live, At
    <2>4. CASE Stays(sup.pid, worker[sup.pid].pc)
        BY <2>1, <2>4 DEF Stays, Turns, WatchInv, FreshInv, Shows, Live, At
    <2> QED BY <2>2, <2>3, <2>4
<1>4. CASE CancelWrite
    <2>1. /\ UNCHANGED <<request, worker, restarts, sup>> /\ cancel.pc = "write"
          /\ cancel'.pc = "idle" /\ (request \/ state' = state)
        BY <1>4 DEF CancelWrite
    <2>2. restarts = 0 => \A p \in Pids : ~Live(p)
        BY <2>1, Alive
    <2> QED BY <2>1, <2>2 DEF WatchInv, FreshInv, Live, At
<1>5. CASE Start
    <2>1. PICK p \in Pids : At(p, "none") /\ Stays(p, "spawned")
        BY <1>5, TurnOfStart
    <2>2. /\ UNCHANGED <<request, state, cancel, restarts>> /\ cancel.pc # "write" /\ ~Supervised
          /\ View \in {"created", "paused", "interrupted", "failed"}
        BY <1>5 DEF Start, disk, copies
    <2>3. restarts = 0 => \A q \in Pids : ~Live(q)
        BY <2>2, Alive
    <2>8. state # None /\ state.status \in Statuses
        BY <2>2, ViewFacts DEF TypeOK, Ledgers
    <2>4. state.status \in {"created", "paused", "failed", "running"}
        BY <2>2, <2>8, ViewFacts
    <2>5. FreshInv'
        BY <2>1 DEF Stays, Turns, FreshInv, At
    <2>6. restarts = 0 => Shows(p)'
        BY <2>1, <2>2, <2>4, <2>8 DEF Stays, Turns, At, FreshInv, WatchInv, Shows, Entering, Working
    <2>7. restarts = 0 => \A q \in Pids : Live(q)' => q = p
        BY <2>1, <2>3 DEF Stays, Turns, Live
    <2> QED BY <2>2, <2>5, <2>6, <2>7 DEF WatchInv
<1>6. CASE Delete
    <2>1. /\ UNCHANGED <<worker, restarts>> /\ request' = FALSE /\ state' = None /\ ~Supervised
        BY <1>6 DEF Delete, manager
    <2>2. restarts = 0 => \A q \in Pids : ~Live(q)
        BY <2>1, Alive
    <2> QED BY <2>1, <2>2 DEF WatchInv, FreshInv, Live, At
<1>7. CASE Restart
    <2>1. Forgets
        BY <1>7, TurnOfRestart
    <2>2. restarts' # 0
        <3>1. restarts' = restarts + 1 /\ restarts \in Nat
            BY <1>7 DEF Restart, TypeOK
        <3> QED BY <3>1
    <2>3. FreshInv'
        BY <2>1 DEF Forgets, FreshInv, Live, At
    <2> QED BY <2>2, <2>3 DEF WatchInv
<1> QED BY <1>1, <1>2, <1>3, <1>4, <1>5, <1>6, <1>7

-----------------------------------------------------------------------------
(* While the sidecar has exited at most once: one worker renders.          *)

\* At most one worker is forgotten, and while it renders the job cannot be started.
AloneInv ==
    restarts <= 1 =>
        /\ \A p, q \in Pids :
               Live(p) /\ Live(q) /\ ~worker[p].piped /\ ~worker[q].piped => p = q
        /\ \A p \in Pids :
               Rendering(p) /\ ~worker[p].piped =>
                   /\ \A q \in Pids : Live(q) => q = p
                   /\ state # None =>
                          \/ state.status = "cancelled"
                          \/ state.status = "running" /\ state.pid = p

LEMMA OneRenders ==
    ASSUME SupInv, AloneInv
    PROVE  OneRenderer
<1>1. SUFFICES ASSUME restarts <= 1, NEW p \in Pids, NEW q \in Pids, Rendering(p), Rendering(q)
               PROVE  p = q
    BY DEF OneRenderer
<1>2. Live(p) /\ Live(q)
    BY <1>1 DEF Rendering, Live
<1>3. CASE ~worker[p].piped \/ ~worker[q].piped
    BY <1>1, <1>2, <1>3 DEF AloneInv
<1>4. CASE worker[p].piped /\ worker[q].piped
    BY <1>2, <1>4 DEF SupInv
<1> QED BY <1>3, <1>4

LEMMA AloneInit == ASSUME Init PROVE AloneInv
<1>1. \A p \in Pids : worker[p].pc = "none" /\ worker[p].piped
    BY WorkerFacts DEF Init, PCs
<1> QED BY <1>1 DEF AloneInv, Live, Rendering

\* A forgotten worker that renders has done so before, and writes nothing that far.
LEMMA RendersOn ==
    ASSUME TypeOK, PlaceInv, NEW p \in Pids, Works(p) \/ Call(p) \/ Fails(p) \/ Kill(p),
           Rendering(p)', ~worker[p].piped
    PROVE  Rendering(p) /\ state' = state
<1>1. CASE Boot(p)
    <2>1. worker'[p].pc \in {"open", "exit"}
        BY <1>1, Path DEF Stays, Turns
    <2> QED BY <2>1 DEF Rendering
<1>2. CASE Open(p)
    <2>1. worker'[p].pc \in {"look"}
        BY <1>2, Path DEF Stays, Turns
    <2> QED BY <2>1 DEF Rendering
<1>3. CASE CopyLook(p)
    <2>1. worker'[p].pc \in {"copy", "setup"}
        BY <1>3, Path DEF Stays, Turns
    <2> QED BY <2>1 DEF Rendering
<1>4. CASE CopyFile(p)
    <2>1. worker'[p].pc \in {"setup", "copying"}
        BY <1>4, Path DEF Stays, Turns
    <2> QED BY <2>1 DEF Rendering
<1>5. CASE CopyContents(p)
    <2>1. worker'[p].pc \in {"copy"}
        BY <1>5, Path DEF Stays, Turns
    <2> QED BY <2>1 DEF Rendering
<1>6. CASE Setup(p)
    <2>1. worker'[p].pc \in {"failing"}
        BY <1>6, Path DEF Stays, Turns
    <2> QED BY <2>1 DEF Rendering
<1>7. CASE Check(p)
    BY <1>7 DEF Check, Rendering, At, disk
<1>8. CASE Store(p)
    BY <1>8 DEF Store, Rendering, At, disk
<1>9. CASE Report(p)
    <2>1. worker'[p].pc \in {"forward"}
        BY <1>9, Path DEF Stays, Turns
    <2> QED BY <2>1 DEF Rendering
<1>10. CASE Forward(p)
    <2>1. worker'[p].pc \in {"failing"}
        BY <1>10, Path DEF Stays, Turns
    <2> QED BY <2>1 DEF Rendering
<1>11. CASE Rendered(p)
    <2>1. worker'[p].pc \in {"assemble"}
        BY <1>11, Path DEF Stays, Turns
    <2> QED BY <2>1 DEF Rendering
<1>12. CASE Assemble(p)
    <2>1. worker'[p].pc \in {"finish", "failing"}
        BY <1>12, Path DEF Stays, Turns
    <2> QED BY <2>1 DEF Rendering
<1>13. CASE EndPaused(p)
    <2>1. worker'[p].pc \in {"exit"}
        BY <1>13, Path DEF Stays, Turns
    <2> QED BY <2>1 DEF Rendering
<1>14. CASE EndFailed(p)
    <2>1. worker'[p].pc \in {"failed", "exit"}
        BY <1>14, Path DEF Stays, Turns
    <2> QED BY <2>1 DEF Rendering
<1>15. CASE WriteFailed(p)
    <2>1. worker'[p].pc \in {"exit"}
        BY <1>15, Path DEF Stays, Turns
    <2> QED BY <2>1 DEF Rendering
<1>16. CASE EndDone(p)
    <2>1. worker'[p].pc \in {"finalize", "exit"}
        BY <1>16, Path DEF Stays, Turns
    <2> QED BY <2>1 DEF Rendering
<1>17. CASE Finalize(p)
    <2>1. worker'[p].pc \in {"exit"}
        BY <1>17, Path DEF Stays, Turns
    <2> QED BY <2>1 DEF Rendering
<1>18. CASE Exit(p)
    <2>1. worker'[p].pc = "dead"
        BY <1>18, Path DEF Gone
    <2> QED BY <2>1 DEF Rendering
<1>19. CASE Call(p)
    BY <1>19 DEF Call, Rendering, At, disk
<1>20. CASE Fails(p)
    <2>1. worker'[p].pc \in {"failing"}
        BY <1>20, Path DEF Stays, Turns
    <2> QED BY <2>1 DEF Rendering
<1>21. CASE Kill(p)
    <2>1. worker'[p].pc = "dead"
        BY <1>21, Path DEF Gone
    <2> QED BY <2>1 DEF Rendering
<1> QED BY <1>1, <1>2, <1>3, <1>4, <1>5, <1>6, <1>7, <1>8, <1>9, <1>10, <1>11, <1>12, <1>13,
           <1>14, <1>15, <1>16, <1>17, <1>18, <1>19, <1>20, <1>21 DEF Works

LEMMA AloneOfWork ==
    ASSUME TypeOK, PlaceInv, AloneInv, NEW p \in Pids, Works(p) \/ Call(p) \/ Fails(p) \/ Kill(p)
    PROVE  AloneInv'
<1>1. /\ restarts' = restarts
      /\ \A q \in Pids : q # p => worker'[q] = worker[q]
      /\ Live(p) /\ worker'[p].pc \notin {"none", "spawned"}
      /\ worker'[p].pc # "dead" => worker'[p].piped = worker[p].piped
    BY WorkFrame
<1>2. SUFFICES ASSUME restarts <= 1 PROVE AloneInv'
    BY <1>1 DEF AloneInv
<1>3. \A q \in Pids : Live(q)' => Live(q) /\ worker'[q].piped = worker[q].piped
    BY <1>1 DEF Live
<1>4. \A q, r \in Pids :
          (Live(q) /\ Live(r) /\ ~worker[q].piped /\ ~worker[r].piped)' => q = r
    BY <1>2, <1>3 DEF AloneInv
<1>5. ASSUME NEW r \in Pids, Rendering(r)', ~worker'[r].piped
      PROVE  Rendering(r) /\ ~worker[r].piped /\ state' = state
    <2>1. Live(r)'
        BY <1>5 DEF Rendering, Live
    <2>2. ~worker[r].piped
        BY <1>3, <1>5, <2>1
    <2>3. CASE r = p
        BY <1>5, <2>2, <2>3, RendersOn
    <2>4. CASE r # p
        <3>1. Rendering(r)
            BY <1>1, <1>5, <2>4 DEF Rendering
        <3>2. p = r
            BY <1>1, <1>2, <2>2, <3>1 DEF AloneInv
        <3> QED BY <2>4, <3>2
    <2> QED BY <2>3, <2>4
<1>6. \A r \in Pids :
          (Rendering(r) /\ ~worker[r].piped)' =>
              /\ \A q \in Pids : Live(q)' => q = r
              /\ state' # None =>
                     \/ state'.status = "cancelled"
                     \/ state'.status = "running" /\ state'.pid = r
    BY <1>2, <1>3, <1>5 DEF AloneInv
<1> QED BY <1>4, <1>6 DEF AloneInv

LEMMA AloneOfManager ==
    ASSUME TypeOK, PlaceInv, LedgerInv, SupInv, WatchInv, FreshInv, AloneInv,
           \/ Reap \/ CancelLook \/ CancelTimeout \/ CancelProceed \/ CancelRead \/ CancelWrite
           \/ Start \/ Pause \/ CancelAsk \/ Delete \/ DeleteParent
           \/ RaiseCeiling \/ Restart
    PROVE  AloneInv'
<1>1. CASE \/ Reap \/ CancelLook \/ CancelProceed \/ CancelRead \/ Pause \/ CancelAsk
           \/ RaiseCeiling \/ DeleteParent
    <2>1. UNCHANGED <<state, worker, restarts>>
        BY <1>1 DEF Reap, CancelLook, CancelProceed, CancelRead, Pause, CancelAsk, RaiseCeiling,
                    DeleteParent, disk, manager
    <2> QED BY <2>1 DEF AloneInv, Live, Rendering
<1>2. CASE CancelTimeout
    <2>1. UNCHANGED <<state, restarts>> /\ sup.pid \in Pids /\ Terminate(sup.pid)
        BY <1>2 DEF CancelTimeout, Supervised, disk, TypeOK
    <2>2. Gone(sup.pid) \/ Stays(sup.pid, worker[sup.pid].pc)
        BY <2>1, TurnOfTerminate
    <2>3. CASE Gone(sup.pid)
        BY <2>1, <2>3 DEF Gone, AloneInv, Live, Rendering
    <2>4. CASE Stays(sup.pid, worker[sup.pid].pc)
        BY <2>1, <2>4 DEF Stays, Turns, AloneInv, Live, Rendering
    <2> QED BY <2>2, <2>3, <2>4
<1>3. CASE CancelWrite
    <2>1. /\ UNCHANGED <<worker, restarts>> /\ cancel.pc = "write"
          /\ state' = IF request THEN [cancel.state EXCEPT !.status = "cancelled"] ELSE state
        BY <1>3 DEF CancelWrite
    <2>2. cancel.state \in Ledgers
        BY <2>1 DEF LedgerInv, TypeOK
    <2> DEFINE s == [cancel.state EXCEPT !.status = "cancelled"]
    <2>3. s.status = "cancelled"
        BY <2>2, LedgerFacts DEF Statuses
    <2>4. state' = s \/ state' = state
        BY <2>1
    <2> HIDE DEF s
    <2> QED BY <2>1, <2>3, <2>4 DEF AloneInv, Live, Rendering
<1>4. CASE Start
    <2>1. PICK p \in Pids : At(p, "none") /\ Stays(p, "spawned")
        BY <1>4, TurnOfStart
    <2>2. /\ UNCHANGED <<state, restarts>>
          /\ View \in {"created", "paused", "interrupted", "failed"}
        BY <1>4 DEF Start, disk
    <2>3. restarts <= 1 => \A r \in Pids : Rendering(r) => worker[r].piped
        BY <2>2, ViewFacts DEF AloneInv, Rendering, Live
    <2>4. worker'[p].piped /\ worker'[p].pc = "spawned"
        BY <2>1 DEF Stays, Turns, FreshInv
    <2>5. \A q \in Pids : q # p => worker'[q] = worker[q]
        BY <2>1 DEF Stays, Turns
    <2> QED BY <2>2, <2>3, <2>4, <2>5 DEF AloneInv, Live, Rendering
<1>5. CASE Delete
    <2>1. UNCHANGED <<worker, restarts>> /\ state' = None
        BY <1>5 DEF Delete, manager
    <2> QED BY <2>1 DEF AloneInv, Live, Rendering
<1>6. CASE Restart
    <2>1. Forgets /\ state' = state
        BY <1>6, TurnOfRestart DEF Restart, disk
    <2>2. restarts' <= 1 => restarts = 0
        BY <1>6 DEF Restart, TypeOK
    <2>3. SUFFICES ASSUME restarts = 0 PROVE AloneInv'
        BY <2>2 DEF AloneInv
    <2>4. \A p, q \in Pids : Live(p) /\ Live(q) => p = q
        BY <2>3, OnlyOne
    <2>5. \A p \in Pids : Rendering(p) => Live(p) /\ state.status = "running" /\ state.pid = p
        BY <2>3 DEF WatchInv, Shows, Rendering, Live, Working
    <2>6. \A p \in Pids : (Live(p)' <=> Live(p)) /\ (Rendering(p)' <=> Rendering(p))
        BY <2>1 DEF Forgets, Live, Rendering
    <2> QED BY <2>1, <2>4, <2>5, <2>6 DEF AloneInv
<1> QED BY <1>1, <1>2, <1>3, <1>4, <1>5, <1>6

-----------------------------------------------------------------------------
(* What is paid for.                                                       *)

\* Once more where the directory of the parent run went with what was stored.
Again == IF ParentLost THEN 1 ELSE 0

\* An answer that was not lost is in the cache or about to be, and none is asked for
\* that has been paid for and not lost.
PaidInv ==
    request /\ restarts <= 1 /\ layout.place # "none" =>
        /\ \A k \in Keys : billed[k] <= lost[k] + 1 + Again
        /\ \A k \in Keys \ cache :
               (\A p \in Pids : ~(At(p, "store") /\ Key(p) = k)) => billed[k] <= lost[k] + Again
        /\ \A p \in Pids : At(p, "call") => billed[Key(p)] <= lost[Key(p)] + Again

LEMMA PaidInit == ASSUME Init PROVE PaidInv
<1>1. \A p \in Pids : worker[p].pc = "none"
    BY WorkerFacts DEF Init, PCs
<1>2. \A k \in Keys : billed[k] = 0 /\ lost[k] = 0
    BY DEF Init
<1>3. Again = 0
    BY DEF Init, Again, ParentLost
<1> QED BY <1>1, <1>2, <1>3 DEF PaidInv, At

LEMMA PaidQuietly ==
    ASSUME PaidInv, UNCHANGED <<request, restarts, layout, gone, billed, lost>>,
           cache \subseteq cache',
           \A q \in Pids : At(q, "call")' => At(q, "call") /\ Key(q)' = Key(q),
           \A q \in Pids : At(q, "store") => At(q, "store")' /\ Key(q)' = Key(q)
    PROVE  PaidInv'
<1>1. SUFFICES ASSUME request, restarts <= 1, layout.place # "none" PROVE PaidInv'
    BY DEF PaidInv
<1>5. Again' = Again
    BY DEF Again, ParentLost
<1>2. \A k \in Keys : billed'[k] <= lost'[k] + 1 + Again
    BY <1>1 DEF PaidInv
<1>3. \A p \in Pids : At(p, "call")' => billed'[Key(p)'] <= lost'[Key(p)'] + Again
    BY <1>1 DEF PaidInv
<1>4. ASSUME NEW k \in Keys \ cache', \A p \in Pids : ~(At(p, "store")' /\ Key(p)' = k)
      PROVE  billed'[k] <= lost'[k] + Again
    BY <1>1, <1>4 DEF PaidInv
<1> QED BY <1>1, <1>2, <1>3, <1>4, <1>5 DEF PaidInv

LEMMA PaidOfWork ==
    ASSUME TypeOK, PlaceInv, OneRenderer, PaidInv, NEW p \in Pids,
           Works(p) \/ Call(p) \/ Fails(p) \/ Kill(p)
    PROVE  PaidInv'
<1>1. /\ request' = request /\ restarts' = restarts /\ layout' = layout /\ gone' = gone
      /\ \A q \in Pids : q # p => worker'[q] = worker[q]
    BY WorkFrame
<1>2. cache \subseteq cache'
    BY WorkKeeps
<1>3. SUFFICES ASSUME request, restarts <= 1, layout.place # "none" PROVE PaidInv'
    BY <1>1 DEF PaidInv
<1>27. Again' = Again /\ Again \in {0, 1}
    BY <1>1 DEF Again, ParentLost
<1>4. \A q \in Pids : Rendering(p) /\ Rendering(q) => q = p
    BY <1>3 DEF OneRenderer
<1>5. ASSUME worker[p].pc # "store", worker'[p].pc # "call", billed' = billed, lost' = lost
      PROVE  PaidInv'
    BY <1>1, <1>2, <1>5, PaidQuietly DEF At, Key
<1>6. CASE Boot(p)
    <2>1. worker[p].pc = "spawned" /\ worker'[p].pc \in {"open", "exit"}
        BY <1>6, Path DEF At, Stays, Turns
    <2> QED BY <1>5, <1>6, <2>1 DEF Boot, history
<1>7. CASE Open(p)
    <2>1. worker[p].pc = "open" /\ worker'[p].pc \in {"look"}
        BY <1>7, Path DEF At, Stays, Turns
    <2> QED BY <1>5, <1>7, <2>1 DEF Open, history
<1>8. CASE CopyLook(p)
    <2>1. worker[p].pc = "look" /\ worker'[p].pc \in {"copy", "setup"}
        BY <1>8, Path DEF At, Stays, Turns
    <2> QED BY <1>5, <1>8, <2>1 DEF CopyLook, history
<1>9. CASE CopyFile(p)
    <2>1. worker[p].pc = "copy" /\ worker'[p].pc \in {"setup", "copying"}
        BY <1>9, Path DEF At, Stays, Turns
    <2> QED BY <1>5, <1>9, <2>1 DEF CopyFile, history
<1>10. CASE CopyContents(p)
    <2>1. worker[p].pc = "copying" /\ worker'[p].pc \in {"copy"}
        BY <1>10, Path DEF At, Stays, Turns
    <2> QED BY <1>5, <1>10, <2>1 DEF CopyContents, history
<1>11. CASE Setup(p)
    <2>1. worker[p].pc = "setup" /\ worker'[p].pc \in {"failing", "check"}
        BY <1>11, Path DEF At, Stays, Turns
    <2> QED BY <1>5, <1>11, <2>1 DEF Setup, history
<1>12. CASE Check(p)
    <2>1. At(p, "check") /\ billed' = billed /\ lost' = lost /\ cache' = cache
        BY <1>12 DEF Check, disk, history
    <2>2. \/ worker'[p].pc \in {"pausing", "report"}
          \/ Key(p) \notin cache /\ worker[p].i <= Len(Artifacts) /\ Stays(p, "call")
        BY <1>12, Path DEF Stays, Turns
    <2>3. CASE worker'[p].pc \in {"pausing", "report"}
        BY <1>5, <2>1, <2>3 DEF At
    <2>4. CASE Key(p) \notin cache /\ worker[p].i <= Len(Artifacts) /\ Stays(p, "call")
        <3>1. \A q \in Pids : ~At(q, "store")
            BY <1>4, <2>1 DEF At, Rendering
        <3>2. worker[p].i \in 1..Len(Artifacts)
            BY <2>4, ConstantFacts DEF TypeOK, Workers
        <3>3. Key(p) \in Keys
            BY <3>2, ConstantFacts DEF Key
        <3>4. billed[Key(p)] <= lost[Key(p)] + Again
            BY <1>3, <2>4, <3>1, <3>3 DEF PaidInv
        <3>5. \A q \in Pids : At(q, "call")' => billed[Key(q)'] <= lost[Key(q)'] + Again
            BY <1>1, <1>3, <2>4, <3>4 DEF Stays, Turns, At, Key, PaidInv
        <3> QED BY <1>1, <1>3, <1>27, <2>1, <3>1, <3>5 DEF PaidInv
    <2> QED BY <2>2, <2>3, <2>4
<1>13. CASE Store(p)
    <2>1. At(p, "store") /\ cache' = cache \cup {Key(p)} /\ billed' = billed /\ lost' = lost
        BY <1>3, <1>13 DEF Store, history
    <2>2. worker'[p].pc = "report"
        BY <1>13, Path DEF Turns
    <2>3. \A q \in Pids : ~At(q, "call")'
        BY <1>1, <1>4, <2>1, <2>2 DEF At, Rendering
    <2>4. ASSUME NEW l \in Keys \ cache', \A q \in Pids : ~(At(q, "store")' /\ Key(q)' = l)
          PROVE  billed[l] <= lost[l] + Again
        <3>1. \A q \in Pids : ~(At(q, "store") /\ Key(q) = l)
            BY <1>1, <2>1, <2>4 DEF At, Key
        <3> QED BY <1>3, <2>1, <2>4, <3>1 DEF PaidInv
    <2> QED BY <1>1, <1>3, <1>27, <2>1, <2>3, <2>4 DEF PaidInv
<1>14. CASE Report(p)
    <2>1. worker[p].pc = "report" /\ worker'[p].pc \in {"forward"}
        BY <1>14, Path DEF At, Stays, Turns
    <2> QED BY <1>5, <1>14, <2>1 DEF Report, history
<1>15. CASE Forward(p)
    <2>1. worker[p].pc = "forward" /\ worker'[p].pc \in {"check", "failing"}
        BY <1>15, Path DEF At, Stays, Turns
    <2> QED BY <1>5, <1>15, <2>1 DEF Forward, history
<1>16. CASE Rendered(p)
    <2>1. worker[p].pc = "check" /\ worker'[p].pc \in {"assemble"}
        BY <1>16, Path DEF At, Stays, Turns
    <2> QED BY <1>5, <1>16, <2>1 DEF Rendered, history
<1>17. CASE Assemble(p)
    <2>1. worker[p].pc = "assemble" /\ worker'[p].pc \in {"finish", "failing"}
        BY <1>17, Path DEF At, Stays, Turns
    <2> QED BY <1>5, <1>17, <2>1 DEF Assemble, history
<1>18. CASE EndPaused(p)
    <2>1. worker[p].pc = "pausing" /\ worker'[p].pc \in {"exit"}
        BY <1>18, Path DEF At, Stays, Turns
    <2> QED BY <1>5, <1>18, <2>1 DEF EndPaused, history
<1>19. CASE EndFailed(p)
    <2>1. worker[p].pc = "failing" /\ worker'[p].pc \in {"failed", "exit"}
        BY <1>19, Path DEF At, Stays, Turns
    <2> QED BY <1>5, <1>19, <2>1 DEF EndFailed, history
<1>20. CASE WriteFailed(p)
    <2>1. worker[p].pc = "failed" /\ worker'[p].pc \in {"exit"}
        BY <1>20, Path DEF At, Stays, Turns
    <2> QED BY <1>5, <1>20, <2>1 DEF WriteFailed, history
<1>21. CASE EndDone(p)
    <2>1. worker[p].pc = "finish" /\ worker'[p].pc \in {"finalize", "exit"}
        BY <1>21, Path DEF At, Stays, Turns
    <2> QED BY <1>5, <1>21, <2>1 DEF EndDone, history
<1>22. CASE Finalize(p)
    <2>1. worker[p].pc = "finalize" /\ worker'[p].pc \in {"exit"}
        BY <1>22, Path DEF At, Stays, Turns
    <2> QED BY <1>5, <1>22, <2>1 DEF Finalize, history
<1>23. CASE Exit(p)
    <2>1. worker[p].pc = "exit" /\ worker'[p].pc \in {"dead"}
        BY <1>23, Path DEF At, Gone
    <2> QED BY <1>5, <1>23, <2>1 DEF Exit, history
<1>24. CASE Call(p)
    <2> DEFINE k == Key(p)
    <2>1. At(p, "call") /\ cache' = cache /\ billed' = [billed EXCEPT ![k] = @ + 1]
        BY <1>24 DEF Call, disk
    <2>2. k \in Keys /\ billed \in [Keys -> Nat] /\ lost \in [Keys -> Nat]
        BY <2>1, KeyFacts DEF At, TypeOK
    <2>3. billed[k] <= lost[k] + Again
        BY <1>3, <2>1 DEF PaidInv
    <2>4. \/ Stays(p, "failing") /\ lost' = [lost EXCEPT ![k] = @ + 1]
          \/ Stays(p, "store") /\ lost' = lost
        BY <1>24, TurnOfCall
    <2>5. \A q \in Pids : q # p => ~At(q, "call")' /\ ~At(q, "store") /\ ~At(q, "store")'
        BY <1>1, <1>4, <2>1 DEF At, Rendering
    <2>6. \A q \in Pids : ~At(q, "call")'
        BY <2>4, <2>5 DEF At, Stays, Turns
    <2>7. billed'[k] = billed[k] + 1 /\ \A l \in Keys : l # k => billed'[l] = billed[l]
        BY <2>1, <2>2
    <2>8. \A l \in Keys : l # k => lost'[l] = lost[l]
        BY <2>2, <2>4
    <2>9. \/ Stays(p, "failing") /\ lost'[k] = lost[k] + 1
          \/ Stays(p, "store") /\ lost'[k] = lost[k]
        BY <2>2, <2>4
    <2>10. \A q \in Pids : ~At(q, "store")
        BY <2>1, <2>5 DEF At
    <2>11. \A l \in Keys : billed'[l] <= lost'[l] + 1 + Again
        <3>1. ASSUME NEW l \in Keys, l # k PROVE billed'[l] <= lost'[l] + 1 + Again
            BY <1>3, <2>7, <2>8, <3>1 DEF PaidInv
        <3>2. billed'[k] <= lost'[k] + 1 + Again
            BY <1>27, <2>2, <2>3, <2>7, <2>9
        <3> QED BY <3>1, <3>2
    <2>12. ASSUME NEW l \in Keys \ cache, \A q \in Pids : ~(At(q, "store")' /\ Key(q)' = l)
           PROVE  billed'[l] <= lost'[l] + Again
        <3>1. CASE l # k
            BY <1>3, <2>7, <2>8, <2>10, <2>12, <3>1 DEF PaidInv
        <3>2. CASE l = k
            <4>1. ~Stays(p, "store")
                BY <2>12, <3>2 DEF Stays, Turns, At, Key
            <4> QED BY <1>27, <2>2, <2>3, <2>7, <2>9, <3>2, <4>1
        <3> QED BY <3>1, <3>2
    <2> QED BY <1>1, <1>27, <2>1, <2>6, <2>11, <2>12 DEF PaidInv
<1>25. CASE Fails(p)
    <2>1. worker[p].pc # "store" /\ worker'[p].pc = "failing"
        BY <1>25, Path DEF Stays, Turns
    <2> QED BY <1>5, <1>25, <2>1 DEF Fails, history
<1>26. CASE Kill(p)
    <2>1. /\ worker'[p].pc = "dead" /\ cache' = cache /\ billed' = billed
          /\ lost' = LostWith(p)
        BY <1>26, Path DEF Gone, Kill, disk
    <2>2. \A k \in Keys : lost'[k] = lost[k] + (IF At(p, "store") /\ Key(p) = k THEN 1 ELSE 0)
        BY <2>1 DEF LostWith
    <2>3. \A k \in Keys : /\ billed[k] \in Nat /\ lost[k] \in Nat /\ lost'[k] \in Nat
                         /\ lost[k] <= lost'[k]
        BY <2>2 DEF TypeOK
    <2>4. \A q \in Pids : At(q, "call")' => At(q, "call") /\ Key(q)' = Key(q)
        BY <1>1, <2>1 DEF At, Key
    <2>5. ASSUME NEW q \in Pids, At(q, "call")'
          PROVE  billed[Key(q)'] <= lost'[Key(q)'] + Again
        <3>1. At(q, "call") /\ Key(q)' = Key(q) /\ Key(q) \in Keys
            BY <2>4, <2>5, KeyFacts DEF At
        <3> QED BY <1>3, <1>27, <2>3, <3>1 DEF PaidInv
    <2>6. ASSUME NEW l \in Keys \ cache, \A q \in Pids : ~(At(q, "store")' /\ Key(q)' = l)
          PROVE  billed[l] <= lost'[l] + Again
        <3>1. CASE At(p, "store") /\ Key(p) = l
            BY <1>3, <1>27, <2>2, <2>3, <2>6, <3>1 DEF PaidInv
        <3>2. CASE ~(At(p, "store") /\ Key(p) = l)
            <4>1. \A q \in Pids : ~(At(q, "store") /\ Key(q) = l)
                BY <1>1, <2>6, <3>2 DEF At, Key
            <4> QED BY <1>3, <1>27, <2>3, <2>6, <4>1 DEF PaidInv
        <3> QED BY <3>1, <3>2
    <2>7. \A k \in Keys : billed[k] <= lost'[k] + 1 + Again
        BY <1>3, <1>27, <2>3 DEF PaidInv
    <2> QED BY <1>1, <1>27, <2>1, <2>5, <2>6, <2>7 DEF PaidInv
<1> QED BY <1>6, <1>7, <1>8, <1>9, <1>10, <1>11, <1>12, <1>13, <1>14, <1>15, <1>16, <1>17, <1>18,
           <1>19, <1>20, <1>21, <1>22, <1>23, <1>24, <1>25, <1>26 DEF Works

LEMMA PaidOfManager ==
    ASSUME TypeOK, PlaceInv, PaidInv,
           \/ Reap \/ CancelLook \/ CancelTimeout \/ CancelProceed \/ CancelRead \/ CancelWrite
           \/ Start \/ Pause \/ CancelAsk \/ Delete \/ DeleteParent
           \/ RaiseCeiling \/ Restart
    PROVE  PaidInv'
<1>1. CASE \/ Reap \/ CancelLook \/ CancelProceed \/ CancelRead \/ CancelWrite \/ Pause
           \/ CancelAsk \/ RaiseCeiling
    <2>1. UNCHANGED <<request, restarts, layout, gone, billed, lost, cache, worker>>
        BY <1>1 DEF Reap, CancelLook, CancelProceed, CancelRead, CancelWrite, Pause, CancelAsk,
                    RaiseCeiling, disk, copies, manager,
                    history
    <2> QED BY <2>1, PaidQuietly DEF At, Key
<1>2. CASE CancelTimeout
    <2>1. /\ UNCHANGED <<request, restarts, layout, gone, billed, lost, cache>>
          /\ sup.pid \in Pids /\ Terminate(sup.pid)
        BY <1>2 DEF CancelTimeout, Supervised, disk, copies, TypeOK
    <2>2. \/ Gone(sup.pid) /\ worker[sup.pid].pc \in {"spawned", "finish", "finalize", "exit"}
          \/ Stays(sup.pid, worker[sup.pid].pc)
        BY <2>1, TurnOfTerminate
    <2>3. \A q \in Pids : /\ At(q, "call")' => At(q, "call") /\ Key(q)' = Key(q)
                          /\ At(q, "store") => At(q, "store")' /\ Key(q)' = Key(q)
        BY <2>1, <2>2 DEF Gone, Stays, Turns, At, Key
    <2> QED BY <2>1, <2>3, PaidQuietly
<1>3. CASE Start
    <2>1. PICK p \in Pids : At(p, "none") /\ Stays(p, "spawned")
        BY <1>3, TurnOfStart
    <2>2. UNCHANGED <<request, restarts, layout, gone, billed, lost, cache>>
        BY <1>3 DEF Start, disk, copies, history
    <2>3. \A q \in Pids : /\ At(q, "call")' => At(q, "call") /\ Key(q)' = Key(q)
                          /\ At(q, "store") => At(q, "store")' /\ Key(q)' = Key(q)
        BY <2>1 DEF Stays, Turns, At, Key
    <2> QED BY <2>2, <2>3, PaidQuietly
<1>4. CASE Delete
    BY <1>4 DEF Delete, PaidInv
<1>5. CASE Restart
    <2>1. Forgets
        BY <1>5, TurnOfRestart
    <2>2. /\ UNCHANGED <<request, layout, gone, billed, lost, cache>>
          /\ restarts' <= 1 => restarts <= 1
        BY <1>5 DEF Restart, disk, copies, history, TypeOK
    <2>3. \A q \in Pids : /\ At(q, "call")' <=> At(q, "call")
                          /\ At(q, "store")' <=> At(q, "store")
                          /\ Key(q)' = Key(q)
        BY <2>1 DEF Forgets, At, Key
    <2> QED BY <2>2, <2>3 DEF PaidInv, Again, ParentLost
<1>6. CASE DeleteParent
    <2>1. /\ UNCHANGED <<request, restarts, layout, billed, lost, worker>>
          /\ ~gone /\ gone' = TRUE /\ cache' = IF layout.place = "parent" THEN {} ELSE cache
        BY <1>6 DEF DeleteParent, manager, history
    <2>2. SUFFICES ASSUME request, restarts <= 1, layout.place # "none" PROVE PaidInv'
        BY <2>1 DEF PaidInv
    <2>3. Again = 0 /\ Again' = IF layout.place = "parent" THEN 1 ELSE 0
        BY <2>1 DEF Again, ParentLost
    <2>4. \A k \in Keys : billed[k] \in Nat /\ lost[k] \in Nat
        BY DEF TypeOK
    <2>5. \A k \in Keys : billed[k] <= lost[k] + 1
        BY <2>2, <2>3, <2>4 DEF PaidInv
    <2>6. \A q \in Pids : At(q, "call") => Key(q) \in Keys
        BY KeyFacts DEF At
    <2>7. ASSUME NEW q \in Pids, At(q, "call") PROVE billed[Key(q)] <= lost[Key(q)] + Again'
        BY <2>2, <2>3, <2>4, <2>6, <2>7 DEF PaidInv
    <2>8. ASSUME NEW k \in Keys \ cache', \A q \in Pids : ~(At(q, "store") /\ Key(q) = k)
          PROVE  billed[k] <= lost[k] + Again'
        BY <2>1, <2>2, <2>3, <2>4, <2>5, <2>8 DEF PaidInv
    <2>9. \A k \in Keys : billed[k] <= lost[k] + 1 + Again'
        BY <2>3, <2>4, <2>5
    <2> QED BY <2>1, <2>7, <2>8, <2>9 DEF PaidInv, At, Key
<1> QED BY <1>1, <1>2, <1>3, <1>4, <1>5, <1>6

-----------------------------------------------------------------------------
(* What the parent has rendered.                                           *)

\* What the parent has rendered is in the snapshot from the start, or its copy is
\* complete before anything is rendered.
ParentInv ==
    request /\ ~cutCopy /\ restarts = 0 /\ Inherits =>
        /\ \A k \in layout.parent : billed[k] = 0
        /\ layout.place # "elsewhere" => layout.parent \subseteq cache
        /\ \A p \in Pids :
               worker[p].pc \in {"setup", "check", "call", "store", "report", "forward"} =>
                   layout.parent \subseteq cache
        /\ torn => \E p \in Pids : At(p, "copying")
        /\ (\A p \in Pids : worker[p].pc \notin {"copy", "copying"}) =>
               cache = {} \/ layout.parent \subseteq cache
        /\ \A p \in Pids : At(p, "call") => Key(p) \notin cache

LEMMA ParentInit == ASSUME Init PROVE ParentInv
<1>1. \A p \in Pids : worker[p].pc = "none"
    BY WorkerFacts DEF Init, PCs
<1>2. LayoutOK(layout)
    BY JobAssumption DEF Init
<1>3. \A k \in layout.parent : billed[k] = 0
    BY <1>2 DEF Init, LayoutOK
<1>4. cache = layout.cache /\ torn = FALSE
    BY DEF Init
<1> QED BY <1>1, <1>2, <1>3, <1>4 DEF ParentInv, At, Inherits, LayoutOK, Places

\* The same for the one worker that lives.
Copies(p) ==
    /\ \A k \in layout.parent : billed[k] = 0
    /\ layout.place # "elsewhere" => layout.parent \subseteq cache
    /\ worker[p].pc \in {"setup", "check", "call", "store", "report", "forward"} =>
           layout.parent \subseteq cache
    /\ torn => At(p, "copying")
    /\ worker[p].pc \notin {"copy", "copying"} => cache = {} \/ layout.parent \subseteq cache
    /\ At(p, "call") => Key(p) \notin cache

LEMMA ParentOfWork ==
    ASSUME TypeOK, PlaceInv, LedgerInv, SupInv, WatchInv, ParentInv, NEW p \in Pids,
           Works(p) \/ Call(p) \/ Fails(p) \/ Kill(p)
    PROVE  ParentInv'
<1>1. /\ request' = request /\ restarts' = restarts
      /\ layout' = layout /\ gone' = gone
      /\ \A q \in Pids : q # p => worker'[q] = worker[q]
      /\ Live(p)
    BY WorkFrame
<1>2. cutCopy => cutCopy'
    <2>1. CASE Kill(p)
        BY <2>1 DEF Kill
    <2>2. CASE ~Kill(p)
        BY <2>2 DEF Works, Boot, Open, CopyLook, CopyFile, CopyContents, Setup, Check, Store,
           Report,
            Forward, Rendered, Assemble, EndPaused, EndFailed, WriteFailed, EndDone, Finalize, Exit,
            Call, Fails, history
    <2> QED BY <2>1, <2>2
<1>3. SUFFICES ASSUME request, restarts = 0, ~cutCopy, ~cutCopy', Inherits PROVE ParentInv'
    BY <1>1, <1>2 DEF ParentInv, Inherits
<1>4. \A q \in Pids : q # p => worker[q].pc \in {"none", "dead"}
    BY <1>1, <1>3, OnlyOne DEF Live
<1>5. Copies(p)
    BY <1>3, <1>4 DEF ParentInv, Copies, At
<1>6. SUFFICES Copies(p)'
    BY <1>1, <1>4, <1>6 DEF ParentInv, Copies, At, Key
<1>7. CASE Boot(p)
    <2>1. At(p, "spawned") /\ worker'[p].pc \in {"open", "exit"}
        BY <1>7, Path DEF Stays, Turns
    <2>2. UNCHANGED <<cache, torn, billed>>
        BY <1>7 DEF Boot, disk, copies, history
    <2> QED BY <1>1, <1>5, <2>1, <2>2 DEF Copies, At
<1>8. CASE Open(p)
    <2>1. At(p, "open") /\ worker'[p].pc \in {"look"}
        BY <1>8, Path DEF Stays, Turns
    <2>2. UNCHANGED <<cache, torn, billed>>
        BY <1>8 DEF Open, disk, copies, history
    <2> QED BY <1>1, <1>5, <2>1, <2>2 DEF Copies, At
<1>9. CASE CopyLook(p)
    <2>1. \/ At(p, "look") /\ MayCopy /\ cache = {} /\ ~torn /\ worker'[p].pc = "copy"
          \/ /\ At(p, "look") /\ worker'[p].pc = "setup"
             /\ ~(MayCopy /\ cache = {} /\ ~torn)
        BY <1>9, Path DEF Stays, Turns
    <2>2. UNCHANGED <<cache, torn, billed>>
        BY <1>9 DEF CopyLook, disk, copies, history
    <2>3. ~MayCopy => layout.parent \subseteq cache
        BY <1>3, <1>5 DEF MayCopy, Inherits, Copies
    <2> QED BY <1>1, <1>5, <2>1, <2>2, <2>3 DEF Copies, At
<1>10. CASE CopyFile(p)
    <2>1. \/ /\ At(p, "copy") /\ layout.parent \subseteq cache
             /\ worker'[p].pc = "setup" /\ torn' = torn
          \/ At(p, "copy") /\ worker'[p].pc = "copying"
        BY <1>3, <1>10, Path DEF Stays, Turns, CopyFile, Inherits
    <2>2. cache' = cache /\ billed' = billed
        BY <1>10 DEF CopyFile, history
    <2> QED BY <1>1, <1>5, <2>1, <2>2 DEF Copies, At
<1>11. CASE CopyContents(p)
    <2>1. At(p, "copying") /\ worker'[p].pc = "copy" /\ cache \subseteq cache'
        BY <1>11, Path DEF Stays, Turns, CopyContents
    <2>2. torn' = FALSE /\ billed' = billed
        BY <1>11 DEF CopyContents, history
    <2> QED BY <1>1, <1>5, <2>1, <2>2 DEF Copies, At
<1>12. CASE Setup(p)
    <2>1. At(p, "setup") /\ worker'[p].pc \in {"failing", "check"}
        BY <1>12, Path DEF Stays, Turns
    <2>2. UNCHANGED <<cache, torn, billed>>
        BY <1>12 DEF Setup, disk, copies, history
    <2> QED BY <1>1, <1>5, <2>1, <2>2 DEF Copies, At
<1>13. CASE Check(p)
    <2>1. /\ At(p, "check")
          /\ \/ worker'[p].pc \in {"pausing", "report"}
             \/ worker'[p].pc = "call" /\ worker'[p].i = worker[p].i /\ Key(p) \notin cache
        BY <1>13, Path DEF Stays, Turns
    <2>2. UNCHANGED <<cache, torn, billed>>
        BY <1>13 DEF Check, disk, copies, history
    <2> QED BY <1>1, <1>5, <2>1, <2>2 DEF Copies, At, Key
<1>14. CASE Store(p)
    <2>1. At(p, "store") /\ worker'[p].pc = "report"
        BY <1>14, Path DEF Turns
    <2>2. UNCHANGED <<torn, billed>> /\ cache \subseteq cache'
        BY <1>14 DEF Store, copies, history
    <2> QED BY <1>1, <1>5, <2>1, <2>2 DEF Copies, At
<1>15. CASE Report(p)
    <2>1. At(p, "report") /\ worker'[p].pc \in {"forward"}
        BY <1>15, Path DEF Stays, Turns
    <2>2. UNCHANGED <<cache, torn, billed>>
        BY <1>15 DEF Report, disk, copies, history
    <2> QED BY <1>1, <1>5, <2>1, <2>2 DEF Copies, At
<1>16. CASE Forward(p)
    <2>1. At(p, "forward") /\ worker'[p].pc \in {"check", "failing"}
        BY <1>16, Path DEF Stays, Turns
    <2>2. UNCHANGED <<cache, torn, billed>>
        BY <1>16 DEF Forward, disk, copies, history
    <2> QED BY <1>1, <1>5, <2>1, <2>2 DEF Copies, At
<1>17. CASE Rendered(p)
    <2>1. At(p, "check") /\ worker'[p].pc \in {"assemble"}
        BY <1>17, Path DEF Stays, Turns
    <2>2. UNCHANGED <<cache, torn, billed>>
        BY <1>17 DEF Rendered, disk, copies, history
    <2> QED BY <1>1, <1>5, <2>1, <2>2 DEF Copies, At
<1>18. CASE Assemble(p)
    <2>1. At(p, "assemble") /\ worker'[p].pc \in {"finish", "failing"}
        BY <1>18, Path DEF Stays, Turns
    <2>2. UNCHANGED <<cache, torn, billed>>
        BY <1>18 DEF Assemble, disk, copies, history
    <2> QED BY <1>1, <1>5, <2>1, <2>2 DEF Copies, At
<1>19. CASE EndPaused(p)
    <2>1. At(p, "pausing") /\ worker'[p].pc \in {"exit"}
        BY <1>19, Path DEF Stays, Turns
    <2>2. UNCHANGED <<cache, torn, billed>>
        BY <1>19 DEF EndPaused, disk, copies, history
    <2> QED BY <1>1, <1>5, <2>1, <2>2 DEF Copies, At
<1>20. CASE EndFailed(p)
    <2>1. At(p, "failing") /\ worker'[p].pc \in {"failed", "exit"}
        BY <1>20, Path DEF Stays, Turns
    <2>2. UNCHANGED <<cache, torn, billed>>
        BY <1>20 DEF EndFailed, disk, copies, history
    <2> QED BY <1>1, <1>5, <2>1, <2>2 DEF Copies, At
<1>21. CASE WriteFailed(p)
    <2>1. At(p, "failed") /\ worker'[p].pc \in {"exit"}
        BY <1>21, Path DEF Stays, Turns
    <2>2. UNCHANGED <<cache, torn, billed>>
        BY <1>21 DEF WriteFailed, disk, copies, history
    <2> QED BY <1>1, <1>5, <2>1, <2>2 DEF Copies, At
<1>22. CASE EndDone(p)
    <2>1. At(p, "finish") /\ worker'[p].pc \in {"finalize", "exit"}
        BY <1>22, Path DEF Stays, Turns
    <2>2. UNCHANGED <<cache, torn, billed>>
        BY <1>22 DEF EndDone, disk, copies, history
    <2> QED BY <1>1, <1>5, <2>1, <2>2 DEF Copies, At
<1>23. CASE Finalize(p)
    <2>1. At(p, "finalize") /\ worker'[p].pc \in {"exit"}
        BY <1>23, Path DEF Stays, Turns
    <2>2. UNCHANGED <<cache, torn, billed>>
        BY <1>23 DEF Finalize, disk, copies, history
    <2> QED BY <1>1, <1>5, <2>1, <2>2 DEF Copies, At
<1>24. CASE Exit(p)
    <2>1. At(p, "exit") /\ worker'[p].pc \in {"dead"}
        BY <1>24, Path DEF Gone
    <2>2. UNCHANGED <<cache, torn, billed>>
        BY <1>24 DEF Exit, disk, copies, history
    <2> QED BY <1>1, <1>5, <2>1, <2>2 DEF Copies, At
<1>25. CASE Call(p)
    <2>1. At(p, "call") /\ worker'[p].pc \in {"failing", "store"}
        BY <1>25, Path DEF Stays, Turns
    <2>2. UNCHANGED <<cache, torn>> /\ billed' = [billed EXCEPT ![Key(p)] = @ + 1]
        BY <1>25 DEF Call, disk, copies
    <2>3. Key(p) \notin layout.parent
        BY <1>5, <2>1 DEF Copies, At
    <2>4. \A k \in layout.parent : billed'[k] = billed[k]
        BY <2>2, <2>3 DEF TypeOK
    <2> QED BY <1>1, <1>5, <2>1, <2>2, <2>4 DEF Copies, At
<1>26. CASE Fails(p)
    <2>1. worker[p].pc \in {"setup", "call", "assemble"} /\ worker'[p].pc = "failing"
        BY <1>3, <1>26, Path DEF Stays, Turns, Fails, Inherits
    <2>2. UNCHANGED <<cache, torn, billed>>
        BY <1>26 DEF Fails, disk, copies, history
    <2> QED BY <1>1, <1>5, <2>1, <2>2 DEF Copies, At
<1>27. CASE Kill(p)
    <2>1. worker[p].pc \notin {"copy", "copying"} /\ worker'[p].pc = "dead"
        BY <1>3, <1>27, Path DEF Gone, Kill
    <2>2. UNCHANGED <<cache, torn, billed>>
        BY <1>27 DEF Kill, disk, copies
    <2> QED BY <1>1, <1>5, <2>1, <2>2 DEF Copies, At
<1> QED BY <1>7, <1>8, <1>9, <1>10, <1>11, <1>12, <1>13, <1>14, <1>15, <1>16, <1>17, <1>18, <1>19,
           <1>20, <1>21, <1>22, <1>23, <1>24, <1>25, <1>26, <1>27 DEF Works

LEMMA ParentOfManager ==
    ASSUME TypeOK, LedgerInv, SupInv, WatchInv, ParentInv,
           \/ Reap \/ CancelLook \/ CancelTimeout \/ CancelProceed \/ CancelRead \/ CancelWrite
           \/ Start \/ Pause \/ CancelAsk \/ Delete \/ DeleteParent
           \/ RaiseCeiling \/ Restart
    PROVE  ParentInv'
<1>1. CASE \/ Reap \/ CancelLook \/ CancelProceed \/ CancelRead \/ CancelWrite \/ Pause
           \/ CancelAsk \/ RaiseCeiling
    <2>1. UNCHANGED <<request, cutCopy, restarts, layout, gone, billed, cache, torn, worker>>
        BY <1>1 DEF Reap, CancelLook, CancelProceed, CancelRead, CancelWrite, Pause, CancelAsk,
                    RaiseCeiling, disk, copies, manager, history
    <2> QED BY <2>1 DEF ParentInv, Inherits, At, Key
<1>2. CASE CancelTimeout
    <2>1. /\ UNCHANGED <<request, cutCopy, restarts, layout, gone, billed, cache, torn>>
          /\ sup.pid \in Pids /\ Terminate(sup.pid)
        BY <1>2 DEF CancelTimeout, Supervised, disk, copies, TypeOK
    <2>2. \/ Gone(sup.pid) /\ worker[sup.pid].pc \in {"spawned", "finish", "finalize", "exit"}
          \/ Stays(sup.pid, worker[sup.pid].pc)
        BY <2>1, TurnOfTerminate
    <2>3. \A q \in Pids : \/ worker'[q].pc = worker[q].pc /\ worker'[q].i = worker[q].i
                          \/ /\ worker[q].pc \in {"spawned", "finish", "finalize", "exit"}
                             /\ worker'[q].pc = "dead"
        BY <2>1, <2>2 DEF Gone, Stays, Turns
    <2>4. \A q \in Pids : \A pc \in {"setup", "check", "call", "store", "report", "forward", "copy",
                                     "copying"} : worker'[q].pc = pc <=> worker[q].pc = pc
        BY <2>3
    <2>5. \A q \in Pids : At(q, "call")' => At(q, "call") /\ Key(q)' = Key(q)
        BY <2>3 DEF At, Key
    <2> QED BY <2>1, <2>4, <2>5 DEF ParentInv, Inherits, At
<1>3. CASE Start
    <2>1. PICK p \in Pids : At(p, "none") /\ Stays(p, "spawned")
        BY <1>3, TurnOfStart
    <2>2. UNCHANGED <<request, cutCopy, restarts, layout, gone, billed, cache, torn>>
        BY <1>3 DEF Start, disk, copies, history
    <2>3. /\ \A q \in Pids : q # p => worker'[q] = worker[q]
          /\ worker[p].pc = "none" /\ worker'[p].pc = "spawned"
        BY <2>1 DEF Stays, Turns, At
    <2> QED BY <2>2, <2>3 DEF ParentInv, Inherits, At, Key
<1>4. CASE Delete
    BY <1>4 DEF Delete, ParentInv
<1>5. CASE Restart
    <2>1. restarts' # 0
        BY <1>5 DEF Restart, TypeOK
    <2> QED BY <2>1 DEF ParentInv, Inherits
<1>6. CASE DeleteParent
    BY <1>6 DEF DeleteParent, ParentInv, Inherits
<1> QED BY <1>1, <1>2, <1>3, <1>4, <1>5, <1>6

-----------------------------------------------------------------------------
(* What has been spent.                                                    *)

LEMMA SegmentSums ==
    ASSUME NEW s \in Seq(Segments)
    PROVE  /\ Sum(s) \in Int
           /\ s = <<>> => Sum(s) = 0
           /\ \A x \in Segments : Sum(Append(s, x)) = Sum(s) + x.cost
<1> DEFINE D == DOMAIN s
           f == [i \in D |-> s[i].cost]
<1>1. Len(s) \in Nat /\ D = 1..Len(s)
    OBVIOUS
<1>2. IsFiniteSet(D)
    BY <1>1, FS_Interval
<1>3. \A i \in D : s[i] \in Segments
    OBVIOUS
<1>4. f \in [D -> Int]
    BY <1>3 DEF Segments
<1>5. Sum(s) = SumFunction(f)
    BY DEF Sum
<1>6. Sum(s) \in Int
    <2> HIDE DEF D, f
    <2> QED BY <1>2, <1>4, <1>5, SumIsInt
<1>7. ASSUME s = <<>> PROVE Sum(s) = 0
    <2>1. D = {}
        BY <1>1, <1>7
    <2> HIDE DEF D, f
    <2> QED BY <1>2, <1>4, <1>5, <2>1, SumOfZeros
<1>8. ASSUME NEW x \in Segments PROVE Sum(Append(s, x)) = Sum(s) + x.cost
    <2> DEFINE n == Len(s) + 1
               h == [i \in DOMAIN Append(s, x) |-> Append(s, x)[i].cost]
    <2>1. /\ n \notin D /\ DOMAIN Append(s, x) = D \cup {n}
          /\ Append(s, x)[n] = x /\ \A i \in D : Append(s, x)[i] = s[i]
        BY <1>1
    <2>2. h \in [D \cup {n} -> Int] /\ h[n] = x.cost /\ \A i \in D : h[i] = f[i]
        BY <1>3, <2>1 DEF Segments
    <2>3. Sum(Append(s, x)) = SumFunction(h)
        BY DEF Sum
    <2> HIDE DEF D, f, n, h
    <2>4. SumFunction(h) = SumFunction(f) + h[n]
        <3> DEFINE E == D \cup {n}
        <3>1. /\ n \notin D /\ n \in E /\ E = D \cup {n} /\ h \in [E -> Int]
              /\ \A i \in D : h[i] = f[i]
            BY <2>1, <2>2
        <3> HIDE DEF E
        <3> QED BY <1>2, <1>4, <3>1, SumExtends
    <2> QED BY <1>5, <2>2, <2>3, <2>4
<1> QED BY <1>6, <1>7, <1>8

\* What one artifact costs the run.
Costs(k) == (billed[k] - lost[k]) * Price[k]

LEMMA KeptIsSum ==
    ASSUME TypeOK
    PROVE  /\ [k \in Keys |-> Costs(k)] \in [Keys -> Int]
           /\ Kept = SumFunction([k \in Keys |-> Costs(k)])
           /\ Kept \in Int
<1>1. ASSUME NEW k \in Keys PROVE Costs(k) \in Int
    <2>1. billed[k] - lost[k] \in Int /\ Price[k] \in Int
        BY ConstantFacts DEF TypeOK
    <2> QED BY <2>1 DEF Costs
<1> DEFINE f == [k \in Keys |-> Costs(k)]
<1>2. f \in [Keys -> Int]
    BY <1>1
<1>3. Kept = SumFunction(f)
    BY DEF Kept, Costs
<1> HIDE DEF f
<1>4. SumFunction(f) \in Int
    BY <1>2, KeysFinite, SumIsInt
<1>5. f = [k \in Keys |-> Costs(k)]
    BY DEF f
<1> QED BY <1>2, <1>3, <1>4, <1>5

\* A call whose answer is kept costs its price; one whose answer is lost, nothing
\* that the ledger must know of.
LEMMA KeptOfCall ==
    ASSUME TypeOK, TypeOK', NEW k \in Keys, billed' = [billed EXCEPT ![k] = @ + 1]
    PROVE  /\ lost' = lost => Kept' = Kept + Price[k]
           /\ lost' = [lost EXCEPT ![k] = @ + 1] => Kept' = Kept
<1> DEFINE f == [l \in Keys |-> Costs(l)]
           h == [l \in Keys |-> Costs(l)']
<1>1. /\ f \in [Keys -> Int] /\ Kept = SumFunction(f) /\ Kept \in Int
    BY KeptIsSum
<1>2. Kept' = SumFunction(h)
    BY DEF Kept, Costs
<1>3. ASSUME NEW l \in Keys PROVE Costs(l)' \in Int
    <2>1. billed'[l] \in Nat /\ lost'[l] \in Nat
        BY DEF TypeOK
    <2>2. billed'[l] - lost'[l] \in Int /\ Price[l] \in Int
        BY <2>1, ConstantFacts
    <2> QED BY <2>2 DEF Costs
<1>4. h \in [Keys -> Int]
    BY <1>3
<1>9. billed \in [Keys -> Nat] /\ lost \in [Keys -> Nat] /\ Price[k] \in Nat
    BY ConstantFacts DEF TypeOK
<1>5. /\ billed[k] \in Int /\ lost[k] \in Int /\ Price[k] \in Int
      /\ billed'[k] = billed[k] + 1 /\ \A l \in Keys \ {k} : billed'[l] = billed[l]
    BY <1>9
<1>6. ASSUME lost' = lost
      PROVE  (\A l \in Keys \ {k} : h[l] = f[l]) /\ h[k] - f[k] = Price[k]
    <2>1. \A l \in Keys \ {k} : h[l] = f[l]
        BY <1>5, <1>6 DEF Costs
    <2>2. f[k] = (billed[k] - lost[k]) * Price[k] /\ h[k] = (billed[k] + 1 - lost[k]) * Price[k]
        BY <1>5, <1>6 DEF Costs
    <2>3. \A b, l, c \in Int : (b + 1 - l) * c - (b - l) * c = c
        OBVIOUS
    <2> HIDE DEF f, h
    <2> QED BY <1>5, <2>1, <2>2, <2>3
<1>7. ASSUME lost' = [lost EXCEPT ![k] = @ + 1]
      PROVE  (\A l \in Keys \ {k} : h[l] = f[l]) /\ h[k] - f[k] = 0
    <2>1. lost'[k] = lost[k] + 1 /\ \A l \in Keys \ {k} : lost'[l] = lost[l]
        BY <1>7 DEF TypeOK
    <2>2. \A l \in Keys \ {k} : h[l] = f[l]
        BY <1>5, <2>1 DEF Costs
    <2>3. billed'[k] - lost'[k] = billed[k] - lost[k]
        BY <1>5, <2>1
    <2>4. f[k] = h[k] /\ f[k] \in Int
        BY <1>1, <2>3 DEF Costs
    <2> HIDE DEF f, h
    <2> QED BY <2>2, <2>4
<1>8. (\A l \in Keys \ {k} : h[l] = f[l]) => SumFunction(h) = SumFunction(f) + (h[k] - f[k])
    <2> HIDE DEF f, h
    <2> QED BY <1>1, <1>4, KeysFinite, SumChanges
<1> HIDE DEF f, h
<1> QED BY <1>1, <1>2, <1>6, <1>7, <1>8

\* What the worker at work has spent, over all segments, is what was paid for
\* answers that were not lost; and so is what the ledger says when none is at work.
Spends(p) ==
    /\ worker[p].pc \in Working \ {"failed", "finalize"} =>
           Sum(worker[p].mem.segments) + worker[p].cost
               + (IF At(p, "store") THEN Price[Key(p)] ELSE 0) = Kept
    /\ worker[p].pc \in {"failed", "finalize"} => Sum(worker[p].mem.segments) = Kept

MoneyInv ==
    request /\ ~cutShort /\ restarts = 0 =>
        /\ \A p \in Pids : Spends(p)
        /\ (\A p \in Pids : worker[p].pc \notin Working) => Sum(state.segments) = Kept

LEMMA MoneyInit == ASSUME Init PROVE MoneyInv
<1>1. \A p \in Pids : worker[p].pc = "none"
    BY WorkerFacts DEF Init, PCs
<1>2. Sum(state.segments) = 0
    BY NewStateFacts, SegmentSums DEF Init, Ledgers
<1>3. TypeOK
    BY TypeInit
<1> DEFINE f == [k \in Keys |-> Costs(k)]
<1>4. f \in [Keys -> Int] /\ Kept = SumFunction(f)
    BY <1>3, KeptIsSum
<1>5. \A k \in Keys : f[k] = 0
    <2>1. \A c \in Nat : (0 - 0) * c = 0
        OBVIOUS
    <2> QED BY <2>1, ConstantFacts DEF Init, Costs
<1>6. Kept = 0
    <2> HIDE DEF f
    <2> QED BY <1>4, <1>5, KeysFinite, SumOfZeros
<1> QED BY <1>1, <1>2, <1>6 DEF MoneyInv, Spends, Working

LEMMA MoneyOfWork ==
    ASSUME TypeOK, TypeOK', PlaceInv, LedgerInv, SupInv, WatchInv, MoneyInv, NEW p \in Pids,
           Works(p) \/ Call(p) \/ Fails(p) \/ Kill(p)
    PROVE  MoneyInv'
<1>1. /\ request' = request /\ restarts' = restarts
      /\ \A q \in Pids : q # p => worker'[q] = worker[q]
      /\ Live(p)
    BY WorkFrame
<1>2. /\ Kill(p) => cutShort'
      /\ ~Kill(p) => cutShort' = cutShort
    BY DEF Works, Boot, Open, CopyLook, CopyFile, CopyContents, Setup, Check, Store, Report,
           Forward, Rendered, Assemble, EndPaused, EndFailed, WriteFailed, EndDone, Finalize, Exit,
           Call, Fails, Kill, history
<1>3. SUFFICES ASSUME request, restarts = 0, ~cutShort, ~Kill(p) PROVE MoneyInv'
    BY <1>1, <1>2 DEF MoneyInv
<1>4. /\ worker[p].piped
      /\ \A q \in Pids : q # p => worker[q].pc \in {"none", "dead"}
    BY <1>1, <1>3, OnlyOne DEF Live
<1>5. /\ Spends(p)
      /\ worker[p].pc \notin Working => Sum(state.segments) = Kept
    BY <1>3, <1>4 DEF MoneyInv, Working
<1>6. SUFFICES ASSUME TRUE
               PROVE  Spends(p)' /\ (worker'[p].pc \notin Working => Sum(state'.segments) = Kept')
    <2>1. \A q \in Pids : q # p => Spends(q)'
        BY <1>1, <1>4 DEF Spends, Working
    <2> QED BY <1>6, <2>1 DEF MoneyInv
<1>7. billed' = billed /\ lost' = lost => Kept' = Kept
    BY DEF Kept
<1>8. /\ worker[p] \in Workers /\ Mem(p) = worker[p].mem /\ Mem(p) \in Ledgers
      /\ worker[p].cost \in Nat /\ worker[p].mem.segments \in Seq(Segments)
    BY DEF TypeOK, Workers, Mem, Ledgers
<1>9. Kept \in Int /\ Sum(worker[p].mem.segments) \in Int
    BY <1>8, KeptIsSum, SegmentSums
<1>10. ASSUME worker[p].pc \in Working \ {"store", "failed", "finalize"},
              worker'[p].pc \in Working \ {"store", "failed", "finalize"},
              worker'[p].mem.segments = worker[p].mem.segments, worker'[p].cost = worker[p].cost,
              billed' = billed, lost' = lost
       PROVE  Spends(p)' /\ (worker'[p].pc \notin Working => Sum(state'.segments) = Kept')
    BY <1>5, <1>7, <1>10 DEF Spends, At
\* The segment is closed.
<1>11. ASSUME NEW reason \in {"paused", "failed", "done"},
              At(p, "pausing") \/ At(p, "failing") \/ At(p, "finish")
       PROVE  EndSegment(p, reason) \in Ledgers /\ Sum(EndSegment(p, reason).segments) = Kept
    <2> DEFINE segment == [cost |-> worker[p].cost, reason |-> reason]
    <2>1. segment \in Segments /\ segment.cost = worker[p].cost
        BY <1>8 DEF Segments
    <2>2. /\ EndSegment(p, reason) \in Ledgers
          /\ EndSegment(p, reason).segments = Append(worker[p].mem.segments, segment)
        BY <1>8, SegmentFacts
    <2> HIDE DEF segment
    <2>3. Sum(EndSegment(p, reason).segments) = Sum(worker[p].mem.segments) + worker[p].cost
        BY <1>8, <2>1, <2>2, SegmentSums
    <2>4. Sum(worker[p].mem.segments) + worker[p].cost + 0 = Kept
        BY <1>5, <1>11 DEF Spends, At, Working
    <2> QED BY <1>8, <1>9, <2>2, <2>3, <2>4
<1>12. CASE Boot(p)
    <2>1. /\ worker[p].pc = "spawned" /\ worker'[p].pc \in {"open", "exit"}
        BY <1>12, Path DEF At, Stays, Turns
    <2>2. UNCHANGED <<state, billed, lost>>
        BY <1>12 DEF Boot, history
    <2> QED BY <1>5, <1>7, <2>1, <2>2 DEF Spends, Working
<1>13. CASE Open(p)
    <2>1. /\ worker[p].pc = "open" /\ worker'[p].pc = "look"
          /\ worker'[p].mem = Entry(p, Found) /\ worker'[p].cost = worker[p].cost
        BY <1>13, Path DEF At, Turns
    <2>2. billed' = billed /\ lost' = lost
        BY <1>13 DEF Open, history
    <2>3. Found = state /\ state \in Ledgers
        BY <1>3 DEF LedgerInv, Found, TypeOK
    <2>4. worker'[p].mem.segments = state.segments
        BY <2>1, <2>3, EntryFacts
    <2>5. worker[p].cost = 0
        BY <2>1 DEF PlaceInv, Entering
    <2>6. Sum(state.segments) = Kept
        BY <1>5, <2>1 DEF Working
    <2>7. Sum(worker'[p].mem.segments) + worker'[p].cost + 0 = Kept'
        BY <1>7, <1>9, <2>1, <2>2, <2>4, <2>5, <2>6
    <2> QED BY <2>1, <2>7 DEF Spends, At, Working
<1>14. CASE CopyLook(p)
    <2>1. /\ worker[p].pc = "look" /\ worker'[p].pc \in {"copy", "setup"}
          /\ worker'[p].mem.segments = worker[p].mem.segments /\ worker'[p].cost = worker[p].cost
        BY <1>14, Path DEF At, Stays, Turns
    <2>2. billed' = billed /\ lost' = lost
        BY <1>14 DEF CopyLook, history
    <2> QED BY <1>10, <2>1, <2>2 DEF Working
<1>15. CASE CopyFile(p)
    <2>1. /\ worker[p].pc = "copy" /\ worker'[p].pc \in {"copying", "setup"}
          /\ worker'[p].mem.segments = worker[p].mem.segments /\ worker'[p].cost = worker[p].cost
        BY <1>15, Path DEF At, Stays, Turns
    <2>2. billed' = billed /\ lost' = lost
        BY <1>15 DEF CopyFile, history
    <2> QED BY <1>10, <2>1, <2>2 DEF Working
<1>16. CASE CopyContents(p)
    <2>1. /\ worker[p].pc = "copying" /\ worker'[p].pc \in {"copy"}
          /\ worker'[p].mem.segments = worker[p].mem.segments /\ worker'[p].cost = worker[p].cost
        BY <1>16, Path DEF At, Stays, Turns
    <2>2. billed' = billed /\ lost' = lost
        BY <1>16 DEF CopyContents, history
    <2> QED BY <1>10, <2>1, <2>2 DEF Working
<1>17. CASE Setup(p)
    <2>1. /\ worker[p].pc = "setup" /\ worker'[p].pc \in {"failing", "check"}
          /\ worker'[p].mem.segments = worker[p].mem.segments /\ worker'[p].cost = worker[p].cost
        BY <1>17, Path DEF At, Stays, Turns
    <2>2. billed' = billed /\ lost' = lost
        BY <1>17 DEF Setup, history
    <2> QED BY <1>10, <2>1, <2>2 DEF Working
<1>18. CASE Check(p)
    <2>1. /\ worker[p].pc = "check" /\ worker'[p].pc \in {"pausing", "report", "call"}
          /\ worker'[p].mem.segments = worker[p].mem.segments /\ worker'[p].cost = worker[p].cost
        BY <1>18, Path DEF At, Stays, Turns
    <2>2. billed' = billed /\ lost' = lost
        BY <1>18 DEF Check, history
    <2> QED BY <1>10, <2>1, <2>2 DEF Working
<1>19. CASE Store(p)
    <2>1. /\ worker[p].pc = "store" /\ worker'[p].pc = "report"
          /\ worker'[p].mem = worker[p].mem /\ worker'[p].cost = worker[p].cost + Price[Key(p)]
        BY <1>19, Path DEF At, Turns
    <2>2. billed' = billed /\ lost' = lost
        BY <1>19 DEF Store, history
    <2>3. Price[Key(p)] \in Nat
        BY <2>1, KeyFacts
    <2>4. Sum(worker[p].mem.segments) + worker[p].cost + Price[Key(p)] = Kept
        BY <1>5, <2>1 DEF Spends, At, Working
    <2>5. Sum(worker'[p].mem.segments) + worker'[p].cost + 0 = Kept'
        BY <1>7, <1>8, <1>9, <2>1, <2>2, <2>3, <2>4
    <2> QED BY <2>1, <2>5 DEF Spends, At, Working
<1>20. CASE Report(p)
    <2>1. /\ worker[p].pc = "report" /\ worker'[p].pc = "forward"
          /\ worker'[p].mem = [Mem(p) EXCEPT !.done = worker[p].i]
          /\ worker'[p].cost = worker[p].cost
        BY <1>20, Path DEF At, Turns
    <2>2. billed' = billed /\ lost' = lost
        BY <1>20 DEF Report, history
    <2>3. worker[p].i \in 0..Len(Artifacts)
        BY <1>20, TurnOfReport
    <2>4. worker'[p].mem.segments = worker[p].mem.segments
        BY <1>8, <2>1, <2>3, CountFacts
    <2> QED BY <1>10, <2>1, <2>2, <2>4 DEF Working
<1>21. CASE Forward(p)
    <2>1. /\ worker[p].pc = "forward" /\ worker'[p].pc \in {"check", "failing"}
          /\ worker'[p].mem.segments = worker[p].mem.segments /\ worker'[p].cost = worker[p].cost
        BY <1>21, Path DEF At, Stays, Turns
    <2>2. billed' = billed /\ lost' = lost
        BY <1>21 DEF Forward, history
    <2> QED BY <1>10, <2>1, <2>2 DEF Working
<1>22. CASE Rendered(p)
    <2>1. /\ worker[p].pc = "check" /\ worker'[p].pc \in {"assemble"}
          /\ worker'[p].mem.segments = worker[p].mem.segments /\ worker'[p].cost = worker[p].cost
        BY <1>22, Path DEF At, Stays, Turns
    <2>2. billed' = billed /\ lost' = lost
        BY <1>22 DEF Rendered, history
    <2> QED BY <1>10, <2>1, <2>2 DEF Working
<1>23. CASE Assemble(p)
    <2>1. /\ worker[p].pc = "assemble" /\ worker'[p].pc \in {"finish", "failing"}
          /\ worker'[p].mem.segments = worker[p].mem.segments /\ worker'[p].cost = worker[p].cost
        BY <1>23, Path DEF At, Stays, Turns
    <2>2. billed' = billed /\ lost' = lost
        BY <1>23 DEF Assemble, history
    <2> QED BY <1>10, <2>1, <2>2 DEF Working
<1>24. CASE EndPaused(p)
    <2> DEFINE s == EndSegment(p, "paused")
    <2>1. At(p, "pausing") /\ worker'[p].pc = "exit"
        BY <1>24, Path DEF Stays, Turns
    <2>2. UNCHANGED <<billed, lost>> /\ state' = [s EXCEPT !.status = "paused"]
        BY <1>24 DEF EndPaused, history
    <2>3. s \in Ledgers /\ Sum(s.segments) = Kept
        BY <1>11, <2>1
    <2> HIDE DEF s
    <2>4. state'.segments = s.segments
        BY <2>2, <2>3, LedgerFacts DEF Statuses
    <2> QED BY <1>7, <2>1, <2>2, <2>3, <2>4 DEF Spends, Working
<1>25. CASE EndFailed(p)
    <2> DEFINE s == EndSegment(p, "failed")
    <2>1. /\ At(p, "failing") /\ worker'[p].pc = "failed"
          /\ worker'[p].mem = [s EXCEPT !.status = "failed"]
        BY <1>4, <1>25, Path DEF Turns
    <2>2. UNCHANGED <<billed, lost>>
        BY <1>25 DEF EndFailed, history
    <2>3. s \in Ledgers /\ Sum(s.segments) = Kept
        BY <1>11, <2>1
    <2> HIDE DEF s
    <2>4. worker'[p].mem.segments = s.segments
        BY <2>1, <2>3, LedgerFacts DEF Statuses
    <2> QED BY <1>7, <2>1, <2>2, <2>3, <2>4 DEF Spends, Working
<1>26. CASE WriteFailed(p)
    <2>1. At(p, "failed") /\ worker'[p].pc = "exit"
        BY <1>26, Path DEF Stays, Turns
    <2>2. UNCHANGED <<billed, lost>> /\ state' = worker[p].mem
        BY <1>26 DEF WriteFailed, history, Mem
    <2>3. Sum(worker[p].mem.segments) = Kept
        BY <1>5, <2>1 DEF Spends, At
    <2> QED BY <1>7, <2>1, <2>2, <2>3 DEF Spends, Working
<1>27. CASE EndDone(p)
    <2> DEFINE s == EndSegment(p, "done")
    <2>1. /\ At(p, "finish") /\ worker'[p].pc = "finalize"
          /\ worker'[p].mem = [s EXCEPT !.done = Len(Artifacts)]
        BY <1>4, <1>27, Path DEF Turns
    <2>2. UNCHANGED <<billed, lost>>
        BY <1>27 DEF EndDone, history
    <2>3. s \in Ledgers /\ Sum(s.segments) = Kept /\ Len(Artifacts) \in 0..Len(Artifacts)
        BY <1>11, <2>1, ConstantFacts
    <2> HIDE DEF s
    <2>4. worker'[p].mem.segments = s.segments
        BY <2>1, <2>3, CountFacts
    <2> QED BY <1>7, <2>1, <2>2, <2>3, <2>4 DEF Spends, Working
<1>28. CASE Finalize(p)
    <2>1. At(p, "finalize") /\ worker'[p].pc = "exit"
        BY <1>28, Path DEF Stays, Turns
    <2>2. UNCHANGED <<billed, lost>> /\ state' = [Mem(p) EXCEPT !.status = "done"]
        BY <1>28 DEF Finalize, history
    <2>3. state'.segments = worker[p].mem.segments
        BY <1>8, <2>2, LedgerFacts DEF Statuses
    <2>4. Sum(worker[p].mem.segments) = Kept
        BY <1>5, <2>1 DEF Spends, At
    <2> QED BY <1>7, <2>1, <2>2, <2>3, <2>4 DEF Spends, Working
<1>29. CASE Exit(p)
    <2>1. worker[p].pc = "exit" /\ worker'[p].pc = "dead"
        BY <1>29, Path DEF At, Gone
    <2>2. UNCHANGED <<state, billed, lost>>
        BY <1>29 DEF Exit, disk, history
    <2> QED BY <1>5, <1>7, <2>1, <2>2 DEF Spends, Working
<1>30. CASE Call(p)
    <2> DEFINE k == Key(p)
    <2>1. At(p, "call") /\ billed' = [billed EXCEPT ![k] = @ + 1]
        BY <1>30 DEF Call
    <2>2. k \in Keys /\ Price[k] \in Nat
        BY <2>1, KeyFacts DEF At
    <2>3. \/ Stays(p, "failing") /\ lost' = [lost EXCEPT ![k] = @ + 1]
          \/ Stays(p, "store") /\ lost' = lost
        BY <1>30, TurnOfCall
    <2>4. Sum(worker[p].mem.segments) + worker[p].cost + 0 = Kept
        BY <1>5, <2>1 DEF Spends, At, Working
    <2>5. /\ lost' = lost => Kept' = Kept + Price[k]
          /\ lost' = [lost EXCEPT ![k] = @ + 1] => Kept' = Kept
        <3> HIDE DEF k
        <3> QED BY <2>1, <2>2, KeptOfCall
    <2>6. CASE Stays(p, "failing") /\ lost' = [lost EXCEPT ![k] = @ + 1]
        <3>1. /\ worker'[p].pc = "failing" /\ worker'[p].mem = worker[p].mem
              /\ worker'[p].cost = worker[p].cost
            BY <2>6 DEF Stays, Turns
        <3>2. Sum(worker'[p].mem.segments) + worker'[p].cost + 0 = Kept'
            BY <2>4, <2>5, <2>6, <3>1
        <3> QED BY <3>1, <3>2 DEF Spends, At, Working
    <2>7. CASE Stays(p, "store") /\ lost' = lost
        <3>1. /\ worker'[p].pc = "store" /\ worker'[p].mem = worker[p].mem
              /\ worker'[p].cost = worker[p].cost /\ Key(p)' = k
            BY <2>7 DEF Stays, Turns, Key
        <3>2. Sum(worker'[p].mem.segments) + worker'[p].cost + Price[Key(p)'] = Kept'
            <4> HIDE DEF k
            <4> QED BY <1>8, <1>9, <2>2, <2>4, <2>5, <2>7, <3>1
        <3> QED BY <3>1, <3>2 DEF Spends, At, Working
    <2> QED BY <2>3, <2>6, <2>7
<1>31. CASE Fails(p)
    <2>1. /\ worker[p].pc \in {"setup", "call", "assemble", "copy"} /\ worker'[p].pc \in {"failing"}
          /\ worker'[p].mem.segments = worker[p].mem.segments /\ worker'[p].cost = worker[p].cost
        BY <1>31, Path DEF At, Stays, Turns
    <2>2. billed' = billed /\ lost' = lost
        BY <1>31 DEF Fails, history
    <2> QED BY <1>10, <2>1, <2>2 DEF Working
<1> QED BY <1>3, <1>12, <1>13, <1>14, <1>15, <1>16, <1>17, <1>18, <1>19, <1>20, <1>21, <1>22,
           <1>23, <1>24, <1>25, <1>26, <1>27, <1>28, <1>29, <1>30, <1>31 DEF Works

LEMMA MoneyOfManager ==
    ASSUME TypeOK, LedgerInv, WatchInv, MoneyInv,
           \/ Reap \/ CancelLook \/ CancelTimeout \/ CancelProceed \/ CancelRead \/ CancelWrite
           \/ Start \/ Pause \/ CancelAsk \/ Delete \/ DeleteParent
           \/ RaiseCeiling \/ Restart
    PROVE  MoneyInv'
<1>1. billed' = billed /\ lost' = lost
    BY DEF Reap, CancelLook, CancelTimeout, CancelProceed, CancelRead, CancelWrite, Start, Pause,
           CancelAsk, Delete, DeleteParent, RaiseCeiling, Restart, history
<1>2. Kept' = Kept
    BY <1>1 DEF Kept
<1>3. CASE \/ Reap \/ CancelLook \/ CancelProceed \/ CancelRead \/ Pause \/ CancelAsk
           \/ RaiseCeiling \/ DeleteParent
    <2>1. UNCHANGED <<request, cutShort, restarts, worker, state>>
        BY <1>3 DEF Reap, CancelLook, CancelProceed, CancelRead, Pause, CancelAsk,
                    RaiseCeiling, DeleteParent, disk, manager, history
    <2> QED BY <1>2, <2>1 DEF MoneyInv, Spends, At, Key
<1>4. CASE CancelTimeout
    <2>1. /\ UNCHANGED <<request, restarts, state>>
          /\ sup.pid \in Pids /\ Terminate(sup.pid)
        BY <1>4 DEF CancelTimeout, Supervised, disk, TypeOK
    <2>2. CASE cutShort' = TRUE
        BY <2>2 DEF MoneyInv
    <2>3. CASE Stays(sup.pid, worker[sup.pid].pc) /\ cutShort' = cutShort
        <3>1. \A q \in Pids : /\ worker'[q].pc = worker[q].pc /\ worker'[q].i = worker[q].i
                              /\ worker'[q].mem = worker[q].mem /\ worker'[q].cost = worker[q].cost
            BY <2>1, <2>3 DEF Stays, Turns
        <3>2. \A q \in Pids : Spends(q)' <=> Spends(q)
            BY <1>2, <3>1 DEF Spends, At, Key
        <3> QED BY <1>2, <2>1, <2>3, <3>1, <3>2 DEF MoneyInv
    <2> QED BY <2>1, <2>2, <2>3, TurnOfTerminate
<1>5. CASE CancelWrite
    <2>1. /\ UNCHANGED <<request, cutShort, restarts, worker>> /\ cancel.pc = "write"
          /\ request => state' = [cancel.state EXCEPT !.status = "cancelled"]
        BY <1>5 DEF CancelWrite, history
    <2>2. SUFFICES ASSUME request, restarts = 0 PROVE MoneyInv'
        BY <2>1 DEF MoneyInv
    <2>3. cancel.state = state /\ state \in Ledgers
        BY <2>1, <2>2 DEF WatchInv, LedgerInv, TypeOK
    <2>4. state' = [state EXCEPT !.status = "cancelled"]
        BY <2>1, <2>2, <2>3
    <2>5. "cancelled" \in Statuses
        BY DEF Statuses
    <2>6. state'.segments = state.segments
        BY <2>3, <2>4, <2>5, LedgerFacts
    <2> QED BY <1>2, <2>1, <2>2, <2>6 DEF MoneyInv, Spends, At, Key
<1>6. CASE Start
    <2>1. PICK p \in Pids : At(p, "none") /\ Stays(p, "spawned")
        BY <1>6, TurnOfStart
    <2>2. UNCHANGED <<request, cutShort, restarts, state>>
        BY <1>6 DEF Start, disk, history
    <2>3. /\ \A q \in Pids : q # p => worker'[q] = worker[q]
          /\ worker[p].pc = "none" /\ worker'[p].pc = "spawned"
        BY <2>1 DEF Stays, Turns, At
    <2>4. \A q \in Pids : Spends(q) => Spends(q)'
        BY <1>2, <2>3 DEF Spends, At, Key, Working
    <2>5. \A q \in Pids : worker'[q].pc \in Working <=> worker[q].pc \in Working
        BY <2>3 DEF Working
    <2> QED BY <1>2, <2>2, <2>4, <2>5 DEF MoneyInv
<1>7. CASE Delete
    BY <1>7 DEF Delete, MoneyInv
<1>8. CASE Restart
    <2>1. restarts' # 0
        BY <1>8 DEF Restart, TypeOK
    <2> QED BY <2>1 DEF MoneyInv
<1> QED BY <1>3, <1>4, <1>5, <1>6, <1>7, <1>8

LEMMA SnapInit == ASSUME Init PROVE SnapInv
<1>1. \A p \in Pids : worker[p].pc = "none" /\ worker[p].i = 1 /\ worker[p].mem = NewState
    BY WorkerFacts DEF Init, PCs
<1>2. state = NewState /\ cancel.state = None
    BY DEF Init
<1>3. \A c : Prefix(0, c)
    BY DEF Prefix
<1> QED BY <1>1, <1>2, <1>3, NewStateFacts DEF SnapInv

-----------------------------------------------------------------------------
(* The invariant and what follows from it.                                 *)

JobInv ==
    /\ TypeOK /\ PlaceInv /\ LedgerInv /\ SupInv /\ SnapInv /\ FreshInv /\ WatchInv
    /\ AloneInv /\ PaidInv /\ ParentInv /\ MoneyInv

\* The invariant is preserved by every step: each part by the worker that moves, by the manager,
\* and when nothing moves.
LEMMA InvariantKept == ASSUME JobInv, [Next]_vars PROVE JobInv'
<1>1. /\ TypeOK /\ PlaceInv /\ LedgerInv /\ SupInv /\ SnapInv /\ FreshInv /\ WatchInv
      /\ AloneInv /\ PaidInv /\ ParentInv /\ MoneyInv
    BY DEF JobInv
<1>2. ASSUME NEW p \in Pids, Works(p) \/ Call(p) \/ Fails(p) \/ Kill(p) PROVE JobInv'
    <2>1. TypeOK' /\ PlaceInv'
        BY <1>1, <1>2, TypeOfWork, PlaceOfWork
    <2>2. LedgerInv' /\ SupInv'
        BY <1>1, <1>2, LedgerOfWork
    <2>3. SnapInv'
        BY <1>1, <1>2, SnapOfWork
    <2>4. WatchInv' /\ FreshInv'
        BY <1>1, <1>2, WatchOfWork
    <2>5. AloneInv'
        BY <1>1, <1>2, AloneOfWork
    <2>6. OneRenderer
        BY <1>1, OneRenders
    <2>7. PaidInv'
        BY <1>1, <1>2, <2>6, PaidOfWork
    <2>8. ParentInv'
        BY <1>1, <1>2, ParentOfWork
    <2>9. MoneyInv'
        BY <1>1, <1>2, <2>1, MoneyOfWork
    <2> QED BY <2>1, <2>2, <2>3, <2>4, <2>5, <2>7, <2>8, <2>9 DEF JobInv
<1>3. ASSUME \/ Reap \/ CancelLook \/ CancelTimeout \/ CancelProceed \/ CancelRead \/ CancelWrite
             \/ Start \/ Pause \/ CancelAsk \/ Delete \/ DeleteParent
           \/ RaiseCeiling \/ Restart
      PROVE  JobInv'
    <2>1. TypeOK'
        BY <1>1, <1>3, TypeOfManager DEF LedgerInv
    <2>2. PlaceInv'
        BY <1>1, <1>3, PlaceOfManager
    <2>3. LedgerInv' /\ SupInv'
        BY <1>1, <1>3, LedgerOfManager
    <2>4. SnapInv'
        BY <1>1, <1>3, SnapOfManager
    <2>5. WatchInv' /\ FreshInv'
        BY <1>1, <1>3, WatchOfManager
    <2>6. AloneInv'
        BY <1>1, <1>3, AloneOfManager
    <2>7. PaidInv'
        BY <1>1, <1>3, PaidOfManager
    <2>8. ParentInv'
        BY <1>1, <1>3, ParentOfManager
    <2>9. MoneyInv'
        BY <1>1, <1>3, MoneyOfManager
    <2> QED BY <2>1, <2>2, <2>3, <2>4, <2>5, <2>6, <2>7, <2>8, <2>9 DEF JobInv
<1>4. CASE UNCHANGED vars
    <2>1. /\ UNCHANGED <<request, state, pauseFile, ceiling, cache, torn, layout, gone, worker, sup,
                        cancel>>
          /\ UNCHANGED <<billed, lost, cutShort, cutCopy, kills, restarts>>
        BY <1>4 DEF vars
    <2>2. TypeOK' /\ PlaceInv'
        BY <1>1, <2>1 DEF TypeOK, PlaceInv
    <2>3. LedgerInv' /\ SupInv' /\ FreshInv'
        BY <1>1, <2>1 DEF LedgerInv, SupInv, FreshInv, Supervised, Live, At
    <2>4. SnapInv'
        BY <1>1, <2>1 DEF SnapInv, Key, SnapshotKept, ParentLost
    <2>5. WatchInv' /\ AloneInv'
        BY <1>1, <2>1 DEF WatchInv, AloneInv, Shows, Live, Rendering
    <2>6. PaidInv' /\ ParentInv'
        BY <1>1, <2>1 DEF PaidInv, ParentInv, At, Key, Again, ParentLost, Inherits
    <2>7. MoneyInv'
        BY <1>1, <2>1 DEF MoneyInv, Spends, Kept, At, Key
    <2> QED BY <2>2, <2>3, <2>4, <2>5, <2>6, <2>7 DEF JobInv
<1> QED BY <1>2, <1>3, <1>4, Cases DEF Works

\* Whatever the workers, the manager and its user do, whoever is killed and however
\* often the sidecar exits.
THEOREM JobInvariants == Spec => []JobInv
<1>1. Init => JobInv
    BY TypeInit, LedgerInit, SnapInit, WatchInit, AloneInit, PaidInit, ParentInit, MoneyInit
       DEF JobInv
<1>2. JobInv /\ [Next]_vars => JobInv'
    BY InvariantKept
<1> QED BY <1>1, <1>2, PTL DEF Spec

\* TypeOK: state.json, the caches and what the workers hold of them are what the code
\* reads and writes, and the ids and counts in them are of this run.
THEOREM JobTypes == Spec => []TypeOK
<1>1. JobInv => TypeOK
    BY DEF JobInv
<1> QED BY <1>1, JobInvariants, PTL

\* SpendsOnce: where a job keeps its answers somewhere, no artifact is paid for twice
\* unless an answer was lost, to a kill, to the ceiling or once with the directory of a
\* deleted parent; what the parent has rendered is not paid for as long as the child has it
\* at hand; and one worker renders at a time.
THEOREM JobSpendsOnce == Spec => []SpendsOnce
<1>1. ASSUME JobInv PROVE SpendsOnce
    <2>1. PaysOnlyForLostCalls
        <3>1. ASSUME request, restarts <= 1, layout.place # "none", NEW k \in Keys
              PROVE  billed[k] <= 1 + lost[k] + (IF ParentLost THEN 1 ELSE 0)
            <4>1. billed[k] <= lost[k] + 1 + Again /\ lost[k] \in Nat
                BY <1>1, <3>1 DEF JobInv, PaidInv, TypeOK
            <4> QED BY <4>1 DEF Again
        <3> QED BY <3>1 DEF PaysOnlyForLostCalls
    <2>2. ParentReused
        BY <1>1 DEF JobInv, ParentInv, ParentReused
    <2>3. OneRenderer
        BY <1>1, OneRenders DEF JobInv
    <2> QED BY <2>1, <2>2, <2>3 DEF SpendsOnce
<1> QED BY <1>1, JobInvariants, PTL

\* LedgerSound: state.json claims no more artifacts than the snapshot holds, at any moment,
\* and its segments add up to what was spent.
THEOREM JobLedgerSound == Spec => []LedgerSound
<1>1. ASSUME JobInv PROVE LedgerSound
    <2>1. LedgerWithinSnapshot
        <3>1. ASSUME request, SnapshotKept PROVE state.done <= Cardinality(cache)
            <4>1. state.done \in 0..Len(Artifacts) /\ cache \subseteq Keys
                BY <1>1, <3>1 DEF JobInv, TypeOK, LedgerInv, Ledgers
            <4>2. Prefix(state.done, cache)
                BY <1>1, <3>1 DEF JobInv, SnapInv
            <4> QED BY <4>1, <4>2, PrefixCount
        <3> QED BY <3>1 DEF LedgerWithinSnapshot
    <2>2. LedgerAddsUp
        <3>1. (\A p \in Pids : ~Live(p)) => \A p \in Pids : worker[p].pc \notin Working
            BY DEF Live, Working
        <3> QED BY <1>1, <3>1 DEF JobInv, MoneyInv, LedgerAddsUp
    <2> QED BY <2>1, <2>2 DEF LedgerSound
<1> QED BY <1>1, JobInvariants, PTL

-----------------------------------------------------------------------------
(* The promise.                                                            *)

Stutters == View' = View /\ cache' = cache

\* What the list shows once the step is taken.
LEMMA NextView ==
    /\ state' = None => View' = "deleted"
    /\ state' # None /\ state'.status # "running" => View' = state'.status
    /\ state' # None /\ state'.status = "running" /\ worker'[state'.pid].pc \notin {"none", "dead"} =>
           View' = "running"
    /\ state' # None /\ state'.status = "running" /\ worker'[state'.pid].pc \in {"none", "dead"} =>
           View' = "interrupted"
<1>1. state' = None => View' = "deleted"
    BY DEF View
<1>2. state' # None /\ state'.status # "running" => View' = state'.status
    BY DEF View
<1>3. state' # None /\ state'.status = "running" /\ worker'[state'.pid].pc \notin {"none", "dead"} =>
           View' = "running"
    BY DEF View, Live
<1>4. state' # None /\ state'.status = "running" /\ worker'[state'.pid].pc \in {"none", "dead"} =>
           View' = "interrupted"
    BY DEF View, Live
<1> QED BY <1>1, <1>2, <1>3, <1>4

LEMMA NextViewRange ==
    ASSUME TypeOK'
    PROVE  View' \in Ledger!Resumable \cup {"running", "done", "cancelled", "deleted"}
<1>1. CASE state' = None
    BY <1>1, NextView
<1>2. CASE state' # None
    <2>1. state'.status \in Statuses
        BY <1>2 DEF TypeOK, Ledgers
    <2>2. View' \in {state'.status, "running", "interrupted"}
        BY <1>2, NextView
    <2> QED BY <2>1, <2>2 DEF Statuses, Ledger!Resumable
<1> QED BY <1>1, <1>2

\* A step that does not concern who the ledger says is at work does not show.
LEMMA SameView ==
    ASSUME TypeOK, LedgerInv, state' = state,
           \A p \in Pids : state # None /\ state.status = "running" /\ state.pid = p =>
                               (worker'[p].pc \in {"none", "dead"} <=> worker[p].pc \in {"none", "dead"})
    PROVE  View' = View
<1>1. CASE state = None
    BY <1>1, NextView, ViewFacts
<1>2. CASE state # None /\ state.status # "running"
    BY <1>2, NextView, ViewFacts
<1>3. CASE state # None /\ state.status = "running"
    <2>1. state.pid \in Pids
        BY <1>3 DEF TypeOK, LedgerInv, Entered, Ledgers
    <2> QED BY <1>3, <2>1, NextView, ViewFacts DEF Live
<1> QED BY <1>1, <1>2, <1>3

\* While the sidecar watches, the list shows where the one worker is.
LEMMA WatchedView ==
    ASSUME TypeOK, LedgerInv, SupInv, WatchInv, restarts = 0, NEW p \in Pids, Live(p)
    PROVE  /\ state \in Ledgers
           /\ worker[p].pc \in Entering =>
                  /\ View \in Ledger!Resumable
                  /\ state.status = "running" => state.pid # p
           /\ worker[p].pc \in Working => View = "running" /\ state.status = "running" /\ state.pid = p
           /\ worker[p].pc = "exit" => state.status \in {"paused", "failed", "done"}
<1>1. Shows(p) /\ request
    BY DEF WatchInv, Shows
<1>2. state \in Ledgers /\ state # None
    BY <1>1 DEF TypeOK, LedgerInv
<1>3. \A q \in Pids : Live(q) => q = p
    BY OnlyOne
<1>4. ASSUME worker[p].pc \in Entering
      PROVE  View \in Ledger!Resumable /\ (state.status = "running" => state.pid # p)
    <2>1. state.status = "running" => state.pid \in Pids /\ state.pid # p
        BY <1>2, <1>4 DEF LedgerInv, Entered, Ledgers
    <2>2. state.status = "running" => ~Live(state.pid)
        BY <1>3, <2>1
    <2>3. state.status \in {"created", "paused", "failed", "running"}
        BY <1>1, <1>4 DEF Shows
    <2> QED BY <1>2, <2>1, <2>2, <2>3, ViewFacts DEF Ledger!Resumable
<1>5. ASSUME worker[p].pc \in Working
      PROVE  View = "running" /\ state.status = "running" /\ state.pid = p
    BY <1>1, <1>2, <1>5, ViewFacts DEF Shows
<1> QED BY <1>1, <1>2, <1>4, <1>5 DEF Shows

\* What a worker stores is an artifact of the run.
LEMMA StoresOne ==
    ASSUME TypeOK, PlaceInv, NEW p \in Pids, Works(p) \/ Call(p) \/ Fails(p) \/ Kill(p)
    PROVE  \/ cache' = cache
           \/ /\ \E k \in Keys : cache' = cache \cup {k}
              /\ worker[p].pc \in Working /\ worker'[p].pc \in Working
<1>1. CASE Store(p)
    <2>1. At(p, "store") /\ (cache' = cache \/ cache' = cache \cup {Key(p)})
        BY <1>1 DEF Store
    <2>2. worker'[p].pc = "report"
        BY <1>1, Path DEF Turns
    <2>3. Key(p) \in Keys
        BY <2>1, KeyFacts DEF At
    <2> QED BY <2>1, <2>2, <2>3 DEF At, Working
<1>2. CASE CopyContents(p)
    <2>1. At(p, "copying") /\ \E k \in layout.parent : cache' = cache \cup {k}
        BY <1>2 DEF CopyContents
    <2>2. worker'[p].pc = "copy"
        BY <1>2, Path DEF Stays, Turns
    <2>3. layout.parent \subseteq Keys
        BY JobAssumption DEF TypeOK, LayoutOK
    <2> QED BY <2>1, <2>2, <2>3 DEF At, Working
<1>3. CASE \/ Boot(p) \/ Open(p) \/ CopyLook(p) \/ CopyFile(p) \/ Setup(p) \/ Check(p) \/ Report(p)
           \/ Forward(p) \/ Rendered(p) \/ Assemble(p) \/ EndPaused(p) \/ EndFailed(p)
           \/ WriteFailed(p) \/ EndDone(p) \/ Finalize(p) \/ Exit(p) \/ Call(p) \/ Fails(p) \/ Kill(p)
    BY <1>3 DEF Boot, Open, CopyLook, CopyFile, Setup, Check, Report, Forward, Rendered, Assemble,
                EndPaused, EndFailed, WriteFailed, EndDone, Finalize, Exit, Call, Fails, Kill, disk
<1> QED BY <1>1, <1>2, <1>3 DEF Works

\* Where a worker goes, seen from outside.
LEMMA Phases ==
    ASSUME TypeOK, PlaceInv, NEW p \in Pids, Works(p) \/ Call(p) \/ Fails(p) \/ Kill(p),
           worker[p].piped, request
    PROVE  \/ worker[p].pc \in Working /\ worker'[p].pc \in Working
           \/ EndPaused(p) \/ WriteFailed(p) \/ Finalize(p)
           \/ worker[p].pc \in Working /\ worker'[p].pc = "dead" /\ state' = state
           \/ worker[p].pc \in Entering /\ Open(p)
           \/ worker[p].pc \in Entering /\ worker'[p].pc \in {"open", "dead"} /\ state' = state
           \/ worker[p].pc = "exit" /\ state' = state
<1>1. CASE Boot(p)
    <2>1. At(p, "spawned") /\ worker'[p].pc = "open"
        BY <1>1, Path DEF Stays, Turns
    <2> QED BY <1>1, <2>1 DEF At, Entering, Boot
<1>2. CASE Open(p)
    BY <1>2 DEF Open, At, Entering
<1>3. CASE Kill(p)
    <2>1. Live(p) /\ worker'[p].pc = "dead" /\ state' = state
        BY <1>3, Path DEF Gone, Kill, disk
    <2>2. worker[p].pc \in Entering \cup Working \cup {"exit"}
        BY <2>1 DEF TypeOK, Workers, PCs, Entering, Working, Live
    <2> QED BY <2>1, <2>2
<1>4. CASE Exit(p)
    BY <1>4 DEF Exit, At, disk
<1>5. CASE CopyLook(p)
    BY <1>5, Path DEF Stays, Turns, At, Working
<1>6. CASE CopyFile(p)
    BY <1>6, Path DEF Stays, Turns, At, Working
<1>7. CASE CopyContents(p)
    BY <1>7, Path DEF Stays, Turns, At, Working
<1>8. CASE Setup(p)
    BY <1>8, Path DEF Stays, Turns, At, Working
<1>9. CASE Check(p)
    BY <1>9, Path DEF Stays, Turns, At, Working
<1>10. CASE Store(p)
    BY <1>10, Path DEF Stays, Turns, At, Working
<1>11. CASE Report(p)
    BY <1>11, Path DEF Stays, Turns, At, Working
<1>12. CASE Forward(p)
    BY <1>12, Path DEF Stays, Turns, At, Working
<1>13. CASE Rendered(p)
    BY <1>13, Path DEF Stays, Turns, At, Working
<1>14. CASE Assemble(p)
    BY <1>14, Path DEF Stays, Turns, At, Working
<1>15. CASE EndFailed(p)
    BY <1>15, Path DEF Stays, Turns, At, Working
<1>16. CASE EndDone(p)
    BY <1>16, Path DEF Stays, Turns, At, Working
<1>17. CASE Call(p)
    BY <1>17, Path DEF Stays, Turns, At, Working
<1>18. CASE Fails(p)
    BY <1>18, Path DEF Stays, Turns, Working
<1> QED BY <1>1, <1>2, <1>3, <1>4, <1>5, <1>6, <1>7, <1>8, <1>9, <1>10, <1>11, <1>12, <1>13,
           <1>14, <1>15, <1>16, <1>17, <1>18 DEF Works

\* While the sidecar watches, each step of a worker is one the promise allows, or
\* does not show.
LEMMA PromiseOfWork ==
    ASSUME JobInv, JobInv', restarts = 0, SnapshotKept, NEW p \in Pids,
           Works(p) \/ Call(p) \/ Fails(p) \/ Kill(p)
    PROVE  Ledger!Next \/ Stutters
<1>1. /\ TypeOK /\ PlaceInv /\ LedgerInv /\ SupInv /\ SnapInv /\ WatchInv
      /\ TypeOK' /\ PlaceInv' /\ LedgerInv' /\ SupInv' /\ WatchInv'
    BY DEF JobInv
<1>2. /\ restarts' = 0 /\ Live(p)
      /\ \A q \in Pids : q # p => worker'[q] = worker[q]
    BY <1>1, WorkFrame
<1>3. worker[p].piped /\ request
    BY <1>1, <1>2, OnlyOne
<1>4. /\ state \in Ledgers
      /\ worker[p].pc \in Entering => /\ View \in Ledger!Resumable
                                      /\ state.status = "running" => state.pid # p
      /\ worker[p].pc \in Working => View = "running" /\ state.status = "running" /\ state.pid = p
      /\ worker[p].pc = "exit" => state.status \in {"paused", "failed", "done"}
    BY <1>1, <1>2, WatchedView
<1>5. state # None /\ None \notin Ledgers
    BY <1>4, ConstantFacts
<1>6. CASE worker[p].pc \in Working /\ worker'[p].pc \in Working
    <2>1. View = "running"
        BY <1>4, <1>6
    <2>2. View' = "running"
        <3>1. Shows(p)' /\ request' /\ state' # None
            BY <1>1, <1>2, <1>6 DEF WatchInv, Shows, LedgerInv, Live, Working
        <3>2. state'.status = "running" /\ state'.pid = p
            BY <1>6, <3>1 DEF Shows
        <3> QED BY <1>6, <3>1, <3>2, NextView DEF Working
    <2>3. CASE cache' = cache
        BY <2>1, <2>2, <2>3 DEF Stutters
    <2>4. CASE \E k \in Keys : cache' = cache \cup {k}
        <3>1. PICK k \in Keys : cache' = cache \cup {k}
            BY <2>4
        <3>2. CASE k \in cache
            BY <2>1, <2>2, <3>1, <3>2 DEF Stutters
        <3>3. CASE k \notin cache
            <4>1. Ledger!Render
                BY <2>1, <2>2, <3>1, <3>3 DEF Ledger!Render
            <4> QED BY <4>1 DEF Ledger!Next
        <3> QED BY <3>2, <3>3
    <2> QED BY <1>1, <2>3, <2>4, StoresOne
<1>7. ASSUME worker[p].pc \in Working, cache' = cache, View' \in {"paused", "failed", "interrupted"}
      PROVE  Ledger!Next
    <2>1. Ledger!Stop
        BY <1>4, <1>7 DEF Ledger!Stop
    <2> QED BY <2>1 DEF Ledger!Next
<1>8. CASE EndPaused(p)
    <2> DEFINE s == EndSegment(p, "paused")
    <2>1. At(p, "pausing") /\ cache' = cache /\ state' = [s EXCEPT !.status = "paused"]
        BY <1>8 DEF EndPaused
    <2>2. s \in Ledgers
        BY <1>1, SegmentFacts
    <2> HIDE DEF s
    <2>3. state' \in Ledgers /\ state'.status = "paused"
        <3>1. "paused" \in Statuses
            BY DEF Statuses
        <3>2. [s EXCEPT !.status = "paused"] \in Ledgers
                 /\ [s EXCEPT !.status = "paused"].status = "paused"
            BY <2>2, <3>1, LedgerFacts
        <3> QED BY <2>1, <3>2
    <2>4. View' = "paused"
        BY <1>5, <2>3, NextView
    <2> QED BY <1>7, <2>1, <2>4 DEF At, Working
<1>9. CASE WriteFailed(p)
    <2>1. At(p, "failed") /\ cache' = cache /\ state' = worker[p].mem
        BY <1>9 DEF WriteFailed, Mem
    <2>2. state' \in Ledgers /\ state'.status = "failed"
        BY <1>1, <2>1 DEF At, PlaceInv, TypeOK, Workers
    <2>3. View' = "failed"
        BY <1>5, <2>2, NextView
    <2> QED BY <1>7, <2>1, <2>3 DEF At, Working
<1>10. CASE Finalize(p)
    <2>1. At(p, "finalize") /\ cache' = cache /\ state' = [Mem(p) EXCEPT !.status = "done"]
        BY <1>10 DEF Finalize
    <2>2. Mem(p) \in Ledgers /\ worker[p].i \in 1..(Len(Artifacts) + 1)
        BY <1>1 DEF TypeOK, Workers, Mem
    <2>3. state' \in Ledgers /\ state'.status = "done"
        BY <2>1, <2>2, LedgerFacts DEF Statuses
    <2>4. View' = "done"
        BY <1>5, <2>3, NextView
    <2>5. Len(Artifacts) = worker[p].i - 1
        BY <1>1, <2>1, <2>2, ConstantFacts DEF PlaceInv, At
    <2>6. Prefix(Len(Artifacts), cache)
        BY <1>1, <1>3, <2>5 DEF SnapInv
    <2>7. cache = Keys
        <3>1. \A k \in Keys : \E j \in 1..Len(Artifacts) : k = Artifacts[j]
            BY ConstantFacts DEF Keys, Range
        <3>2. Keys \subseteq cache
            BY <2>6, <3>1 DEF Prefix
        <3> QED BY <1>1, <3>2 DEF TypeOK
    <2>8. View = "running"
        BY <1>4, <2>1 DEF At, Working
    <2>9. Ledger!Finish
        BY <2>1, <2>4, <2>7, <2>8 DEF Ledger!Finish
    <2> QED BY <2>9 DEF Ledger!Next
<1>11. CASE worker[p].pc \in Working /\ worker'[p].pc = "dead" /\ state' = state
    <2>1. cache' = cache
        BY <1>1, <1>11, StoresOne DEF Working
    <2>2. View' = "interrupted"
        BY <1>4, <1>5, <1>11, NextView
    <2> QED BY <1>7, <1>11, <2>1, <2>2
<1>12. CASE worker[p].pc \in Entering /\ Open(p)
    <2>1. Found \in Ledgers /\ state' = Entry(p, Found) /\ cache' = cache
        BY <1>1, <1>12, TurnOfOpen DEF Open
    <2>2. state' \in Ledgers /\ state'.status = "running" /\ state'.pid = p
        BY <2>1, EntryFacts
    <2>3. worker'[p].pc = "look"
        BY <1>1, <1>12, Path DEF Turns
    <2>4. View' = "running"
        BY <1>5, <2>2, <2>3, NextView
    <2>5. Ledger!Start
        BY <1>4, <1>12, <2>1, <2>4 DEF Ledger!Start
    <2> QED BY <2>5 DEF Ledger!Next
<1>13. CASE \/ /\ worker[p].pc \in Entering /\ worker'[p].pc \in {"open", "dead"}
               /\ state' = state
            \/ worker[p].pc = "exit" /\ state' = state
    <2>1. cache' = cache
        BY <1>1, <1>13, StoresOne DEF Entering, Working
    <2>2. View' = View
        BY <1>1, <1>2, <1>4, <1>13, SameView
    <2> QED BY <2>1, <2>2 DEF Stutters
<1> QED BY <1>1, <1>3, <1>6, <1>8, <1>9, <1>10, <1>11, <1>12, <1>13, Phases

\* While the sidecar watches, what the manager and its user do is what the promise
\* allows, or does not show.
LEMMA PromiseOfManager ==
    ASSUME JobInv, TypeOK', restarts = 0,
           \/ Reap \/ CancelLook \/ CancelTimeout \/ CancelProceed \/ CancelRead \/ CancelWrite
           \/ Start \/ Pause \/ CancelAsk \/ Delete \/ DeleteParent
           \/ RaiseCeiling \/ Restart
    PROVE  Ledger!Next \/ Stutters
<1>1. TypeOK /\ PlaceInv /\ LedgerInv /\ SupInv /\ WatchInv
    BY DEF JobInv
<1>2. CASE \/ Reap \/ CancelLook \/ CancelProceed \/ CancelRead \/ Pause \/ CancelAsk
           \/ RaiseCeiling
    <2>1. UNCHANGED <<worker, state, cache>>
        BY <1>2 DEF Reap, CancelLook, CancelProceed, CancelRead, Pause, CancelAsk,
                    RaiseCeiling, disk, manager
    <2> QED BY <1>1, <2>1, SameView DEF Stutters
<1>3. CASE CancelTimeout
    <2>1. /\ UNCHANGED <<state, cache>>
          /\ sup.pid \in Pids /\ Terminate(sup.pid)
        BY <1>1, <1>3 DEF CancelTimeout, Supervised, disk, TypeOK
    <2>2. \/ Gone(sup.pid) /\ worker[sup.pid].pc \in {"spawned", "finish", "finalize", "exit"}
          \/ Stays(sup.pid, worker[sup.pid].pc)
        BY <1>1, <2>1, TurnOfTerminate
    <2>3. CASE Stays(sup.pid, worker[sup.pid].pc)
        <3>1. \A q \in Pids : worker'[q].pc = worker[q].pc
            BY <2>1, <2>3 DEF Stays, Turns
        <3> QED BY <1>1, <2>1, <3>1, SameView DEF Stutters
    <2>4. CASE Gone(sup.pid) /\ worker[sup.pid].pc \in {"spawned", "finish", "finalize", "exit"}
        <3> DEFINE p == sup.pid
        <3>1. Live(p) /\ p \in Pids
            BY <2>1, <2>4 DEF Live
        <3>2. /\ worker'[p].pc = "dead" /\ \A q \in Pids : q # p => worker'[q] = worker[q]
            BY <2>4 DEF Gone
        <3> HIDE DEF p
        <3>3. /\ worker[p].pc \in Entering => (state.status = "running" => state.pid # p)
              /\ worker[p].pc \in Working => View = "running" /\ state.status = "running" /\ state.pid = p
              /\ worker[p].pc = "exit" => state.status \in {"paused", "failed", "done"}
              /\ state # None
            BY <1>1, <3>1, WatchedView, ConstantFacts
        <3>4. CASE worker[p].pc \in Working
            <4>1. View' = "interrupted"
                BY <2>1, <3>2, <3>3, <3>4, NextView
            <4>2. Ledger!Stop
                BY <2>1, <3>3, <3>4, <4>1 DEF Ledger!Stop
            <4> QED BY <4>2 DEF Ledger!Next
        <3>5. CASE worker[p].pc \in {"spawned", "exit"}
            <4>1. View' = View
                BY <1>1, <2>1, <3>2, <3>3, <3>5, SameView DEF Entering
            <4> QED BY <2>1, <4>1 DEF Stutters
        <3> QED BY <2>4, <3>4, <3>5 DEF Working, p
    <2> QED BY <2>2, <2>3, <2>4
<1>4. CASE CancelWrite
    <2>1. /\ UNCHANGED <<request, worker, cache>> /\ cancel.pc = "write"
          /\ state' = IF request THEN [cancel.state EXCEPT !.status = "cancelled"] ELSE state
        BY <1>4 DEF CancelWrite
    <2>2. CASE ~request
        BY <1>1, <2>1, <2>2, SameView DEF Stutters
    <2>3. CASE request
        <3>1. cancel.state = state /\ state.status # "done" /\ state # None /\ state \in Ledgers
            BY <1>1, <2>1, <2>3 DEF WatchInv, LedgerInv, TypeOK
        <3>2. state' = [state EXCEPT !.status = "cancelled"] /\ "cancelled" \in Statuses
            BY <2>1, <2>3, <3>1 DEF Statuses
        <3>3. state' \in Ledgers /\ state'.status = "cancelled"
            BY <3>1, <3>2, LedgerFacts
        <3>4. View' = "cancelled"
            BY <3>3, NextView, ConstantFacts
        <3>5. \A q \in Pids : ~Live(q)
            BY <1>1, <2>1, Alive
        <3>6. state.status = "running" => ~Live(state.pid)
            BY <1>1, <3>1, <3>5 DEF LedgerInv, Entered, Ledgers
        <3>7. View \in Ledger!Resumable \cup {"cancelled"}
            BY <3>1, <3>6, ViewFacts DEF Ledgers, Statuses, Ledger!Resumable
        <3>8. CASE View = "cancelled"
            BY <2>1, <3>4, <3>8 DEF Stutters
        <3>9. CASE View \in Ledger!Resumable
            <4>1. Ledger!Cancel
                BY <2>1, <3>4, <3>9 DEF Ledger!Cancel
            <4> QED BY <4>1 DEF Ledger!Next
        <3> QED BY <3>7, <3>8, <3>9
    <2> QED BY <2>2, <2>3
<1>5. CASE Start
    <2>1. PICK p \in Pids : At(p, "none") /\ Stays(p, "spawned")
        BY <1>1, <1>5, TurnOfStart
    <2>2. UNCHANGED <<state, cache>>
        BY <1>5 DEF Start, disk
    <2>3. \A q \in Pids : q # p => worker'[q] = worker[q]
        BY <2>1 DEF Stays, Turns
    <2>4. state # None /\ state.status = "running" => state.pid # p
        BY <1>1, <2>1 DEF LedgerInv, Entered, Entering, At
    <2>5. View' = View
        BY <1>1, <2>2, <2>3, <2>4, SameView
    <2> QED BY <2>2, <2>5 DEF Stutters
<1>6. CASE Delete
    <2>1. View \notin {"running", "deleted"} /\ state' = None /\ cache' \in {{}, cache}
        BY <1>6 DEF Delete
    <2>2. Ledger!Delete
        BY <2>1, NextView DEF Ledger!Delete
    <2> QED BY <2>2 DEF Ledger!Next
<1>7. CASE Restart
    <2>1. Forgets
        BY <1>1, <1>7, TurnOfRestart
    <2>2. UNCHANGED <<state, cache>>
        BY <1>7 DEF Restart, disk
    <2>3. View' = View
        BY <1>1, <2>1, <2>2, SameView DEF Forgets
    <2> QED BY <2>2, <2>3 DEF Stutters
<1>8. CASE DeleteParent
    <2>1. UNCHANGED <<worker, state, layout>> /\ gone' = TRUE
        BY <1>8 DEF DeleteParent
    <2>2. View' = View
        BY <1>1, <2>1, SameView
    <2>3. CASE layout.place # "parent"
        BY <1>8, <2>2, <2>3 DEF DeleteParent, Stutters
    <2>4. CASE layout.place = "parent"
        <3>1. ~SnapshotKept'
            BY <2>1, <2>4 DEF SnapshotKept, ParentLost
        <3>2. Ledger!Uncovered
            BY <3>1, NextViewRange DEF Ledger!Uncovered, TypeOK
        <3> QED BY <3>2 DEF Ledger!Next
    <2> QED BY <2>3, <2>4
<1> QED BY <1>2, <1>3, <1>4, <1>5, <1>6, <1>7, <1>8

\* What takes a job out of the promise is not undone.
LEMMA LostForGood ==
    ASSUME TypeOK, PlaceInv, Next, ~(restarts = 0 /\ SnapshotKept)
    PROVE  ~(restarts' = 0 /\ SnapshotKept')
<1>1. CASE \E p \in Pids : Works(p) \/ Call(p) \/ Fails(p) \/ Kill(p)
    <2>1. UNCHANGED <<layout, gone, restarts>>
        BY <1>1, WorkFrame
    <2> QED BY <2>1 DEF SnapshotKept, ParentLost
<1>2. CASE \/ Reap \/ CancelLook \/ CancelTimeout \/ CancelProceed \/ CancelRead \/ CancelWrite
           \/ Start \/ Pause \/ CancelAsk \/ Delete \/ RaiseCeiling
    <2>1. UNCHANGED <<layout, gone, restarts>>
        BY <1>2 DEF Reap, CancelLook, CancelTimeout, CancelProceed, CancelRead, CancelWrite, Start,
                    Pause, CancelAsk, Delete, RaiseCeiling, disk, copies, manager
    <2> QED BY <2>1 DEF SnapshotKept, ParentLost
<1>3. CASE DeleteParent
    BY <1>3 DEF DeleteParent, SnapshotKept, ParentLost, manager
<1>4. CASE Restart
    BY <1>4 DEF Restart, TypeOK
<1> QED BY <1>1, <1>2, <1>3, <1>4, Cases DEF Works

\* KeepsPromise: the job as its user sees it is started, stopped, cancelled and deleted
\* as the abstract ledger says, by any number of workers, while the sidecar watches and
\* the snapshot is not taken from under it.
THEOREM JobKeepsPromise == Spec => KeepsPromise
<1>1. Init => Ledger!Init
    <2>1. SUFFICES ASSUME Init PROVE View = "created" /\ cache \subseteq Keys
        BY DEF Ledger!Init
    <2>2. state = NewState /\ state # None /\ cache \subseteq Keys
        BY <2>1, NewStateFacts, ConstantFacts, TypeInit DEF Init, TypeOK
    <2> QED BY <2>2, NewStateFacts, ViewFacts
<1>2. JobInv /\ JobInv' /\ [Next]_vars => [Ledger!Next]_(Ledger!vars)
    <2>1. SUFFICES ASSUME JobInv, JobInv', [Next]_vars PROVE Ledger!Next \/ Stutters
        BY DEF Ledger!vars, Stutters
    <2>2. TypeOK /\ PlaceInv /\ LedgerInv /\ TypeOK'
        BY <2>1 DEF JobInv
    <2>3. CASE UNCHANGED vars
        <3>1. UNCHANGED <<state, worker, cache>>
            BY <2>3 DEF vars
        <3> QED BY <2>2, <3>1, SameView DEF Stutters
    <2>4. CASE ~(restarts = 0 /\ SnapshotKept) /\ Next
        <3>2. cache' \subseteq Keys
            BY <2>2 DEF TypeOK
        <3>3. ~(restarts' = 0 /\ SnapshotKept')
            BY <2>4, LostForGood, <2>2
        <3>4. Ledger!Uncovered
            BY <2>2, <3>2, <3>3, NextViewRange DEF Ledger!Uncovered
        <3> QED BY <3>4 DEF Ledger!Next
    <2>5. CASE restarts = 0 /\ SnapshotKept /\ Next
        BY <2>1, <2>2, <2>5, PromiseOfWork, PromiseOfManager, Cases DEF Works
    <2> QED BY <2>1, <2>3, <2>4, <2>5
<1> QED BY <1>1, <1>2, JobInvariants, PTL DEF Spec, KeepsPromise, Ledger!Spec
=============================================================================

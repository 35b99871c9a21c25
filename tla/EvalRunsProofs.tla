--------------------------- MODULE EvalRunsProofs ---------------------------
(***************************************************************************)
(* Proofs about EvalRuns, for any questions, any number of commands and    *)
(* coroutines, and whatever interrupts them.                               *)
(***************************************************************************)
EXTENDS EvalRuns, FiniteSetTheorems, SequenceTheorems, TLAPS

-----------------------------------------------------------------------------
(* Sequences without repetitions.                                          *)

LEMMA AppendFacts ==
    ASSUME NEW T, NEW q \in Seq(T), NEW x \in T
    PROVE  /\ Append(q, x) \in Seq(T) /\ ToSet(Append(q, x)) = ToSet(q) \cup {x}
           /\ IsInjective(q) /\ x \notin ToSet(q) => IsInjective(Append(q, x))
<1>1. /\ Append(q, x) \in Seq(T) /\ Len(Append(q, x)) = Len(q) + 1 /\ Len(q) \in Nat
      /\ \A i \in 1..Len(q) : Append(q, x)[i] = q[i]
      /\ Append(q, x)[Len(q) + 1] = x
      /\ DOMAIN q = 1..Len(q) /\ DOMAIN Append(q, x) = 1..(Len(q) + 1)
    BY AppendProperties, LenProperties
<1>2. ToSet(Append(q, x)) = ToSet(q) \cup {x}
    <2>1. ASSUME NEW y \in ToSet(Append(q, x)) PROVE y \in ToSet(q) \cup {x}
        <3>1. PICK i \in 1..(Len(q) + 1) : y = Append(q, x)[i]
            BY <1>1, <2>1 DEF ToSet
        <3>2. i \in 1..Len(q) \/ i = Len(q) + 1
            BY <1>1
        <3>3. QED BY <1>1, <3>1, <3>2 DEF ToSet
    <2>2. ASSUME NEW y \in ToSet(q) \cup {x} PROVE y \in ToSet(Append(q, x))
        <3>1. CASE y = x
            <4>1. Len(q) + 1 \in 1..(Len(q) + 1)
                BY <1>1
            <4>2. QED BY <1>1, <3>1, <4>1 DEF ToSet
        <3>2. CASE y \in ToSet(q)
            <4>1. PICK i \in 1..Len(q) : y = q[i]
                BY <1>1, <3>2 DEF ToSet
            <4>2. i \in 1..(Len(q) + 1)
                BY <1>1
            <4>3. QED BY <1>1, <4>1, <4>2 DEF ToSet
        <3>3. QED BY <2>2, <3>1, <3>2
    <2>3. QED BY <2>1, <2>2
<1>3. ASSUME IsInjective(q), x \notin ToSet(q) PROVE IsInjective(Append(q, x))
    <2>1. \A i \in 1..Len(q) : q[i] # x
        BY <1>1, <1>3 DEF ToSet
    <2>2. \A i, k \in 1..Len(q) : q[i] = q[k] => i = k
        BY <1>1, <1>3 DEF IsInjective
    <2>3. \A i, k \in 1..(Len(q) + 1) : Append(q, x)[i] = Append(q, x)[k] => i = k
        BY <1>1, <2>1, <2>2
    <2>4. QED BY <1>1, <2>3 DEF IsInjective
<1>4. QED BY <1>1, <1>2, <1>3

LEMMA ConcatFacts ==
    ASSUME NEW T, NEW p \in Seq(T), NEW q \in Seq(T),
           IsInjective(p), IsInjective(q), ToSet(q) \cap ToSet(p) = {}
    PROVE  p \o q \in Seq(T) /\ IsInjective(p \o q)
<1>1. /\ Len(p) \in Nat /\ Len(q) \in Nat
      /\ DOMAIN p = 1..Len(p) /\ DOMAIN q = 1..Len(q)
    BY LenProperties
<1>2. /\ p \o q \in Seq(T) /\ Len(p \o q) = Len(p) + Len(q)
      /\ \A i \in 1 .. Len(p) + Len(q) :
             (p \o q)[i] = IF i <= Len(p) THEN p[i] ELSE q[i - Len(p)]
    BY ConcatProperties
<1>3. DOMAIN (p \o q) = 1..(Len(p) + Len(q))
    BY <1>2, LenProperties
<1>4. \A i, k \in 1..Len(p) : p[i] = p[k] => i = k
    BY <1>1 DEF IsInjective
<1>5. \A i, k \in 1..Len(q) : q[i] = q[k] => i = k
    BY <1>1 DEF IsInjective
<1>6. \A i \in 1..Len(p), k \in 1..Len(q) : p[i] # q[k]
    BY <1>1 DEF ToSet
<1>7. ASSUME NEW i \in 1..(Len(p) + Len(q)), NEW k \in 1..(Len(p) + Len(q)),
             (p \o q)[i] = (p \o q)[k]
      PROVE  i = k
    <2>1. \A j \in 1..(Len(p) + Len(q)) :
             \/ j \in 1..Len(p) /\ (p \o q)[j] = p[j]
             \/ j - Len(p) \in 1..Len(q) /\ (p \o q)[j] = q[j - Len(p)]
        BY <1>1, <1>2
    <2>2. CASE i \in 1..Len(p) /\ (p \o q)[i] = p[i]
        BY <1>4, <1>6, <1>7, <2>1, <2>2
    <2>3. CASE i - Len(p) \in 1..Len(q) /\ (p \o q)[i] = q[i - Len(p)]
        <3>1. ~ (k \in 1..Len(p) /\ (p \o q)[k] = p[k])
            BY <1>6, <1>7, <2>3
        <3>2. k - Len(p) \in 1..Len(q) /\ (p \o q)[k] = q[k - Len(p)]
            BY <2>1, <3>1
        <3>3. i - Len(p) = k - Len(p)
            BY <1>5, <1>7, <2>3, <3>2
        <3>4. QED BY <1>1, <3>3
    <2>4. QED BY <2>1, <2>2, <2>3
<1>8. QED BY <1>2, <1>3, <1>7 DEF IsInjective

LEMMA SetToSeqFacts ==
    ASSUME NEW S, IsFiniteSet(S)
    PROVE  SetToSeq(S) \in Seq(S) /\ IsInjective(SetToSeq(S))
<1>1. Cardinality(S) \in Nat /\ ExistsBijection(1..Cardinality(S), S)
    BY FS_CardinalityType
<1>2. \E f \in [1..Cardinality(S) -> S] : IsInjective(f)
    BY <1>1 DEF ExistsBijection, Bijection, Injection
<1>3. SetToSeq(S) \in [1..Cardinality(S) -> S] /\ IsInjective(SetToSeq(S))
    BY <1>2 DEF SetToSeq
<1>4. QED BY <1>1, <1>3

-----------------------------------------------------------------------------
(* What is kept of a sequence.                                             *)

LEMMA LeastSet ==
    ASSUME NEW S, IsFiniteSet(S), NEW B \in SUBSET (SUBSET S), B # {}
    PROVE  \E U \in B : \A V \in B : V \subseteq U => V = U
<1>1. IsWellFoundedOn(StrictSubsetOrdering(S), FiniteSubsetsOf(S))
    BY FS_StrictSubsetOrderingWellFounded
<1>2. B \subseteq FiniteSubsetsOf(S)
    BY FS_FiniteSubsetsOfFinite
<1>3. PICK U \in B : \A V \in B : <<V, U>> \notin StrictSubsetOrdering(S)
    BY <1>1, <1>2, WFMin
<1>4. \A V \in B : V \subseteq U => V = U
    BY <1>3 DEF StrictSubsetOrdering
<1> QED BY <1>4

LEMMA LeastNat ==
    ASSUME NEW S \in SUBSET Nat, S # {}
    PROVE  \E m \in S : \A n \in S : m <= n
<1>1. PICK top \in S : TRUE
    OBVIOUS
<1> DEFINE B == {u \in SUBSET (0..top) : \E n \in S : n <= top /\ u = 0..n}
<1>2. 0..top \in B
    BY <1>1
<1>3. PICK u \in B : \A v \in B : v \subseteq u => v = u
    <2>1. B \in SUBSET (SUBSET (0..top)) /\ B # {}
        BY <1>2
    <2>2. IsFiniteSet(0..top)
        BY <1>1, FS_Interval
    <2> DEFINE D == 0..top
    <2>3. IsFiniteSet(D) /\ B \in SUBSET (SUBSET D) /\ B # {}
        BY <2>1, <2>2
    <2> HIDE DEF B, D
    <2>4. \E U \in B : \A V \in B : V \subseteq U => V = U
        BY <2>3, LeastSet
    <2> QED BY <2>4
<1>4. PICK m \in S : m <= top /\ u = 0..m
    BY <1>3
<1>5. ASSUME NEW n \in S, n < m PROVE FALSE
    <2>1. 0..n \in SUBSET (0..top) /\ n <= top
        BY <1>1, <1>4, <1>5
    <2>2. 0..n \in B
        BY <2>1
    <2>3. 0..n = 0..m
        <3>1. 0..n \subseteq u
            BY <1>4, <1>5
        <3> QED BY <1>3, <1>4, <2>2, <3>1
    <2>4. m \in 0..n
        BY <1>4, <2>3
    <2> QED BY <1>5, <2>4
<1> QED BY <1>4, <1>5

Keeps(f, s, S, m) ==
    f = [n \in 0..m |-> IF n = 0 THEN <<>>
                        ELSE IF s[n] \in S THEN Append(f[n - 1], s[n]) ELSE f[n - 1]]

LEMMA KeepsExists ==
    ASSUME NEW s, NEW S, NEW m \in Nat
    PROVE  \E f : Keeps(f, s, S, m)
<1> DEFINE Bad == {n \in Nat : ~ \E f : Keeps(f, s, S, n)}
<1>1. SUFFICES ASSUME Bad # {} PROVE FALSE
    OBVIOUS
<1>2. PICK n \in Bad : \A k \in Bad : n <= k
    <2>1. Bad \in SUBSET Nat
        OBVIOUS
    <2> HIDE DEF Bad
    <2>2. QED BY <1>1, <2>1, LeastNat
<1>3. n \in Nat /\ ~ \E f : Keeps(f, s, S, n)
    BY <1>2
<1>4. CASE n = 0
    <2>1. 0..0 = {0}
        OBVIOUS
    <2>2. Keeps([i \in 0..0 |-> <<>>], s, S, 0)
        BY <2>1 DEF Keeps
    <2>3. QED BY <1>3, <1>4, <2>2
<1>5. CASE n # 0
    <2>1. n - 1 \in Nat /\ ~(n <= n - 1)
        BY <1>3, <1>5
    <2>2. PICK f : Keeps(f, s, S, n - 1)
        BY <1>2, <2>1
    <2> DEFINE last == IF s[n] \in S THEN Append(f[n - 1], s[n]) ELSE f[n - 1]
               g == [i \in 0..n |-> IF i = n THEN last ELSE f[i]]
    <2>3. \A i \in 0..(n - 1) :
             f[i] = IF i = 0 THEN <<>>
                    ELSE IF s[i] \in S THEN Append(f[i - 1], s[i]) ELSE f[i - 1]
        BY <2>1, <2>2 DEF Keeps
    <2>4. ASSUME NEW i \in 0..n
          PROVE  g[i] = IF i = 0 THEN <<>>
                        ELSE IF s[i] \in S THEN Append(g[i - 1], s[i]) ELSE g[i - 1]
        <3>1. CASE i = n
            <4>1. n - 1 \in 0..n /\ n - 1 # n /\ n \in 0..n
                BY <2>1
            <4>2. g[i] = last /\ g[i - 1] = f[n - 1]
                BY <3>1, <4>1
            <4> HIDE DEF g
            <4>3. QED BY <1>5, <3>1, <4>2
        <3>2. CASE i # n
            <4>1. i \in 0..(n - 1) /\ (i # 0 => i - 1 \in 0..n /\ i - 1 # n)
                BY <1>3, <3>2
            <4>2. g[i] = f[i] /\ (i # 0 => g[i - 1] = f[i - 1])
                BY <3>2, <4>1
            <4> HIDE DEF g, last
            <4>3. QED BY <2>3, <4>1, <4>2
        <3>3. QED BY <3>1, <3>2
    <2>5. g = [i \in 0..n |-> g[i]]
        OBVIOUS
    <2>6. Keeps(g, s, S, n)
        <3> HIDE DEF g
        <3>1. QED BY <2>4, <2>5 DEF Keeps
    <2>7. QED BY <1>3, <2>6
<1>6. QED BY <1>4, <1>5

\* What is kept is what is in S, and nothing twice that was not there twice.
LEMMA KeepFacts ==
    ASSUME NEW T, NEW s \in Seq(T), NEW S
    PROVE  /\ Keep(s, S) \in Seq(T) /\ ToSet(Keep(s, S)) = ToSet(s) \cap S
           /\ IsInjective(s) => IsInjective(Keep(s, S))
<1>1. /\ Len(s) \in Nat /\ DOMAIN s = 1..Len(s)
      /\ \A i \in 1..Len(s) : s[i] \in T
    BY LenProperties, ElementOfSeq
<1>2. PICK f : Keeps(f, s, S, Len(s)) /\ Keep(s, S) = f[Len(s)]
    <2> DEFINE f == CHOOSE f : Keeps(f, s, S, Len(s))
    <2>1. Keeps(f, s, S, Len(s))
        BY <1>1, KeepsExists
    <2>2. Keep(s, S) = f[Len(s)]
        BY DEF Keep, Keeps
    <2>3. QED BY <2>1, <2>2
<1>3. /\ f[0] = <<>>
      /\ \A n \in 1..Len(s) :
             f[n] = IF s[n] \in S THEN Append(f[n - 1], s[n]) ELSE f[n - 1]
    <2>1. \A n \in 0..Len(s) :
             f[n] = IF n = 0 THEN <<>>
                    ELSE IF s[n] \in S THEN Append(f[n - 1], s[n]) ELSE f[n - 1]
        BY <1>1, <1>2 DEF Keeps
    <2>2. /\ 0 \in 0..Len(s)
          /\ \A n \in 1..Len(s) : n \in 0..Len(s) /\ n # 0
        BY <1>1
    <2>3. QED BY <2>1, <2>2
<1> DEFINE Good(n) ==
        /\ f[n] \in Seq(T) /\ ToSet(f[n]) = {s[i] : i \in 1..n} \cap S
        /\ IsInjective(s) => IsInjective(f[n])
    Bad == {n \in 0..Len(s) : ~Good(n)}
<1>4. Good(0)
    <2>1. 1..0 = {} /\ DOMAIN <<>> = {}
        OBVIOUS
    <2>2. QED BY <1>3, <2>1 DEF ToSet, IsInjective
<1>5. ASSUME NEW n \in 1..Len(s), Good(n - 1) PROVE Good(n)
    <2>1. 1..n = (1..(n - 1)) \cup {n}
        OBVIOUS
    <2>2. {s[i] : i \in 1..n} = {s[i] : i \in 1..(n - 1)} \cup {s[n]}
        BY <2>1
    <2>3. CASE s[n] \notin S
        <3>1. f[n] = f[n - 1]
            BY <1>3, <2>3
        <3>2. {s[i] : i \in 1..n} \cap S = {s[i] : i \in 1..(n - 1)} \cap S
            BY <2>2, <2>3
        <3>3. QED BY <1>5, <3>1, <3>2
    <2>4. CASE s[n] \in S
        <3>1. f[n] = Append(f[n - 1], s[n]) /\ s[n] \in T
            BY <1>1, <1>3, <2>4
        <3>2. /\ f[n] \in Seq(T) /\ ToSet(f[n]) = ToSet(f[n - 1]) \cup {s[n]}
              /\ IsInjective(f[n - 1]) /\ s[n] \notin ToSet(f[n - 1]) => IsInjective(f[n])
            BY <1>5, <3>1, AppendFacts, SMTT(30)
        <3>3. ASSUME IsInjective(s) PROVE s[n] \notin {s[i] : i \in 1..(n - 1)}
            BY <1>1, <3>3 DEF IsInjective
        <3>4. ToSet(f[n]) = {s[i] : i \in 1..n} \cap S
            BY <1>5, <2>2, <2>4, <3>2
        <3>5. QED BY <1>5, <3>2, <3>3, <3>4
    <2>5. QED BY <2>3, <2>4
<1>6. Bad = {}
    <2>1. SUFFICES ASSUME Bad # {} PROVE FALSE
        OBVIOUS
    <2>2. PICK n \in Bad : \A k \in Bad : n <= k
        <3>1. Bad \in SUBSET Nat
            OBVIOUS
        <3> HIDE DEF Bad
        <3>2. QED BY <2>1, <3>1, LeastNat
    <2>3. n \in 0..Len(s) /\ ~Good(n)
        BY <2>2
    <2> HIDE DEF Good
    <2>4. n # 0 /\ n \in 1..Len(s) /\ n - 1 \in 0..Len(s) /\ ~(n <= n - 1)
        BY <1>1, <1>4, <2>3
    <2>5. Good(n - 1)
        BY <2>2, <2>4
    <2>6. QED BY <1>5, <2>3, <2>4, <2>5
<1>7. Good(Len(s))
    <2> HIDE DEF Good
    <2>1. QED BY <1>1, <1>6
<1>8. ToSet(s) = {s[i] : i \in 1..Len(s)}
    BY <1>1 DEF ToSet
<1>9. QED BY <1>2, <1>7, <1>8

-----------------------------------------------------------------------------
(* The question set.                                                       *)

\* The set and what processes are about to write have no question twice; what is
\* added is finite, so that it can be written at all.
SetInv ==
    /\ IsInjective(Lines)
    /\ \A c \in Commands : IsFiniteSet(cmd[c].arg) /\ IsInjective(cmd[c].new)

LEMMA EmptyFacts ==
    /\ <<>> \in Seq(Questions) /\ IsInjective(<<>>) /\ ToSet(<<>>) = {} /\ Len(<<>>) = 0
<1>1. DOMAIN <<>> = {}
    OBVIOUS
<1>2. QED BY <1>1 DEF IsInjective, ToSet

LEMMA SetStarts == ASSUME Init PROVE SetInv /\ Lines \in Seq(Questions)
<1>1. SetToSeq(Generated) \in Seq(Questions) /\ IsInjective(SetToSeq(Generated))
    BY EvalAssumption, SetToSeqFacts, SeqMonotonic DEF Questions
<1>2. QED BY <1>1, EmptyFacts, FS_EmptySet DEF Init, SetInv, Lines, NoCommand

LEMMA ReviewedFinite ==
    ASSUME TypeOK
    PROVE  IsFiniteSet(Reviewed) /\ Reviewed \subseteq Questions
<1> DEFINE I == {k \in DOMAIN review : review[k].valid}
           f == [i \in I |-> review[i].q]
<1>1. /\ Len(review) \in Nat /\ DOMAIN review = 1..Len(review)
      /\ \A i \in DOMAIN review : review[i].q \in Questions
    <2>1. review \in Seq(Proposal)
        BY DEF TypeOK
    <2>2. Len(review) \in Nat /\ DOMAIN review = 1..Len(review)
        BY <2>1, LenProperties
    <2>3. \A i \in DOMAIN review : review[i] \in Proposal
        BY <2>1, <2>2, ElementOfSeq
    <2>4. QED BY <2>2, <2>3 DEF Proposal
<1>2. IsFiniteSet(I)
    <2>1. IsFiniteSet(1..Len(review))
        BY <1>1, FS_Interval
    <2>2. QED BY <1>1, <2>1, FS_Subset
<1>3. f \in Surjection(I, Reviewed)
    BY DEF Surjection, Reviewed
<1> HIDE DEF f, I
<1>4. IsFiniteSet(Reviewed)
    BY <1>2, <1>3, FS_Surjection
<1>5. QED BY <1>1, <1>4 DEF Reviewed

\* A process goes to a stage with something to write.
LEMMA GoesKeeps ==
    ASSUME TypeOK, SetInv, NEW c \in Commands, NEW stage \in {"idle", "append", "write"},
           NEW new \in Seq(Questions), IsInjective(new), Goes(c, stage, new)
    PROVE  TypeOK' /\ SetInv'
<1>1. NoCommand \in Process
    BY EmptyFacts DEF NoCommand, Process
<1>2. [cmd[c] EXCEPT !.at = stage, !.new = new] \in Process
    BY DEF TypeOK, Process
<1>3. cmd' \in [Commands -> Process]
    BY <1>1, <1>2 DEF Goes, TypeOK
<1>4. TypeOK'
    BY <1>3 DEF TypeOK, Goes, Lines
<1>5. /\ IsFiniteSet(NoCommand.arg) /\ IsInjective(NoCommand.new)
      /\ IsFiniteSet([cmd[c] EXCEPT !.at = stage, !.new = new].arg)
      /\ IsInjective([cmd[c] EXCEPT !.at = stage, !.new = new].new)
    BY EmptyFacts, FS_EmptySet DEF SetInv, NoCommand, TypeOK, Process
<1>6. \A d \in Commands : IsFiniteSet(cmd'[d].arg) /\ IsInjective(cmd'[d].new)
    BY <1>5 DEF SetInv, Goes, TypeOK
<1>7. QED BY <1>4, <1>6 DEF SetInv, Goes, Lines

LEMMA BeginKeeps ==
    ASSUME TypeOK, SetInv, NEW c \in Commands, NEW op \in {"generate", "add", "remove"},
           NEW arg \in SUBSET Questions, IsFiniteSet(arg), Begin(c, op, arg)
    PROVE  TypeOK' /\ SetInv'
<1> DEFINE new == [NoCommand EXCEPT !.op = op, !.arg = arg, !.at = "begun"]
<1>1. new \in Process /\ new.arg = arg /\ new.new = <<>>
    BY EmptyFacts DEF NoCommand, Process
<1>2. cmd' = [cmd EXCEPT ![c] = new]
    BY DEF Begin
<1> HIDE DEF new
<1>3. begun' \in 0..MaxCommands
    BY EvalAssumption DEF Begin, TypeOK
<1>4. TypeOK'
    BY <1>1, <1>2, <1>3 DEF TypeOK, Begin, Lines
<1>5. \A d \in Commands : IsFiniteSet(cmd'[d].arg) /\ IsInjective(cmd'[d].new)
    BY <1>1, <1>2, EmptyFacts DEF SetInv, TypeOK
<1>6. QED BY <1>4, <1>5 DEF SetInv, Begin, Lines

LEMMA WriteKeeps ==
    ASSUME TypeOK, SetInv, NEW c \in Commands, Write(c)
    PROVE  TypeOK' /\ SetInv'
<1>1. cmd[c].new \in Seq(Questions) /\ IsInjective(cmd[c].new)
    BY DEF TypeOK, Process, SetInv
<1>2. Lines' \in Seq(Questions) /\ IsInjective(Lines')
    BY <1>1, EmptyFacts DEF Write, Lines
<1>3. NoCommand \in Process /\ IsFiniteSet(NoCommand.arg) /\ IsInjective(NoCommand.new)
    BY EmptyFacts, FS_EmptySet DEF NoCommand, Process
<1>4. TypeOK'
    BY <1>2, <1>3 DEF TypeOK, Write
<1>5. \A d \in Commands : IsFiniteSet(cmd'[d].arg) /\ IsInjective(cmd'[d].new)
    BY <1>3 DEF SetInv, Write, TypeOK
<1>6. QED BY <1>2, <1>4, <1>5 DEF SetInv

\* No command leaves a question in the set twice, whatever others wrote between
\* its reading and its writing.
LEMMA CommandsKeep ==
    ASSUME TypeOK, SetInv, NEW c \in Commands,
           BeginGenerate(c) \/ BeginAdd(c) \/ BeginRemove(c) \/ Command(c)
    PROVE  TypeOK' /\ SetInv'
<1>1. CASE BeginGenerate(c)
    BY <1>1, BeginKeeps, FS_EmptySet DEF BeginGenerate
<1>2. CASE BeginAdd(c)
    <2>1. PICK S \in (SUBSET Reviewed) \ {{}} : Begin(c, "add", S)
        BY <1>2 DEF BeginAdd
    <2>2. IsFiniteSet(S) /\ S \in SUBSET Questions
        BY ReviewedFinite, FS_Subset
    <2>3. QED BY <2>1, <2>2, BeginKeeps
<1>3. CASE BeginRemove(c)
    <2>1. PICK q \in Questions : Begin(c, "remove", {q})
        BY <1>3 DEF BeginRemove
    <2>2. IsFiniteSet({q}) /\ {q} \in SUBSET Questions
        BY FS_Singleton
    <2>3. QED BY <2>1, <2>2, BeginKeeps
<1>4. CASE ReadGenerate(c)
    <2>1. SetToSeq(Generated) \in Seq(Questions) /\ IsInjective(SetToSeq(Generated))
        BY EvalAssumption, SetToSeqFacts, SeqMonotonic DEF Questions
    <2>2. QED BY <1>4, <2>1, EmptyFacts, GoesKeeps DEF ReadGenerate
<1>5. CASE Validate(c)
    <2> DEFINE accepted == cmd[c].arg \ ToSet(Lines)
    <2>1. cmd[c].arg \in SUBSET Questions /\ IsFiniteSet(cmd[c].arg)
        BY DEF TypeOK, Process, SetInv
    <2>2. accepted \in SUBSET cmd[c].arg
        OBVIOUS
    <2>3. IsFiniteSet(accepted) /\ accepted \subseteq Questions
        BY <2>1, <2>2, FS_Subset
    <2>4. SetToSeq(accepted) \in Seq(Questions) /\ IsInjective(SetToSeq(accepted))
        <3> HIDE DEF accepted
        <3>1. QED BY <2>3, SetToSeqFacts, SeqMonotonic
    <2>5. Goes(c, "idle", <<>>) \/ Goes(c, "append", SetToSeq(accepted))
        BY <1>5 DEF Validate
    <2> HIDE DEF accepted
    <2>6. QED BY <2>4, <2>5, EmptyFacts, GoesKeeps
<1>6. CASE AppendAccepted(c)
    <2>1. /\ cmd[c].new \in Seq(Questions) /\ IsInjective(cmd[c].new)
          /\ Lines \in Seq(Questions) /\ IsInjective(Lines)
        BY DEF TypeOK, Process, SetInv
    <2>2. CASE ToSet(cmd[c].new) \cap ToSet(Lines) # {}
        BY <1>6, <2>2, EmptyFacts, GoesKeeps DEF AppendAccepted
    <2>3. CASE ToSet(cmd[c].new) \cap ToSet(Lines) = {}
        <3>1. Lines \o cmd[c].new \in Seq(Questions) /\ IsInjective(Lines \o cmd[c].new)
            BY <2>1, <2>3, ConcatFacts
        <3>2. QED BY <1>6, <2>3, <3>1, GoesKeeps DEF AppendAccepted
    <2>4. QED BY <2>2, <2>3
<1>7. CASE ReadRemove(c)
    <2> DEFINE removed == cmd[c].arg \cap Proposals \cap ToSet(Lines)
    <2>1. Lines \in Seq(Questions) /\ IsInjective(Lines)
        BY DEF TypeOK, SetInv
    <2>2. /\ Keep(Lines, Questions \ removed) \in Seq(Questions)
          /\ IsInjective(Keep(Lines, Questions \ removed))
        <3> HIDE DEF removed
        <3>1. QED BY <2>1, KeepFacts
    <2>3. Goes(c, "idle", <<>>) \/ Goes(c, "write", Keep(Lines, Questions \ removed))
        BY <1>7 DEF ReadRemove
    <2> HIDE DEF removed
    <2>4. QED BY <2>2, <2>3, EmptyFacts, GoesKeeps
<1>8. CASE Write(c)
    BY <1>8, WriteKeeps
<1>9. QED BY <1>1, <1>2, <1>3, <1>4, <1>5, <1>6, <1>7, <1>8 DEF Command

\* The chat changes the review list, never the set.
LEMMA ChatKeeps ==
    ASSUME TypeOK, SetInv, BeginTurn \/ EndTurn \/ \E q \in Proposals : Propose(q)
    PROVE  TypeOK' /\ SetInv' /\ run' = run
<1>1. UNCHANGED <<file, cmd, begun, run>> /\ Lines' = Lines
    BY DEF BeginTurn, EndTurn, Propose, Lines
<1>2. /\ turn' \in [left : 0..MaxTurns, open : BOOLEAN, seen : SUBSET {Text[q] : q \in Questions}]
      /\ review' \in Seq(Proposal) /\ Len(review') <= MaxReview
    <2>1. CASE BeginTurn
        <3>1. ToSet(Lines) \subseteq Questions
            BY LenProperties, ElementOfSeq DEF TypeOK, ToSet
        <3>2. {Text[q] : q \in ToSet(Lines)} \in SUBSET {Text[q] : q \in Questions}
            BY <3>1
        <3>3. turn.left - 1 \in 0..MaxTurns
            BY <2>1, EvalAssumption DEF BeginTurn, TypeOK
        <3>4. QED BY <2>1, <3>2, <3>3 DEF BeginTurn, TypeOK
    <2>2. CASE EndTurn
        BY <2>2 DEF EndTurn, TypeOK
    <2>3. ASSUME NEW q \in Proposals, Propose(q)
          PROVE  /\ turn' \in [left : 0..MaxTurns, open : BOOLEAN,
                               seen : SUBSET {Text[r] : r \in Questions}]
                 /\ review' \in Seq(Proposal) /\ Len(review') <= MaxReview
        <3> DEFINE new == [q |-> q, valid |-> Text[q] \notin turn.seen]
        <3>1. q \in Questions /\ new \in Proposal
            BY <2>3 DEF Questions, Proposal
        <3>2. review \in Seq(Proposal) /\ review' = Append(review, new) /\ Len(review) < MaxReview
            BY <2>3 DEF Propose, TypeOK
        <3>3. review' \in Seq(Proposal) /\ Len(review') = Len(review) + 1 /\ Len(review) \in Nat
            <4> HIDE DEF new
            <4>1. QED BY <3>1, <3>2, AppendProperties, LenProperties
        <3>4. turn.seen \cup {Text[q]} \in SUBSET {Text[r] : r \in Questions}
            BY <3>1 DEF TypeOK
        <3>5. turn' \in [left : 0..MaxTurns, open : BOOLEAN,
                         seen : SUBSET {Text[r] : r \in Questions}]
            BY <2>3, <3>4 DEF Propose, TypeOK
        <3>6. QED BY <3>2, <3>3, <3>5, EvalAssumption
    <2>4. QED BY <2>1, <2>2, <2>3
<1>3. QED BY <1>1, <1>2 DEF TypeOK, SetInv

-----------------------------------------------------------------------------
(* The evaluation.                                                         *)

Asked(s, n) == {s[i] : i \in 1..(n - 1)}

\* Questions taken up and not answered yet.
InHand == {run.busy[w] : w \in Workers}

StageInv ==
    /\ IsInjective(run.ids) /\ IsInjective(run.seen) /\ IsInjective(run.done)
    /\ ToSet(run.kept) \subseteq ToSet(run.done)
    /\ run.at = "none" => run = NotRun
    /\ run.at \in {"loading", "running"} => run.runner = "explorer"
    /\ run.at \in {"spawned", "exited"} => run.runner = "python"
    /\ Active => run.status = "running"
    /\ run.status \in {"cancelled", "done"} => run.at = "ended"

\* The coroutines share an index and a list: what lies before the index is in the
\* hands of one of them or has been answered; one that has returned has seen the
\* end or the signal.
SharedInv ==
    run.runner = "explorer" =>
        /\ run.next <= Left
        /\ \A w \in Workers : run.busy[w] < run.next \/ run.busy[w] = Left
        /\ \A v, w \in Workers : run.busy[v] = run.busy[w] /\ run.busy[v] \in DOMAIN run.ids
                                 => v = w
        /\ ToSet(run.done) = {run.ids[i] : i \in (1..(run.next - 1)) \ InHand}
        /\ run.told = ToSet(run.done)
        /\ Left \in InHand => run.aborted \/ run.next = Left

\* The stream of the Python process names what it has selected, in turn; the
\* sidecar keeps of it what it had selected itself.
StreamInv ==
    run.runner = "python" =>
        /\ run.next <= Len(run.seen) + 1
        /\ run.code = None => run.next = 1
        /\ run.told = Asked(run.seen, run.next)
        /\ ToSet(run.done) = run.told \cap ToSet(run.ids)
        /\ run.code = "complete" => run.next = Len(run.seen) + 1

RunInv ==
    /\ StageInv /\ SharedInv /\ StreamInv
    /\ DoneIsComplete /\ CancelKeepsAnswers

EvalInv == TypeOK /\ SetInv /\ RunInv

LEMMA RunFacts ==
    ASSUME TypeOK
    PROVE  /\ run \in Evaluation /\ run.next \in Nat \ {0} /\ run.busy \in [Workers -> Nat]
           /\ run.ids \in Seq(Questions) /\ run.seen \in Seq(Questions)
           /\ run.done \in Seq(Questions) /\ run.kept \in Seq(Questions)
           /\ Len(run.ids) \in Nat /\ Left = Len(run.ids) + 1
           /\ DOMAIN run.ids = 1..Len(run.ids)
           /\ Len(run.seen) \in Nat /\ DOMAIN run.seen = 1..Len(run.seen)
           /\ ToSet(run.ids) = {run.ids[i] : i \in 1..Len(run.ids)}
           /\ ToSet(run.seen) = {run.seen[i] : i \in 1..Len(run.seen)}
           /\ \A i \in 1..Len(run.ids) : run.ids[i] \in Questions
           /\ \A i \in 1..Len(run.seen) : run.seen[i] \in Questions
           /\ ToSet(run.done) \subseteq Questions
<1>1. /\ run \in Evaluation /\ run.next \in Nat \ {0} /\ run.busy \in [Workers -> Nat]
      /\ run.ids \in Seq(Questions) /\ run.seen \in Seq(Questions)
      /\ run.done \in Seq(Questions) /\ run.kept \in Seq(Questions)
    BY DEF TypeOK, Evaluation
<1>2. ASSUME NEW s \in Seq(Questions)
      PROVE  /\ Len(s) \in Nat /\ DOMAIN s = 1..Len(s)
             /\ \A i \in 1..Len(s) : s[i] \in Questions
    BY LenProperties, ElementOfSeq
<1>3. QED BY <1>1, <1>2 DEF Left, ToSet

LEMMA NotRunFacts == NotRun \in Evaluation
BY EmptyFacts DEF NotRun, Evaluation

LEMMA RunStarts == ASSUME Init PROVE TypeOK /\ RunInv
<1>1. run = NotRun
    BY DEF Init
<1>2. TypeOK
    <2>1. NoCommand \in Process
        BY EmptyFacts DEF NoCommand, Process
    <2>2. <<>> \in Seq(Proposal) /\ Len(<<>>) = 0
        BY EmptySeq
    <2>3. QED BY <1>1, <2>1, <2>2, SetStarts, NotRunFacts, EvalAssumption DEF Init, TypeOK
<1>3. run.status = None /\ run.runner = None /\ run.at = "none" /\ run.ids = <<>>
      /\ run.seen = <<>> /\ run.done = <<>> /\ run.kept = <<>>
    BY <1>1 DEF NotRun
<1>4. None \notin {"explorer", "python", "cancelled", "done"}
    BY EvalAssumption
<1>5. StageInv /\ SharedInv /\ StreamInv
    BY <1>1, <1>3, <1>4, EmptyFacts DEF StageInv, SharedInv, StreamInv, Active
<1>6. DoneIsComplete /\ CancelKeepsAnswers
    BY <1>3, <1>4, EmptyFacts DEF DoneIsComplete, CancelKeepsAnswers
<1>7. QED BY <1>2, <1>5, <1>6 DEF RunInv

\* A selection is part of the set, without repetitions.
LEMMA WantedFacts ==
    ASSUME TypeOK, SetInv, NEW sel
    PROVE  Wanted(sel, Lines) \in Seq(Questions) /\ IsInjective(Wanted(sel, Lines))
BY KeepFacts DEF Wanted, TypeOK, SetInv

\* Nothing but the evaluation changes.
LEMMA OnlyRun ==
    ASSUME TypeOK, SetInv, run' \in Evaluation, UNCHANGED <<file, cmd, begun, turn, review>>
    PROVE  TypeOK' /\ SetInv'
BY DEF TypeOK, SetInv, Lines

LEMMA StartRunKeeps ==
    ASSUME EvalInv, NEW runner \in {"explorer", "python"}, NEW sel \in Selections,
           StartRun(runner, sel)
    PROVE  EvalInv'
<1> DEFINE ids == Wanted(sel, Lines)
<1>1. ids \in Seq(Questions) /\ IsInjective(ids)
    BY WantedFacts DEF EvalInv
<1> HIDE DEF ids
<1>2. run' = [NotRun EXCEPT
              !.at = IF runner = "explorer" THEN "loading" ELSE "spawned",
              !.runner = runner, !.sel = sel, !.ids = ids, !.status = "running"]
    BY DEF StartRun, ids
<1>3. /\ run' \in Evaluation
      /\ run'.at = IF runner = "explorer" THEN "loading" ELSE "spawned"
      /\ run'.runner = runner /\ run'.ids = ids /\ run'.status = "running"
      /\ run'.seen = <<>> /\ run'.done = <<>> /\ run'.kept = <<>> /\ run'.told = {}
      /\ run'.next = 1 /\ run'.busy = [w \in Workers |-> 0] /\ run'.code = None
      /\ run'.aborted = FALSE
    BY <1>1, <1>2, NotRunFacts, ZenonT(30) DEF NotRun, Evaluation
<1>4. TypeOK' /\ SetInv'
    BY <1>3, OnlyRun DEF StartRun, EvalInv
<1>5. Len(ids) \in Nat /\ None \notin {"explorer", "python", "cancelled", "done", "complete"}
    BY <1>1, LenProperties, EvalAssumption
<1>6. 1..0 = {}
    OBVIOUS
<1>7. StageInv'
    BY <1>1, <1>3, EmptyFacts DEF StageInv, Active
<1>8. SharedInv'
    <2>1. DOMAIN ids = 1..Len(ids) /\ (1..(1 - 1)) = {}
        BY <1>1, LenProperties
    <2>2. QED BY <1>3, <1>5, <2>1, EmptyFacts DEF SharedInv, InHand, Left
<1>9. StreamInv'
    <2>1. (1..(1 - 1)) = {}
        OBVIOUS
    <2>2. QED BY <1>3, <1>5, <2>1, EmptyFacts DEF StreamInv, Asked
<1>10. DoneIsComplete' /\ CancelKeepsAnswers'
    BY <1>3, EmptyFacts DEF DoneIsComplete, CancelKeepsAnswers
<1>11. QED BY <1>4, <1>7, <1>8, <1>9, <1>10 DEF EvalInv, RunInv

\* Loading, cancelling and the exit of the sidecar leave the answers alone.
LEMMA InterruptKeeps ==
    ASSUME EvalInv, Load \/ Cancel \/ SidecarExits
    PROVE  EvalInv'
<1>1. run \in Evaluation
    BY RunFacts DEF EvalInv
<1>2. /\ run.runner = run'.runner /\ run.ids = run'.ids /\ run.status = run'.status
      /\ run.seen = run'.seen /\ run.done = run'.done /\ run.told = run'.told
      /\ run.next = run'.next /\ run.busy = run'.busy /\ run.code = run'.code
      /\ run.report = run'.report
      /\ run.aborted => run'.aborted
      /\ run' \in Evaluation /\ Active /\ run.status = "running"
      /\ run'.kept \in {run.kept, run.done}
      /\ \/ run'.at = run.at \/ run'.at = "lost"
         \/ run'.at = "running" /\ run.at = "loading"
    <2>1. run.status = "running"
        BY DEF EvalInv, RunInv, StageInv, Load, Cancel, SidecarExits, Active
    <2>2. CASE Load
        BY <1>1, <2>1, <2>2, ZenonT(30) DEF Load, Active, Evaluation
    <2>3. CASE Cancel
        BY <1>1, <2>1, <2>3 DEF Cancel, Active, Evaluation
    <2>4. CASE SidecarExits
        BY <1>1, <2>1, <2>4 DEF SidecarExits, Active, Evaluation
    <2>5. QED BY <2>2, <2>3, <2>4
<1>3. TypeOK' /\ SetInv'
    BY <1>2, OnlyRun DEF EvalInv, Load, Cancel, SidecarExits, Stays
<1>4. StageInv'
    BY <1>2 DEF EvalInv, RunInv, StageInv, Active
<1>5. SharedInv'
    BY <1>2 DEF EvalInv, RunInv, SharedInv, InHand, Left
<1>6. StreamInv'
    BY <1>2 DEF EvalInv, RunInv, StreamInv, Asked
<1>7. DoneIsComplete' /\ CancelKeepsAnswers'
    BY <1>2 DEF EvalInv, RunInv, DoneIsComplete, CancelKeepsAnswers
<1>8. QED BY <1>3, <1>4, <1>5, <1>6, <1>7 DEF EvalInv, RunInv

\* A coroutine takes the next question, or returns.
LEMMA TakeKeeps ==
    ASSUME EvalInv, NEW w \in Workers, Take(w)
    PROVE  EvalInv'
<1> DEFINE over == run.aborted \/ run.next > Len(run.ids)
           b == IF over THEN Left ELSE run.next
           n == IF over THEN run.next ELSE run.next + 1
<1>1. /\ run \in Evaluation /\ run.next \in Nat \ {0} /\ run.busy \in [Workers -> Nat]
      /\ Len(run.ids) \in Nat /\ Left = Len(run.ids) + 1 /\ DOMAIN run.ids = 1..Len(run.ids)
      /\ run.runner = "explorer" /\ run.at = "running" /\ run.busy[w] = 0
      /\ run.status = "running"
    BY RunFacts DEF EvalInv, RunInv, StageInv, Take, Active
<1>2. b \in Nat /\ n \in Nat \ {0}
    BY <1>1
<1>3. run' = [run EXCEPT !.busy[w] = b, !.next = n]
    BY <1>1 DEF Take, Evaluation
<1>4. /\ run' \in Evaluation /\ run'.next = n
      /\ run'.busy \in [Workers -> Nat] /\ run'.busy[w] = b
      /\ \A v \in Workers \ {w} : run'.busy[v] = run.busy[v]
      /\ run'.at = run.at /\ run'.runner = run.runner /\ run'.ids = run.ids
      /\ run'.seen = run.seen /\ run'.done = run.done /\ run'.kept = run.kept
      /\ run'.told = run.told /\ run'.status = run.status /\ run'.report = run.report
      /\ run'.aborted = run.aborted /\ run'.code = run.code
    <2> HIDE DEF b, n
    <2>1. QED BY <1>1, <1>2, <1>3 DEF Evaluation
<1>5. TypeOK' /\ SetInv'
    BY <1>4, OnlyRun DEF EvalInv, Take, Stays
<1>6. StageInv'
    BY <1>1, <1>4 DEF EvalInv, RunInv, StageInv, Active
<1>7. SharedInv'
    <2>0. /\ run.next <= Left
          /\ \A v \in Workers : run.busy[v] < run.next \/ run.busy[v] = Left
          /\ \A u, v \in Workers : run.busy[u] = run.busy[v] /\ run.busy[u] \in 1..Len(run.ids)
                                   => u = v
          /\ ToSet(run.done) = {run.ids[i] : i \in (1..(run.next - 1)) \ InHand}
          /\ run.told = ToSet(run.done)
          /\ Left \in InHand => run.aborted \/ run.next = Left
        BY <1>1 DEF EvalInv, RunInv, SharedInv
    <2>1. Left' = Left
        BY <1>4 DEF Left
    <2>2. \A v \in Workers : run.busy[v] \in Nat
        BY <1>1
    <2>3. n <= Left /\ (b < n \/ b = Left) /\ run.next <= n
        BY <1>1, <2>0
    <2>4. \A v \in Workers : run'.busy[v] < n \/ run'.busy[v] = Left
        <3> HIDE DEF b, n
        <3>1. QED BY <1>1, <1>2, <1>4, <2>0, <2>2, <2>3
    <2>5. \A v \in Workers \ {w} : b \in 1..Len(run.ids) => run.busy[v] # b
        BY <1>1, <2>0, <2>2
    <2>6. ASSUME NEW u \in Workers, NEW v \in Workers, run'.busy[u] = run'.busy[v],
                 run'.busy[u] \in 1..Len(run.ids)
          PROVE  u = v
        <3> HIDE DEF b, n
        <3>1. QED BY <1>4, <2>0, <2>5, <2>6
    <2>7. (1..(n - 1)) \ InHand' = (1..(run.next - 1)) \ InHand
        <3>1. ASSUME NEW i \in 1..(n - 1), i \notin InHand'
              PROVE  i \in 1..(run.next - 1) /\ i \notin InHand
            <4>1. i # b /\ \A v \in Workers : run'.busy[v] # i
                BY <1>4, <3>1 DEF InHand
            <4>2. i \in 1..(run.next - 1) /\ i # 0
                BY <1>1, <2>0, <4>1
            <4>3. \A v \in Workers : run.busy[v] # i
                BY <1>1, <1>4, <4>1, <4>2
            <4>4. QED BY <4>2, <4>3 DEF InHand
        <3>2. ASSUME NEW i \in 1..(run.next - 1), i \notin InHand
              PROVE  i \in 1..(n - 1) /\ i \notin InHand'
            <4>1. i # b /\ i \in 1..(n - 1)
                BY <1>1, <2>0
            <4>2. \A v \in Workers : run'.busy[v] # i
                <5> HIDE DEF b, n
                <5>1. \A v \in Workers : run.busy[v] # i
                    BY <3>2 DEF InHand
                <5>2. QED BY <1>4, <4>1, <5>1
            <4>3. QED BY <4>1, <4>2 DEF InHand
        <3> HIDE DEF n
        <3>3. QED BY <3>1, <3>2
    <2>8. Left \in InHand' => run.aborted \/ n = Left
        <3>1. CASE over
            BY <1>1, <2>0, <3>1
        <3>2. CASE ~over
            <4>1. b # Left
                BY <1>1, <3>2
            <4>2. Left \in InHand' => Left \in InHand
                <5> HIDE DEF b, n
                <5>1. QED BY <1>4, <4>1 DEF InHand
            <4>3. run.next # Left
                BY <1>1, <3>2
            <4>4. QED BY <2>0, <4>2, <4>3
        <3>3. QED BY <3>1, <3>2
    <2> HIDE DEF b, n, over
    <2>9. ToSet(run.done) = {run.ids[i] : i \in (1..(n - 1)) \ InHand'}
        BY <2>0, <2>7
    <2>10. /\ run'.next <= Left' /\ run'.told = ToSet(run'.done)
           /\ \A v \in Workers : run'.busy[v] < run'.next \/ run'.busy[v] = Left'
        BY <1>4, <2>0, <2>1, <2>3, <2>4
    <2>11. \A u, v \in Workers : run'.busy[u] = run'.busy[v] /\ run'.busy[u] \in DOMAIN run'.ids
                                 => u = v
        BY <1>1, <1>4, <2>6
    <2>12. /\ ToSet(run'.done) = {run'.ids[i] : i \in (1..(run'.next - 1)) \ InHand'}
           /\ Left' \in InHand' => run'.aborted \/ run'.next = Left'
        BY <1>4, <2>1, <2>8, <2>9
    <2>13. QED BY <2>10, <2>11, <2>12 DEF SharedInv
<1>8. StreamInv'
    BY <1>1, <1>4 DEF StreamInv
<1>9. DoneIsComplete' /\ CancelKeepsAnswers'
    BY <1>1, <1>4 DEF EvalInv, RunInv, DoneIsComplete, CancelKeepsAnswers
<1>10. QED BY <1>5, <1>6, <1>7, <1>8, <1>9 DEF EvalInv, RunInv

\* The answer of a coroutine enters the list once.
LEMMA AnswerKeeps ==
    ASSUME EvalInv, NEW w \in Workers, Answer(w)
    PROVE  EvalInv'
<1> DEFINE k == run.busy[w]
           q == run.ids[k]
<1>1. /\ run \in Evaluation /\ run.next \in Nat \ {0} /\ run.busy \in [Workers -> Nat]
      /\ run.done \in Seq(Questions)
      /\ Len(run.ids) \in Nat /\ Left = Len(run.ids) + 1 /\ DOMAIN run.ids = 1..Len(run.ids)
      /\ run.runner = "explorer" /\ run.at = "running" /\ k \in 1..Len(run.ids)
      /\ run.status = "running" /\ q \in Questions
    BY RunFacts DEF EvalInv, RunInv, StageInv, Answer, Active
<1>2. PICK cut \in SUBSET Questions :
          run' = [run EXCEPT !.busy[w] = 0, !.done = Append(run.done, q),
                             !.told = run.told \cup {q}, !.cut = cut]
    <2>1. run.cut \in SUBSET Questions /\ run.cut \cup {q} \in SUBSET Questions
        BY <1>1 DEF Evaluation
    <2>2. PICK whole \in {TRUE, ~run.aborted} :
              run' = [run EXCEPT !.busy[w] = 0, !.done = Append(@, q),
                             !.told = @ \cup {q},
                             !.cut = IF whole THEN @ ELSE @ \cup {q}]
        BY DEF Answer
    <2>3. QED BY <1>1, <2>1, <2>2 DEF Evaluation
<1>3. /\ Append(run.done, q) \in Seq(Questions)
      /\ ToSet(Append(run.done, q)) = ToSet(run.done) \cup {q}
      /\ IsInjective(run.done) /\ q \notin ToSet(run.done) => IsInjective(Append(run.done, q))
    <2> HIDE DEF q, k
    <2>1. QED BY <1>1, AppendFacts
<1>4. /\ run' \in Evaluation /\ run'.next = run.next
      /\ run'.busy \in [Workers -> Nat] /\ run'.busy[w] = 0
      /\ \A v \in Workers \ {w} : run'.busy[v] = run.busy[v]
      /\ run'.at = run.at /\ run'.runner = run.runner /\ run'.ids = run.ids
      /\ run'.seen = run.seen /\ run'.done = Append(run.done, q) /\ run'.kept = run.kept
      /\ run'.told = run.told \cup {q} /\ run'.status = run.status
      /\ run'.report = run.report /\ run'.aborted = run.aborted /\ run'.code = run.code
    <2> HIDE DEF q, k
    <2>1. QED BY <1>1, <1>2, <1>3 DEF Evaluation
<1>5. /\ run.next <= Left
      /\ \A v \in Workers : run.busy[v] < run.next \/ run.busy[v] = Left
      /\ \A u, v \in Workers : run.busy[u] = run.busy[v] /\ run.busy[u] \in 1..Len(run.ids)
                               => u = v
      /\ ToSet(run.done) = {run.ids[i] : i \in (1..(run.next - 1)) \ InHand}
      /\ run.told = ToSet(run.done)
      /\ Left \in InHand => run.aborted \/ run.next = Left
    BY <1>1 DEF EvalInv, RunInv, SharedInv
<1>6. k < run.next /\ k \in 1..(run.next - 1) /\ k \in InHand
    BY <1>1, <1>5 DEF InHand
<1>7. q \notin ToSet(run.done) /\ IsInjective(run.done)
    <2>1. IsInjective(run.ids) /\ IsInjective(run.done)
        BY DEF EvalInv, RunInv, StageInv
    <2>2. \A i \in 1..(run.next - 1) : i \in 1..Len(run.ids)
        BY <1>1, <1>5
    <2>3. \A i \in (1..(run.next - 1)) \ InHand : run.ids[i] # q
        BY <1>1, <1>6, <2>1, <2>2 DEF IsInjective
    <2>4. QED BY <1>5, <2>1, <2>3
<1>8. TypeOK' /\ SetInv'
    BY <1>4, OnlyRun DEF EvalInv, Answer, Stays
<1>9. StageInv'
    <2> HIDE DEF q, k
    <2>1. QED BY <1>1, <1>3, <1>4, <1>7 DEF EvalInv, RunInv, StageInv, Active
<1>10. SharedInv'
    <2>1. Left' = Left /\ Left # 0
        BY <1>1, <1>4 DEF Left
    <2>2. \A v \in Workers : run'.busy[v] < run.next \/ run'.busy[v] = Left
        <3>1. 0 < run.next
            BY <1>1
        <3> HIDE DEF k, q
        <3>2. QED BY <1>4, <1>5, <3>1
    <2>3. ASSUME NEW u \in Workers, NEW v \in Workers, run'.busy[u] = run'.busy[v],
                 run'.busy[u] \in 1..Len(run.ids)
          PROVE  u = v
        BY <1>4, <1>5, <2>3
    <2>4. (1..(run.next - 1)) \ InHand' = ((1..(run.next - 1)) \ InHand) \cup {k}
        <3>1. ASSUME NEW i \in 1..(run.next - 1)
              PROVE  i \in InHand' <=> i \in InHand /\ i # k
            <4>1. ASSUME i \in InHand' PROVE i \in InHand /\ i # k
                <5>1. PICK v \in Workers : run'.busy[v] = i
                    BY <4>1 DEF InHand
                <5>2. v # w /\ run.busy[v] = i
                    BY <1>4, <5>1
                <5>3. i # k
                    BY <1>1, <1>5, <5>2
                <5>4. QED BY <5>2, <5>3 DEF InHand
            <4>2. ASSUME i \in InHand, i # k PROVE i \in InHand'
                <5>1. PICK v \in Workers : run.busy[v] = i
                    BY <4>2 DEF InHand
                <5>2. v # w
                    BY <4>2, <5>1
                <5>3. QED BY <1>4, <5>1, <5>2 DEF InHand
            <4>3. QED BY <4>1, <4>2
        <3> HIDE DEF k
        <3>2. QED BY <1>6, <3>1
    <2>5. Left \in InHand' => Left \in InHand
        BY <1>4, <2>1 DEF InHand
    <2> HIDE DEF k
    <2>6. {run.ids[i] : i \in (1..(run.next - 1)) \ InHand'} = ToSet(run.done) \cup {q}
        BY <1>5, <2>4
    <2> HIDE DEF q
    <2>7. QED
        BY <1>1, <1>3, <1>4, <1>5, <2>1, <2>2, <2>3, <2>5, <2>6 DEF SharedInv
<1>11. StreamInv'
    BY <1>1, <1>4 DEF StreamInv
<1>12. q \in ToSet(run.ids)
    BY <1>1 DEF ToSet
<1>13. DoneIsComplete' /\ CancelKeepsAnswers'
    <2>1. IsInjective(Append(run.done, q))
        BY <1>3, <1>7
    <2>2. ToSet(run.done) \cup {q} \subseteq ToSet(run.ids)
        BY <1>12 DEF EvalInv, RunInv, DoneIsComplete
    <2> HIDE DEF k, q
    <2>3. QED BY <1>1, <1>3, <1>4, <2>1, <2>2 DEF DoneIsComplete, CancelKeepsAnswers
<1>14. QED BY <1>8, <1>9, <1>10, <1>11, <1>13 DEF EvalInv, RunInv

\* When the coroutines have returned either all has been answered or the run was
\* cancelled.
LEMMA FinishKeeps ==
    ASSUME EvalInv, Finish
    PROVE  EvalInv'
<1> DEFINE report == ToSet(IF run.aborted THEN run.done ELSE run.ids)
           status == IF run.aborted THEN "cancelled" ELSE "done"
<1>1. /\ run \in Evaluation /\ Len(run.ids) \in Nat /\ Left = Len(run.ids) + 1
      /\ run.runner = "explorer" /\ run.at = "running"
      /\ ToSet(run.ids) = {run.ids[i] : i \in 1..Len(run.ids)}
      /\ ToSet(run.done) \subseteq Questions /\ ToSet(run.ids) \subseteq Questions
    BY RunFacts DEF EvalInv, RunInv, StageInv, Finish
<1>2. report \in SUBSET Questions
    BY <1>1
<1>3. /\ run' \in Evaluation /\ run'.at = "ended" /\ run'.status = status
      /\ run'.report = report
      /\ run'.runner = run.runner /\ run'.ids = run.ids /\ run'.seen = run.seen
      /\ run'.done = run.done /\ run'.kept = run.kept /\ run'.told = run.told
      /\ run'.next = run.next /\ run'.busy = run.busy /\ run'.aborted = run.aborted
      /\ run'.code = run.code
    <2>1. run' = [run EXCEPT !.at = "ended", !.status = status, !.report = report]
        BY DEF Finish
    <2>2. status \in {"cancelled", "done"}
        OBVIOUS
    <2> HIDE DEF report, status
    <2>3. QED BY <1>1, <1>2, <2>1, <2>2 DEF Evaluation
<1>4. TypeOK' /\ SetInv'
    BY <1>3, OnlyRun DEF EvalInv, Finish, Stays
<1>5. StageInv'
    BY <1>1, <1>3 DEF EvalInv, RunInv, StageInv, Active
<1>6. SharedInv'
    BY <1>3 DEF EvalInv, RunInv, SharedInv, InHand, Left
<1>7. StreamInv'
    BY <1>1, <1>3 DEF StreamInv
<1>8. ~run.aborted => ToSet(run.done) = ToSet(run.ids)
    <2>1. SUFFICES ASSUME ~run.aborted PROVE ToSet(run.done) = ToSet(run.ids)
        OBVIOUS
    <2>2. InHand = {Left}
        BY EvalAssumption DEF InHand, Finish
    <2>3. run.next = Left
        BY <1>1, <2>1, <2>2 DEF EvalInv, RunInv, SharedInv
    <2>4. (1..(run.next - 1)) \ InHand = 1..Len(run.ids)
        BY <1>1, <2>2, <2>3
    <2>5. QED BY <1>1, <2>4 DEF EvalInv, RunInv, SharedInv
<1>9. DoneIsComplete'
    BY <1>1, <1>3, <1>8 DEF EvalInv, RunInv, DoneIsComplete
<1>10. CancelKeepsAnswers'
    BY <1>1, <1>3 DEF EvalInv, RunInv, StageInv, SharedInv, CancelKeepsAnswers
<1>11. QED BY <1>4, <1>5, <1>6, <1>7, <1>9, <1>10 DEF EvalInv, RunInv

\* The Python process selects on the set as it then is, or stops.
LEMMA PySelectKeeps ==
    ASSUME EvalInv, PySelect
    PROVE  EvalInv'
<1> DEFINE wanted == Wanted(run.sel, Lines)
<1>1. /\ run \in Evaluation /\ run.at = "spawned" /\ run.code = None
      /\ run.runner = "python" /\ run.status = "running"
    BY RunFacts DEF EvalInv, RunInv, StageInv, PySelect, Active
<1>2. wanted \in Seq(Questions) /\ IsInjective(wanted)
    BY WantedFacts DEF EvalInv
<1> HIDE DEF wanted
<1>3. /\ run' \in Evaluation /\ run'.runner = "python" /\ run'.ids = run.ids
      /\ run'.status = "running" /\ run'.done = run.done /\ run'.kept = run.kept
      /\ run'.told = run.told /\ run'.next = run.next
      /\ run'.report = run.report /\ run'.code \in {"answering", "error"}
      /\ \/ run'.at = "spawned" /\ run'.seen = wanted
         \/ run'.at = "exited" /\ run'.seen = run.seen
    <2>1. CASE run' = [run EXCEPT !.seen = wanted, !.code = "answering"]
        BY <1>1, <1>2, <2>1 DEF Evaluation
    <2>2. CASE run' = [run EXCEPT !.code = "error", !.at = "exited"]
        BY <1>1, <2>2 DEF Evaluation
    <2>3. QED BY <2>1, <2>2 DEF PySelect, wanted
<1>4. TypeOK' /\ SetInv'
    BY <1>3, OnlyRun DEF EvalInv, PySelect, Stays
<1>5. StageInv'
    BY <1>1, <1>2, <1>3 DEF EvalInv, RunInv, StageInv, Active
<1>6. SharedInv'
    BY <1>3 DEF SharedInv
<1>7. run.next = 1 /\ run.told = {} /\ ToSet(run.done) = {}
    <2>1. run.next = 1 /\ run.told = Asked(run.seen, run.next)
          /\ ToSet(run.done) = run.told \cap ToSet(run.ids)
        BY <1>1 DEF EvalInv, RunInv, StreamInv
    <2>2. Asked(run.seen, 1) = {}
        BY DEF Asked
    <2>3. QED BY <2>1, <2>2
<1>8. StreamInv'
    <2>1. Asked(run'.seen, 1) = {}
        BY DEF Asked
    <2>2. Len(run'.seen) \in Nat
        BY <1>3, LenProperties DEF Evaluation
    <2>3. None \notin {"answering", "error"} \/ run'.next = 1
        BY <1>3, <1>7
    <2>4. QED BY <1>3, <1>7, <2>1, <2>2 DEF StreamInv
<1>9. DoneIsComplete' /\ CancelKeepsAnswers'
    BY <1>3 DEF EvalInv, RunInv, DoneIsComplete, CancelKeepsAnswers
<1>10. QED BY <1>4, <1>5, <1>6, <1>8, <1>9 DEF EvalInv, RunInv

\* An answer of the Python process.
LEMMA PyAnswerKeeps ==
    ASSUME EvalInv, PyAnswer
    PROVE  EvalInv'
<1> DEFINE q == run.seen[run.next]
           done == IF q \in ToSet(run.ids) THEN Append(run.done, q) ELSE run.done
<1>1. /\ run \in Evaluation /\ run.at = "spawned" /\ run.code = "answering"
      /\ run.next \in Nat \ {0} /\ run.next <= Len(run.seen) /\ Len(run.seen) \in Nat
      /\ run.runner = "python" /\ run.status = "running"
      /\ run.done \in Seq(Questions) /\ q \in Questions
      /\ DOMAIN run.seen = 1..Len(run.seen)
    BY RunFacts DEF EvalInv, RunInv, StageInv, PyAnswer, Active
<1>2. /\ run.told = Asked(run.seen, run.next)
      /\ ToSet(run.done) = run.told \cap ToSet(run.ids)
      /\ IsInjective(run.seen) /\ IsInjective(run.done)
    BY <1>1 DEF EvalInv, RunInv, StageInv, StreamInv
<1>3. q \notin run.told
    <2>1. \A i \in 1..(run.next - 1) : i \in 1..Len(run.seen) /\ i # run.next
        BY <1>1
    <2>2. run.next \in 1..Len(run.seen)
        BY <1>1
    <2>3. QED BY <1>1, <1>2, <2>1, <2>2 DEF Asked, IsInjective
<1>4. Asked(run.seen, run.next + 1) = run.told \cup {q}
    <2>1. 1..(run.next + 1 - 1) = (1..(run.next - 1)) \cup {run.next}
        BY <1>1
    <2>2. Asked(run.seen, run.next + 1)
          = {run.seen[i] : i \in (1..(run.next - 1)) \cup {run.next}}
        BY <2>1 DEF Asked
    <2>3. {run.seen[i] : i \in (1..(run.next - 1)) \cup {run.next}}
          = {run.seen[i] : i \in 1..(run.next - 1)} \cup {q}
        OBVIOUS
    <2>4. QED BY <1>2, <2>2, <2>3 DEF Asked
<1>5. /\ done \in Seq(Questions) /\ IsInjective(done)
      /\ ToSet(done) = (run.told \cup {q}) \cap ToSet(run.ids)
      /\ ToSet(run.done) \subseteq ToSet(done)
    <2> HIDE DEF q
    <2>1. CASE q \in ToSet(run.ids)
        <3>1. q \notin ToSet(run.done)
            BY <1>2, <1>3
        <3>2. /\ Append(run.done, q) \in Seq(Questions)
              /\ ToSet(Append(run.done, q)) = ToSet(run.done) \cup {q}
              /\ IsInjective(Append(run.done, q))
            BY <1>1, <1>2, <3>1, AppendFacts
        <3>3. QED BY <1>2, <2>1, <3>2
    <2>2. CASE q \notin ToSet(run.ids)
        BY <1>1, <1>2, <2>2
    <2>3. QED BY <2>1, <2>2
<1>6. run' = [run EXCEPT !.next = run.next + 1, !.told = run.told \cup {q}, !.done = done]
    BY <1>1 DEF PyAnswer, Evaluation
<1> HIDE DEF q, done
<1>7. /\ run' \in Evaluation /\ run'.at = run.at /\ run'.runner = run.runner
      /\ run'.ids = run.ids /\ run'.seen = run.seen /\ run'.status = run.status
      /\ run'.done = done /\ run'.kept = run.kept /\ run'.told = run.told \cup {q}
      /\ run'.next = run.next + 1 /\ run'.code = run.code /\ run'.report = run.report
    <2>1. run.told \cup {q} \in SUBSET Questions /\ run.next + 1 \in Nat \ {0}
          /\ done \in Seq(Questions)
        BY <1>1, <1>5 DEF Evaluation
    <2>2. QED BY <1>1, <1>6, <2>1 DEF Evaluation
<1>8. TypeOK' /\ SetInv'
    BY <1>7, OnlyRun DEF EvalInv, PyAnswer, Stays
<1>9. StageInv'
    BY <1>1, <1>5, <1>7 DEF EvalInv, RunInv, StageInv, Active
<1>10. SharedInv'
    BY <1>1, <1>7 DEF SharedInv
<1>11. StreamInv'
    <2>1. run.code # "complete" /\ (run.code = None => run.next = 1)
        BY <1>1 DEF EvalInv, RunInv, StreamInv
    <2>2. run.code # None
        BY <1>1, EvalAssumption
    <2>3. run.next + 1 <= Len(run.seen) + 1
        BY <1>1
    <2>4. QED BY <1>1, <1>4, <1>5, <1>7, <2>1, <2>2, <2>3 DEF StreamInv
<1>12. DoneIsComplete' /\ CancelKeepsAnswers'
    BY <1>1, <1>5, <1>7 DEF DoneIsComplete, CancelKeepsAnswers
<1>13. QED BY <1>8, <1>9, <1>10, <1>11, <1>12 DEF EvalInv, RunInv

\* The stream of the Python process ends.
LEMMA PyExitKeeps ==
    ASSUME EvalInv, PyExit
    PROVE  EvalInv'
<1>1. /\ run \in Evaluation /\ run.at = "spawned" /\ run.code = "answering"
      /\ run.next \in Nat /\ Len(run.seen) \in Nat
      /\ run.runner = "python" /\ run.status = "running"
    BY RunFacts DEF EvalInv, RunInv, StageInv, PyExit, Active
<1>2. /\ run' \in Evaluation /\ run'.at = "exited" /\ run'.runner = run.runner
      /\ run'.ids = run.ids /\ run'.seen = run.seen /\ run'.status = run.status
      /\ run'.done = run.done /\ run'.kept = run.kept /\ run'.told = run.told
      /\ run'.next = run.next /\ run'.report = run.report
      /\ \/ run'.code = "failed"
         \/ run'.code = "complete" /\ run.next > Len(run.seen)
    BY <1>1, ZenonT(30) DEF PyExit, Evaluation
<1>3. TypeOK' /\ SetInv'
    BY <1>2, OnlyRun DEF EvalInv, PyExit, Stays
<1>4. StageInv'
    BY <1>1, <1>2 DEF EvalInv, RunInv, StageInv, Active
<1>5. SharedInv'
    BY <1>1, <1>2 DEF SharedInv
<1>6. StreamInv'
    <2>1. /\ run.next <= Len(run.seen) + 1
          /\ run.told = Asked(run.seen, run.next)
          /\ ToSet(run.done) = run.told \cap ToSet(run.ids)
        BY <1>1 DEF EvalInv, RunInv, StreamInv
    <2>2. run'.code # None
        BY <1>2, EvalAssumption
    <2>3. run'.code = "complete" => run.next = Len(run.seen) + 1
        BY <1>1, <1>2, <2>1
    <2>4. QED BY <1>2, <2>1, <2>2, <2>3 DEF StreamInv
<1>7. DoneIsComplete' /\ CancelKeepsAnswers'
    BY <1>2 DEF EvalInv, RunInv, DoneIsComplete, CancelKeepsAnswers
<1>8. QED BY <1>3, <1>4, <1>5, <1>6, <1>7 DEF EvalInv, RunInv

\* The sidecar closes the evaluation of a Python process.
LEMMA PyFinishKeeps ==
    ASSUME EvalInv, PyFinish
    PROVE  EvalInv'
<1> DEFINE status == IF run.code = "error" THEN "failed"
                     ELSE IF run.aborted THEN "cancelled"
                     ELSE IF run.code = "complete" THEN "done" ELSE "failed"
           report == IF run.code = "complete" THEN ToSet(run.seen)
                     ELSE IF run.aborted THEN ToSet(run.done) ELSE ToSet(run.ids)
<1>1. /\ run \in Evaluation /\ Len(run.seen) \in Nat
      /\ run.runner = "python" /\ run.at = "exited"
      /\ ToSet(run.seen) = {run.seen[i] : i \in 1..Len(run.seen)}
      /\ ToSet(run.done) \subseteq Questions /\ ToSet(run.ids) \subseteq Questions
      /\ ToSet(run.seen) \subseteq Questions
    BY RunFacts DEF EvalInv, RunInv, StageInv, PyFinish
<1>2. report \in SUBSET Questions /\ status \in {"failed", "cancelled", "done"}
    BY <1>1
<1>3. run' = [run EXCEPT !.at = "ended", !.status = status, !.report = report]
    BY DEF PyFinish
<1>4. /\ run.told = Asked(run.seen, run.next)
      /\ ToSet(run.done) = run.told \cap ToSet(run.ids)
      /\ run.code = "complete" => run.next = Len(run.seen) + 1
      /\ ToSet(run.kept) \subseteq ToSet(run.done)
    BY <1>1 DEF EvalInv, RunInv, StreamInv, StageInv
<1>5. run.code = "complete" => report = run.told
    <2>1. Len(run.seen) + 1 - 1 = Len(run.seen)
        BY <1>1
    <2>2. Asked(run.seen, Len(run.seen) + 1) = ToSet(run.seen)
        BY <1>1, <2>1 DEF Asked
    <2>3. QED BY <1>4, <2>2
<1>6. /\ status = "done" => run.code = "complete"
      /\ status = "cancelled" /\ run.code # "complete" => report = ToSet(run.done)
    OBVIOUS
<1> HIDE DEF status, report
<1>7. /\ run' \in Evaluation /\ run'.at = "ended" /\ run'.status = status
      /\ run'.report = report
      /\ run'.runner = run.runner /\ run'.ids = run.ids /\ run'.seen = run.seen
      /\ run'.done = run.done /\ run'.kept = run.kept /\ run'.told = run.told
      /\ run'.next = run.next /\ run'.code = run.code
    BY <1>1, <1>2, <1>3 DEF Evaluation
<1>8. TypeOK' /\ SetInv'
    BY <1>7, OnlyRun DEF EvalInv, PyFinish, Stays
<1>9. StageInv'
    BY <1>1, <1>7 DEF EvalInv, RunInv, StageInv, Active
<1>10. SharedInv'
    BY <1>1, <1>7 DEF SharedInv
<1>11. StreamInv'
    BY <1>7 DEF EvalInv, RunInv, StreamInv
<1>12. DoneIsComplete'
    BY <1>1, <1>4, <1>5, <1>6, <1>7 DEF EvalInv, RunInv, DoneIsComplete
<1>13. CancelKeepsAnswers'
    BY <1>4, <1>5, <1>6, <1>7 DEF CancelKeepsAnswers
<1>14. QED BY <1>8, <1>9, <1>10, <1>11, <1>12, <1>13 DEF EvalInv, RunInv

-----------------------------------------------------------------------------
(* Theorems.                                                               *)

LEMMA EvalStarts == Init => EvalInv
BY SetStarts, RunStarts DEF EvalInv

\* Who changes the question set leaves the evaluation alone.
LEMMA RunStays ==
    ASSUME EvalInv, run' = run, TypeOK', SetInv'
    PROVE  EvalInv'
<1>1. StageInv' /\ SharedInv' /\ StreamInv'
    BY DEF EvalInv, RunInv, StageInv, SharedInv, StreamInv, InHand, Left, Active, Asked
<1>2. DoneIsComplete' /\ CancelKeepsAnswers'
    BY DEF EvalInv, RunInv, DoneIsComplete, CancelKeepsAnswers
<1>3. QED BY <1>1, <1>2 DEF EvalInv, RunInv

LEMMA EvalKept == EvalInv /\ [Next]_vars => EvalInv'
<1> SUFFICES ASSUME EvalInv, [Next]_vars PROVE EvalInv'
    OBVIOUS
<1>1. ASSUME NEW c \in Commands,
             BeginGenerate(c) \/ BeginAdd(c) \/ BeginRemove(c) \/ Command(c)
      PROVE  EvalInv'
    <2>1. TypeOK' /\ SetInv'
        BY <1>1, CommandsKeep DEF EvalInv
    <2>2. run' = run
        BY <1>1 DEF BeginGenerate, BeginAdd, BeginRemove, Begin, Command, ReadGenerate,
           Validate, AppendAccepted, ReadRemove, Write, Goes
    <2>3. QED BY <2>1, <2>2, RunStays
<1>2. CASE BeginTurn \/ EndTurn \/ \E q \in Proposals : Propose(q)
    BY <1>2, ChatKeeps, RunStays DEF EvalInv
<1>3. CASE \E runner \in {"explorer", "python"}, sel \in Selections : StartRun(runner, sel)
    BY <1>3, StartRunKeeps
<1>4. CASE Load \/ Cancel \/ SidecarExits
    BY <1>4, InterruptKeeps
<1>5. CASE \E w \in Workers : Take(w) \/ Answer(w)
    BY <1>5, TakeKeeps, AnswerKeeps
<1>6. CASE Finish \/ PySelect \/ PyAnswer \/ PyExit \/ PyFinish
    BY <1>6, FinishKeeps, PySelectKeeps, PyAnswerKeeps, PyExitKeeps, PyFinishKeeps
<1>7. CASE UNCHANGED vars
    BY <1>7, RunStays DEF EvalInv, TypeOK, SetInv, Lines, vars
<1>8. QED BY <1>1, <1>2, <1>3, <1>4, <1>5, <1>6, <1>7 DEF Next, InSidecar

\* The invariant of the question set and of whatever evaluation is made of it.
THEOREM EvalInvariants == Spec => []EvalInv
BY EvalStarts, EvalKept, PTL DEF Spec

\* The set, the commands, the chat and the evaluation have their types.
THEOREM EvalTypes == Spec => []TypeOK
<1>1. EvalInv => TypeOK
    BY DEF EvalInv
<1>2. QED BY EvalInvariants, <1>1, PTL

\* Commands that add and remove at once never leave a question in the set twice; an
\* evaluation that is done has one answer to each of its questions.
THEOREM EvalsSound == Spec => []EvalSound
<1>1. EvalInv => EvalSound
    BY DEF EvalInv, SetInv, RunInv, EvalSound, IdsUnique
<1>2. QED BY EvalInvariants, <1>1, PTL

\* A cancelled evaluation reports on every answer that was in before, and on nothing
\* that was never asked.
THEOREM EvalsKeepAnswers == Spec => []CancelKeepsAnswers
<1>1. EvalInv => CancelKeepsAnswers
    BY DEF EvalInv, RunInv
<1>2. QED BY EvalInvariants, <1>1, PTL
=============================================================================

--------------------------- MODULE TemplatesProofs ---------------------------
(***************************************************************************)
(* Proofs about Templates: for any directory of templates, any plugins and  *)
(* any number of validations at a time.                                    *)
(***************************************************************************)
EXTENDS Templates, FiniteSetTheorems, SequenceTheorems, WellFoundedInduction, TLAPS

-----------------------------------------------------------------------------
(* Counting up to n, and a fold over a sequence as a function of how much   *)
(* of it is folded.                                                        *)

LEMMA LeastExists ==
    ASSUME NEW S \in SUBSET Nat, S # {}
    PROVE  \E m \in S : \A n \in S : m <= n
<1>1. \E m \in S : \A n \in S : ~(<<n, m>> \in OpToRel(<, Nat))
    BY WFMin, NatLessThanWellFounded
<1>2. PICK m \in S : \A n \in S : ~(<<n, m>> \in OpToRel(<, Nat))
    BY <1>1
<1>3. ASSUME NEW n \in S PROVE m <= n
    <2>1. m \in Nat /\ n \in Nat
        OBVIOUS
    <2>2. n < m => <<n, m>> \in OpToRel(<, Nat)
        BY <2>1 DEF OpToRel
    <2>3. ~(n < m)
        BY <1>2, <2>2, Zenon
    <2>4. QED BY <2>1, <2>3
<1>4. QED BY <1>3

LEMMA CountUp ==
    ASSUME NEW n \in Nat, NEW S, 0 \in S,
           \A k \in 0..n : k \in S /\ k # n => k + 1 \in S
    PROVE  \A k \in 0..n : k \in S
<1> DEFINE B == {k \in 0..n : k \notin S}
<1>1. SUFFICES ASSUME B # {} PROVE FALSE
    OBVIOUS
<1>2. PICK m \in B : \A k \in B : m <= k
    <2>1. B \in SUBSET Nat
        OBVIOUS
    <2> HIDE DEF B
    <2> QED BY <1>1, <2>1, LeastExists
<1>3. m \in 0..n /\ m # 0 /\ m \notin S
    BY <1>2
<1> DEFINE l == m - 1
<1>4. l \in 0..n /\ l # n /\ l + 1 = m /\ ~(m <= l)
    BY <1>3
<1>5. l \in S
    <2> HIDE DEF l
    <2> QED BY <1>2, <1>4
<1> HIDE DEF l
<1> QED BY <1>3, <1>4, <1>5

LEMMA MaxBelow ==
    ASSUME NEW n \in Nat, NEW S \in SUBSET (0..n), S # {}
    PROVE  Max(S) \in S /\ \A k \in S : Max(S) >= k
<1> DEFINE B == {n - k : k \in S}
<1>1. B \in SUBSET Nat /\ B # {}
    <2>1. \A k \in S : n - k \in Nat
        OBVIOUS
    <2> QED BY <2>1
<1>2. PICK l \in B : \A k \in B : l <= k
    <2> HIDE DEF B
    <2> QED BY <1>1, LeastExists
<1>3. PICK m \in S : l = n - m
    BY <1>2
<1>4. \A k \in S : m >= k
    <2>1. TAKE k \in S
    <2>2. n - k \in B
        OBVIOUS
    <2>3. l <= n - k
        BY <1>2, <2>2
    <2> QED BY <1>3, <2>3
<1> QED BY <1>4 DEF Max

\* g[s] folds G over the numbers of s, for every part s of 1..n.
FoldsUp(g, n, T, base, G) ==
    /\ g \in [SUBSET (1..n) -> T]
    /\ \A s \in SUBSET (1..n) : g[s] = IF s = {} THEN base ELSE G[<<g[s \ {Max(s)}], Max(s)>>]

LEMMA FoldsExist ==
    ASSUME NEW n \in Nat, NEW T, NEW base \in T, NEW G \in [T \X (1..n) -> T]
    PROVE  \E g : FoldsUp(g, n, T, base, G)
<1> DEFINE Part(m) == SUBSET (1..m)
           Good(g, m) ==
               /\ g \in [Part(m) -> T]
               /\ \A s \in Part(m) : g[s] = IF s = {} THEN base ELSE G[<<g[s \ {Max(s)}], Max(s)>>]
           S == {m \in 0..n : \E g : Good(g, m)}
<1>1. 0 \in S
    <2>1. Part(0) = {{}}
        OBVIOUS
    <2>2. Good([s \in Part(0) |-> base], 0)
        BY <2>1
    <2>3. \E g : Good(g, 0)
        <3> HIDE DEF Good
        <3> QED BY <2>2
    <2> HIDE DEF Good
    <2> QED BY <2>3
<1>2. ASSUME NEW m \in 0..n, m \in S, m # n PROVE m + 1 \in S
    <2> DEFINE l == m + 1
    <2>0. l \in 1..n /\ l \in 0..n /\ m \in Nat
        BY <1>2
    <2>1. PICK g : Good(g, m)
        BY <1>2
    <2> DEFINE h == [s \in Part(l) |-> IF l \in s THEN G[<<g[s \ {l}], l>>] ELSE g[s]]
    <2>2. ASSUME NEW s \in Part(l), l \notin s PROVE s \in Part(m) /\ h[s] = g[s]
        BY <2>0, <2>2
    <2>3. ASSUME NEW s \in Part(l), l \in s
          PROVE  /\ s \ {l} \in Part(m) /\ s \ {l} \in Part(l) /\ l \notin s \ {l} /\ Max(s) = l
                 /\ h[s] = G[<<g[s \ {l}], l>>]
        <3>1. s \ {l} \in Part(m) /\ s \ {l} \in Part(l)
            BY <2>0, <2>3
        <3>2. \A k \in s : k \in Nat /\ l >= k
            BY <2>0
        <3>3. s \in SUBSET (0..l) /\ l \in Nat
            BY <2>0
        <3>4. Max(s) \in s /\ Max(s) >= l
            <4> HIDE DEF l
            <4> QED BY <3>3, <2>3, MaxBelow
        <3>5. Max(s) = l
            <4> DEFINE top == Max(s)
            <4>1. top \in Nat /\ l \in Nat /\ top >= l /\ l >= top
                BY <3>2, <3>3, <3>4
            <4> HIDE DEF l, top
            <4>2. top = l
                BY <4>1
            <4> QED BY <4>2 DEF top
        <3> QED BY <3>1, <3>5, <2>3
    <2> HIDE DEF l
    <2>4. h \in [Part(l) -> T]
        <3>1. ASSUME NEW s \in Part(l)
              PROVE  (IF l \in s THEN G[<<g[s \ {l}], l>>] ELSE g[s]) \in T
            <4>1. CASE l \in s
                <5>1. s \ {l} \in Part(m)
                    BY <2>3, <4>1
                <5>2. g[s \ {l}] \in T
                    BY <2>1, <5>1
                <5>3. <<g[s \ {l}], l>> \in T \X (1..n)
                    BY <2>0, <5>2
                <5> QED BY <4>1, <5>3
            <4>2. CASE l \notin s
                <5>1. s \in Part(m)
                    BY <2>2, <4>2
                <5> QED BY <2>1, <5>1, <4>2
            <4> QED BY <4>1, <4>2
        <3> QED BY <3>1
    <2>5. ASSUME NEW s \in Part(l)
          PROVE  h[s] = IF s = {} THEN base ELSE G[<<h[s \ {Max(s)}], Max(s)>>]
        <3>1. CASE l \in s
            <4>1. h[s \ {l}] = g[s \ {l}]
                BY <3>1, <2>2, <2>3
            <4> HIDE DEF h
            <4> QED BY <3>1, <2>3, <4>1
        <3>2. CASE l \notin s /\ s # {}
            <4>1. s \in Part(m) /\ s \in SUBSET (0..m) /\ m \in Nat
                <5>1. s \in Part(m)
                    BY <2>2, <3>2
                <5> QED BY <5>1, <2>0
            <4>2. Max(s) \in s
                BY <4>1, <3>2, MaxBelow
            <4>3. h[s] = g[s] /\ h[s \ {Max(s)}] = g[s \ {Max(s)}]
                BY <2>2, <3>2
            <4>4. g[s] = G[<<g[s \ {Max(s)}], Max(s)>>]
                BY <2>1, <4>1, <3>2
            <4> HIDE DEF h
            <4> QED BY <3>2, <4>3, <4>4
        <3>3. CASE s = {}
            BY <2>1, <2>2, <3>3
        <3> QED BY <3>1, <3>2, <3>3
    <2>6. Good(h, l)
        <3> HIDE DEF h
        <3> QED BY <2>4, <2>5
    <2>7. \E f : Good(f, l)
        <3> HIDE DEF Good
        <3> QED BY <2>6
    <2>8. l \in S
        BY <2>0, <2>7
    <2> QED BY <2>8 DEF l
<1>3. n \in S
    <2> HIDE DEF S
    <2> QED BY <1>1, <1>2, CountUp
<1> QED BY <1>3 DEF FoldsUp

\* h folds G, as long as its values are in T.
FoldsIn(h, n, T, base, G) ==
    /\ h[{}] = base
    /\ \A s \in SUBSET (1..n) : s # {} /\ h[s \ {Max(s)}] \in T =>
           h[s] = G[<<h[s \ {Max(s)}], Max(s)>>]

\* f are the values of a fold after one, two, ... n numbers.
Steps(f, n, T, base, G, result) ==
    /\ f \in [0..n -> T] /\ f[0] = base /\ f[n] = result
    /\ \A k \in 1..n : f[k] = G[<<f[k - 1], k>>]

LEMMA FoldSteps ==
    ASSUME NEW n \in Nat, NEW T, NEW base \in T, NEW G \in [T \X (1..n) -> T],
           NEW h, FoldsIn(h, n, T, base, G)
    PROVE  \E f : Steps(f, n, T, base, G, h[1..n])
<1>1. ASSUME NEW k \in 0..n, k # n, h[1..k] \in T
      PROVE  h[1..(k + 1)] = G[<<h[1..k], k + 1>>] /\ h[1..(k + 1)] \in T
    <2> DEFINE s == 1..(k + 1)
               top == Max(s)
    <2>1. s \in SUBSET (0..(k + 1)) /\ s \in SUBSET (1..n) /\ k + 1 \in s /\ k + 1 \in Nat
        BY <1>1
    <2>2. top \in s /\ top >= k + 1
        <3> HIDE DEF s
        <3>1. s # {}
            BY <2>1
        <3> QED BY <2>1, <3>1, MaxBelow
    <2> HIDE DEF top
    <2>3. top = k + 1
        BY <2>2
    <2>4. s \ {top} = 1..k
        BY <2>3
    <2> HIDE DEF s
    <2>5. h[s] = G[<<h[1..k], top>>]
        BY <1>1, <2>1, <2>4 DEF top, FoldsIn
    <2>6. h[s] \in T
        <3>1. <<h[1..k], top>> \in T \X (1..n)
            BY <1>1, <2>1, <2>3
        <3> QED BY <2>5, <3>1
    <2> QED BY <2>3, <2>5, <2>6 DEF s
<1> DEFINE S == {k \in 0..n : h[1..k] \in T}
           f == [k \in 0..n |-> h[1..k]]
<1>2. \A k \in 0..n : k \in S
    <2>1. 0 \in S
        <3>1. 1..0 = {}
            OBVIOUS
        <3> QED BY <3>1 DEF FoldsIn
    <2>2. \A k \in 0..n : k \in S /\ k # n => k + 1 \in S
        <3>1. SUFFICES ASSUME NEW k \in 0..n, k \in S, k # n PROVE k + 1 \in S
            OBVIOUS
        <3>2. h[1..(k + 1)] \in T
            BY <1>1, <3>1
        <3> QED BY <3>1, <3>2
    <2> HIDE DEF S
    <2> QED BY <2>1, <2>2, CountUp
<1>3. f \in [0..n -> T]
    BY <1>2
<1>4. f[0] = base /\ f[n] = h[1..n]
    <2>1. 1..0 = {}
        OBVIOUS
    <2> QED BY <2>1 DEF FoldsIn
<1>5. ASSUME NEW k \in 1..n PROVE f[k] = G[<<f[k - 1], k>>]
    <2> DEFINE l == k - 1
    <2>1. l \in 0..n /\ l # n /\ l + 1 = k
        OBVIOUS
    <2>2. f[k] = h[1..k] /\ f[l] = h[1..l]
        BY <2>1
    <2> HIDE DEF l, f
    <2>3. h[1..l] \in T
        BY <1>2, <2>1
    <2>4. h[1..(l + 1)] = G[<<h[1..l], l + 1>>]
        BY <1>1, <2>1, <2>3
    <2> QED BY <2>1, <2>2, <2>4 DEF l
<1> HIDE DEF f
<1>6. Steps(f, n, T, base, G, h[1..n])
    BY <1>3, <1>4, <1>5 DEF Steps
<1> QED BY <1>6

-----------------------------------------------------------------------------
(* Registration.                                                           *)

Names == STRING \cup Builtin

LEMMA PluginType ==
    ASSUME NEW plugin \in Plugins \cup {None}
    PROVE  /\ Adds(plugin) \in Seq(STRING)
           /\ Range(Adds(plugin)) \in SUBSET STRING
           /\ plugin # None =>
                  plugin.adds \in Seq(STRING) /\ plugin.raises \in BOOLEAN /\ plugin.sound \in BOOLEAN
                  /\ plugin.tested \in BOOLEAN
<1>1. plugin # None =>
          plugin.adds \in Seq(STRING) /\ plugin.raises \in BOOLEAN /\ plugin.sound \in BOOLEAN
          /\ plugin.tested \in BOOLEAN
    BY TemplatesAssumption
<1>2. Adds(plugin) \in Seq(STRING)
    <2>1. <<>> \in Seq(STRING)
        OBVIOUS
    <2> QED BY <1>1, <2>1, Zenon DEF Adds
<1> DEFINE a == Adds(plugin)
<1>3. \A k \in DOMAIN a : a[k] \in STRING
    BY <1>2, ElementOfSeq, LenProperties
<1> QED BY <1>1, <1>2, <1>3 DEF Range

LEMMA RegisterFacts ==
    ASSUME NEW registry, NEW adds \in Seq(STRING)
    PROVE  /\ Register(registry, adds) = [registry |-> Register(registry, adds).registry,
                                          ok |-> Register(registry, adds).ok]
           /\ Register(registry, adds).ok \in BOOLEAN
           /\ Register(registry, adds).ok <=> IsInjective(adds) /\ Range(adds) \cap registry = {}
           /\ Register(registry, adds).ok => Register(registry, adds).registry = registry \cup Range(adds)
           /\ registry \subseteq Register(registry, adds).registry
           /\ Register(registry, adds).registry \subseteq registry \cup Range(adds)
<1> DEFINE Fits(k) == /\ IsInjective(SubSeq(adds, 1, k))
                      /\ Range(SubSeq(adds, 1, k)) \cap registry = {}
           S == {k \in 0..Len(adds) : Fits(k)}
           n == Max(S)
<1>1. Len(adds) \in Nat /\ DOMAIN adds = 1..Len(adds) /\ SubSeq(adds, 1, Len(adds)) = adds
    BY LenProperties, SubSeqFull
<1>2. ASSUME NEW k \in 0..Len(adds)
      PROVE  /\ DOMAIN SubSeq(adds, 1, k) = 1..k
             /\ \A i \in 1..k : SubSeq(adds, 1, k)[i] = adds[i]
             /\ Range(SubSeq(adds, 1, k)) \subseteq Range(adds)
    <2>1. 1 \in 1..(Len(adds) + 1) /\ k \in 0..Len(adds)
        BY <1>1
    <2>2. DOMAIN SubSeq(adds, 1, k) = 1..k /\ \A i \in 1..k : SubSeq(adds, 1, k)[i] = adds[i]
        <3>1. SubSeq(adds, 1, k) \in Seq(STRING) /\ Len(SubSeq(adds, 1, k)) = k
            BY <1>1, <2>1, SubSeqProperties
        <3>2. DOMAIN SubSeq(adds, 1, k) = 1..k
            BY <3>1, LenProperties
        <3>3. \A i \in 1..k : SubSeq(adds, 1, k)[i] = adds[1 + i - 1]
            BY <1>1, <2>1, <3>1, SubSeqProperties
        <3>4. \A i \in 1..k : 1 + i - 1 = i
            OBVIOUS
        <3> QED BY <3>2, <3>3, <3>4
    <2>3. \A i \in 1..k : i \in DOMAIN adds
        BY <1>1
    <2> QED BY <2>2, <2>3 DEF Range
<1>3. 0 \in S
    <2>1. 0 \in 0..Len(adds) /\ 1..0 = {}
        BY <1>1
    <2>2. DOMAIN SubSeq(adds, 1, 0) = {}
        BY <1>2, <2>1
    <2> QED BY <2>1, <2>2 DEF Range, IsInjective
<1>4. n \in S /\ \A k \in S : n >= k
    <2>1. S \in SUBSET (0..Len(adds)) /\ S # {}
        BY <1>3
    <2> HIDE DEF S
    <2> QED BY <1>1, <2>1, MaxBelow
<1>5. Register(registry, adds) =
          [registry |-> registry \cup Range(SubSeq(adds, 1, n)), ok |-> n = Len(adds)]
    BY DEF Register
<1> HIDE DEF n
<1>6. n \in 0..Len(adds)
    BY <1>4
<1>7. n = Len(adds) <=> IsInjective(adds) /\ Range(adds) \cap registry = {}
    <2>1. Len(adds) \in 0..Len(adds)
        BY <1>1
    <2>2. Fits(Len(adds)) <=> IsInjective(adds) /\ Range(adds) \cap registry = {}
        BY <1>1
    <2>3. n = Len(adds) => Fits(Len(adds))
        BY <1>4
    <2>4. Fits(Len(adds)) => n >= Len(adds)
        BY <1>4, <2>1
    <2> HIDE DEF Fits
    <2>5. n >= Len(adds) => n = Len(adds)
        <3> DEFINE top == Len(adds)
        <3>1. top \in Nat /\ n \in 0..top
            BY <1>1, <1>6
        <3> HIDE DEF top
        <3>2. n >= top => n = top
            BY <3>1
        <3> QED BY <3>2 DEF top
    <2> QED BY <2>2, <2>3, <2>4, <2>5
<1>8. Range(SubSeq(adds, 1, n)) \subseteq Range(adds)
    BY <1>2, <1>6
<1> DEFINE r == Register(registry, adds)
<1>9. /\ r = [registry |-> r.registry, ok |-> r.ok] /\ r.ok \in BOOLEAN /\ (r.ok <=> n = Len(adds))
      /\ r.registry = registry \cup Range(SubSeq(adds, 1, n))
    <2> DEFINE new == registry \cup Range(SubSeq(adds, 1, n))
               all == n = Len(adds)
    <2>1. r = [registry |-> new, ok |-> all] /\ all \in BOOLEAN
        BY <1>5
    <2> HIDE DEF r, new, all
    <2>2. r = [registry |-> r.registry, ok |-> r.ok] /\ r.ok \in BOOLEAN /\ (r.ok <=> all) /\ r.registry = new
        BY <2>1
    <2> QED BY <2>2 DEF new, all
<1>10. n = Len(adds) => r.registry = registry \cup Range(adds)
    BY <1>1, <1>9
<1> HIDE DEF r
<1>11. registry \subseteq r.registry /\ r.registry \subseteq registry \cup Range(adds)
    BY <1>8, <1>9
<1> QED BY <1>7, <1>9, <1>10, <1>11 DEF r

\* A plugin that can be imported into an empty registry.
Healthy(plugin) == (plugin # None => ~plugin.raises) /\ IsInjective(Adds(plugin))

LEMMA ImportFacts ==
    ASSUME NEW registry \in SUBSET Names, NEW plugin \in Plugins \cup {None}
    PROVE  /\ Import(registry, plugin) \in [registry : SUBSET Names, ok : BOOLEAN]
           /\ Import(registry, plugin).ok <=> Healthy(plugin) /\ Range(Adds(plugin)) \cap registry = {}
           /\ Import(registry, plugin).ok =>
                  Import(registry, plugin).registry = registry \cup Range(Adds(plugin))
           /\ registry \subseteq Import(registry, plugin).registry
           /\ Import(registry, plugin).registry \subseteq registry \cup Range(Adds(plugin))
<1>1. CASE plugin = None
    <2>1. Range(<<>>) = {} /\ IsInjective(<<>>)
        BY DEF Range, IsInjective
    <2>2. Adds(plugin) = <<>> /\ Import(registry, plugin) = [registry |-> registry, ok |-> TRUE]
        BY <1>1 DEF Adds, Import
    <2> QED BY <1>1, <2>1, <2>2 DEF Healthy
<1>2. CASE plugin # None
    <2> DEFINE r == Register(registry, plugin.adds)
    <2>1. /\ Adds(plugin) = plugin.adds /\ plugin.adds \in Seq(STRING)
          /\ Range(Adds(plugin)) \in SUBSET STRING /\ plugin.raises \in BOOLEAN
        BY <1>2, PluginType DEF Adds
    <2>2. /\ r = [registry |-> r.registry, ok |-> r.ok] /\ r.ok \in BOOLEAN
          /\ r.ok <=> IsInjective(plugin.adds) /\ Range(plugin.adds) \cap registry = {}
          /\ r.ok => r.registry = registry \cup Range(plugin.adds)
          /\ registry \subseteq r.registry /\ r.registry \subseteq registry \cup Range(plugin.adds)
        BY <2>1, RegisterFacts
    <2>3. Import(registry, plugin) = [r EXCEPT !.ok = @ /\ ~plugin.raises]
        BY <1>2 DEF Import
    <2> HIDE DEF r
    <2>4. Import(registry, plugin) = [registry |-> r.registry, ok |-> r.ok /\ ~plugin.raises]
        BY <2>2, <2>3
    <2>5. r.registry \in SUBSET Names
        BY <2>1, <2>2 DEF Names
    <2> DEFINE i == Import(registry, plugin)
    <2>6. i.registry = r.registry /\ i.ok = (r.ok /\ ~plugin.raises) /\ i \in [registry : SUBSET Names, ok : BOOLEAN]
        BY <2>1, <2>2, <2>4, <2>5
    <2> HIDE DEF i
    <2>7. i.ok <=> Healthy(plugin) /\ Range(Adds(plugin)) \cap registry = {}
        BY <1>2, <2>1, <2>2, <2>6 DEF Healthy
    <2>8. i.ok => i.registry = registry \cup Range(Adds(plugin))
        BY <2>1, <2>2, <2>6
    <2>9. registry \subseteq i.registry /\ i.registry \subseteq registry \cup Range(Adds(plugin))
        BY <2>1, <2>2, <2>6
    <2> QED BY <2>6, <2>7, <2>8, <2>9 DEF i
<1> QED BY <1>1, <1>2

-----------------------------------------------------------------------------
(* Discovery.                                                              *)

\* What is on disk.
DiskOK == disk \in [Dirs -> Directories \cup {None}]

Own(s) == Range(Adds(Plugin(s)))

All(slugs) == UNION {Own(s) : s \in slugs}

\* The directories up to the k-th.
Seen(k) == {Slugs[i] : i \in 1..k}

LEMMA PluginOnDisk ==
    ASSUME DiskOK, NEW s \in Dirs
    PROVE  /\ Plugin(s) \in Plugins \cup {None}
           /\ Own(s) \in SUBSET STRING
           /\ disk[s] = None => Plugin(s) = None /\ Own(s) = {}
           /\ Plugin(s) = None => Healthy(Plugin(s)) /\ Own(s) = {}
<1>1. Plugin(s) \in Plugins \cup {None}
    BY DEF DiskOK, Directories, Plugin
<1>2. Own(s) \in SUBSET STRING
    BY <1>1, PluginType DEF Own
<1>3. Plugin(s) = None => Healthy(Plugin(s)) /\ Own(s) = {}
    BY DEF Own, Adds, Range, Healthy, IsInjective
<1>4. disk[s] = None => Plugin(s) = None
    BY DEF Plugin
<1> QED BY <1>1, <1>2, <1>3, <1>4

LEMMA SlugsCounted ==
    /\ Len(Slugs) \in Nat /\ Seen(0) = {} /\ Seen(Len(Slugs)) = Dirs
    /\ \A k \in 1..Len(Slugs) : /\ Slugs[k] \in Dirs /\ Slugs[k] \notin Seen(k - 1)
                               /\ Seen(k) = Seen(k - 1) \cup {Slugs[k]} /\ Seen(k) \subseteq Dirs
<1> DEFINE n == Len(Slugs)
<1>1. n \in Nat /\ DOMAIN Slugs = 1..n
    BY TemplatesAssumption, LenProperties
<1> HIDE DEF n
<1>2. Seen(0) = {}
    BY DEF Seen
<1>3. Seen(n) = Dirs
    BY <1>1 DEF Seen, Dirs, Range
<1>4. ASSUME NEW k \in 1..n
      PROVE  /\ Slugs[k] \in Dirs /\ Slugs[k] \notin Seen(k - 1)
             /\ Seen(k) = Seen(k - 1) \cup {Slugs[k]} /\ Seen(k) \subseteq Dirs
    <2>1. \A i \in 1..k : i \in 1..n
        BY <1>1
    <2>2. Slugs[k] \in Dirs /\ Seen(k) \subseteq Dirs
        BY <1>1, <2>1 DEF Seen, Dirs, Range
    <2>3. \A i \in 1..(k - 1) : i \in 1..n /\ i # k
        BY <1>1
    <2>4. Slugs[k] \notin Seen(k - 1)
        BY <1>1, <2>3, TemplatesAssumption DEF IsInjective, Seen
    <2>5. 1..k = (1..(k - 1)) \cup {k}
        BY <1>1
    <2>6. Seen(k) = Seen(k - 1) \cup {Slugs[k]}
        BY <2>5 DEF Seen
    <2> QED BY <2>2, <2>4, <2>6
<1> QED BY <1>1, <1>2, <1>3, <1>4 DEF n

\* One template more.
LEMMA CoexistOneMore ==
    ASSUME DiskOK, NEW X \in SUBSET Dirs, NEW s \in Dirs \ X, NEW base
    PROVE  Coexist(X \cup {s}, base) <=>
               /\ Coexist(X, base) /\ Healthy(Plugin(s)) /\ Own(s) \cap (base \cup All(X)) = {}
<1>1. ASSUME Coexist(X \cup {s}, base)
      PROVE  Coexist(X, base) /\ Healthy(Plugin(s)) /\ Own(s) \cap (base \cup All(X)) = {}
    <2>1. Healthy(Plugin(s)) /\ Own(s) \cap base = {}
        BY <1>1 DEF Coexist, Healthy, Own
    <2>2. \A t \in X : t \in (X \cup {s}) \ {s} /\ Own(s) \cap Own(t) = {}
        BY <1>1 DEF Coexist, Own
    <2>3. Coexist(X, base)
        BY <1>1 DEF Coexist
    <2> QED BY <2>1, <2>2, <2>3 DEF All
<1>2. ASSUME Coexist(X, base), Healthy(Plugin(s)), Own(s) \cap (base \cup All(X)) = {}
      PROVE  Coexist(X \cup {s}, base)
    <2>1. \A t \in X : Own(s) \cap Own(t) = {}
        BY <1>2 DEF All
    <2>2. ASSUME NEW t \in X \cup {s}
          PROVE  /\ Plugin(t) # None => ~Plugin(t).raises
                 /\ IsInjective(Adds(Plugin(t)))
                 /\ Own(t) \cap base = {}
                 /\ \A u \in (X \cup {s}) \ {t} : Own(t) \cap Own(u) = {}
        <3>1. CASE t = s
            BY <1>2, <2>1, <3>1 DEF Healthy
        <3>2. CASE t \in X
            <4>1. /\ Plugin(t) # None => ~Plugin(t).raises
                  /\ IsInjective(Adds(Plugin(t)))
                  /\ Own(t) \cap base = {}
                  /\ \A u \in X \ {t} : Own(t) \cap Own(u) = {}
                BY <1>2, <3>2 DEF Coexist, Own
            <4> QED BY <2>1, <3>2, <4>1
        <3> QED BY <3>1, <3>2
    <2> QED BY <2>2 DEF Coexist, Own
<1> QED BY <1>1, <1>2

Outcome == [registry : SUBSET Names, ok : BOOLEAN]

\* f is what discovery has come to after one, two, ... all directories.
Discovering(f, R, L) ==
    /\ f \in [0..Len(Slugs) -> Outcome]
    /\ f[0] = [registry |-> R, ok |-> TRUE]
    /\ f[Len(Slugs)] = DiscoverPaths(R, L)
    /\ \A k \in 1..Len(Slugs) :
           f[k] = IF f[k - 1].ok /\ Slugs[k] # L
                  THEN Import(f[k - 1].registry, Plugin(Slugs[k])) ELSE f[k - 1]

LEMMA DiscoverRuns ==
    ASSUME DiskOK, NEW R \in SUBSET Names, NEW L
    PROVE  \E f : Discovering(f, R, L)
<1> DEFINE n == Len(Slugs)
           base == [registry |-> R, ok |-> TRUE]
           Turn(r, k) == IF r.ok /\ Slugs[k] # L THEN Import(r.registry, Plugin(Slugs[k])) ELSE r
           G == [x \in Outcome \X (1..n) |-> Turn(x[1], x[2])]
           Rec(h) == h = [s \in SUBSET (1..n) |->
                             IF s = {} THEN base ELSE Turn(h[s \ {Max(s)}], Max(s))]
           iter == CHOOSE h : Rec(h)
<1>1. n \in Nat /\ DOMAIN Slugs = 1..n /\ \A k \in 1..n : Slugs[k] \in Dirs
    BY SlugsCounted, TemplatesAssumption, LenProperties
<1>2. base \in Outcome
    BY DEF Outcome
<1>3. ASSUME NEW r \in Outcome, NEW k \in 1..n
      PROVE  Turn(r, k) \in Outcome /\ G[<<r, k>>] = Turn(r, k)
    <2>1. Plugin(Slugs[k]) \in Plugins \cup {None}
        BY <1>1, PluginOnDisk
    <2>2. r.registry \in SUBSET Names
        BY DEF Outcome
    <2>3. Import(r.registry, Plugin(Slugs[k])) \in Outcome
        BY <2>1, <2>2, ImportFacts DEF Outcome
    <2> QED BY <2>3
<1>4. G \in [Outcome \X (1..n) -> Outcome]
    <2>1. \A x \in Outcome \X (1..n) : Turn(x[1], x[2]) \in Outcome
        BY <1>3
    <2> HIDE DEF Turn
    <2> QED BY <2>1
<1>5. DiscoverPaths(R, L) = iter[1..n]
    BY <1>1 DEF DiscoverPaths, FoldLeft, MapThenFoldSet
<1> HIDE DEF n, base, Turn, G
<1>6. Rec(iter)
    <2>1. PICK g : FoldsUp(g, n, Outcome, base, G)
        BY <1>1, <1>2, <1>4, FoldsExist
    <2>2. ASSUME NEW s \in SUBSET (1..n)
          PROVE  g[s] = IF s = {} THEN base ELSE Turn(g[s \ {Max(s)}], Max(s))
        <3>1. CASE s = {}
            BY <2>1, <3>1 DEF FoldsUp
        <3>2. CASE s # {}
            <4>1. Max(s) \in s
                <5>1. s \in SUBSET (0..n)
                    BY <1>1
                <5> QED BY <1>1, <3>2, <5>1, MaxBelow
            <4>2. s \ {Max(s)} \in SUBSET (1..n) /\ Max(s) \in 1..n
                BY <4>1
            <4>3. g[s \ {Max(s)}] \in Outcome
                BY <2>1, <4>2 DEF FoldsUp
            <4>4. g[s] = G[<<g[s \ {Max(s)}], Max(s)>>]
                BY <2>1, <3>2 DEF FoldsUp
            <4> QED BY <1>3, <3>2, <4>2, <4>3, <4>4
        <3> QED BY <3>1, <3>2
    <2>3. Rec(g)
        BY <2>1, <2>2 DEF FoldsUp
    <2> HIDE DEF Rec
    <2> QED BY <2>3
<1> HIDE DEF iter
<1>7. iter[{}] = base
    BY <1>6
<1>8. ASSUME NEW s \in SUBSET (1..n), s # {}, iter[s \ {Max(s)}] \in Outcome
      PROVE  iter[s] = G[<<iter[s \ {Max(s)}], Max(s)>>]
    <2>1. iter[s] = Turn(iter[s \ {Max(s)}], Max(s))
        BY <1>6, <1>8
    <2>2. Max(s) \in s
        <3>1. s \in SUBSET (0..n)
            BY <1>1
        <3> QED BY <1>1, <1>8, <3>1, MaxBelow
    <2> QED BY <1>3, <1>8, <2>1, <2>2
<1>9. PICK f : Steps(f, n, Outcome, base, G, iter[1..n])
    <2>1. FoldsIn(iter, n, Outcome, base, G)
        BY <1>7, <1>8 DEF FoldsIn
    <2> HIDE DEF Rec
    <2> QED BY <1>1, <1>2, <1>4, <2>1, FoldSteps
<1>10. ASSUME NEW k \in 1..n PROVE f[k] = Turn(f[k - 1], k)
    <2>1. k - 1 \in 0..n
        BY <1>1
    <2>2. f[k - 1] \in Outcome
        BY <1>9, <2>1 DEF Steps
    <2> QED BY <1>3, <1>9, <2>2 DEF Steps
<1>11. f \in [0..n -> Outcome] /\ f[0] = base /\ f[n] = DiscoverPaths(R, L)
    BY <1>5, <1>9 DEF Steps
<1>12. Discovering(f, R, L)
    BY <1>10, <1>11 DEF n, base, Turn, Discovering
<1> HIDE DEF Rec
<1> QED BY <1>12

\* Discovery succeeds exactly when the templates get in the way neither of each
\* other nor of what is registered already, and then all of them are registered.
LEMMA DiscoverFacts ==
    ASSUME DiskOK, NEW R \in SUBSET Names, NEW L
    PROVE  /\ DiscoverPaths(R, L) \in Outcome
           /\ DiscoverPaths(R, L).ok <=> Coexist(Dirs \ {L}, R)
           /\ DiscoverPaths(R, L).ok => DiscoverPaths(R, L).registry = R \cup All(Dirs \ {L})
<1> DEFINE n == Len(Slugs)
<1>0. PICK f : Discovering(f, R, L)
    BY DiscoverRuns
<1>1. /\ f \in [0..n -> Outcome] /\ f[0] = [registry |-> R, ok |-> TRUE] /\ f[n] = DiscoverPaths(R, L)
      /\ \A k \in 1..n :
             f[k] = IF f[k - 1].ok /\ Slugs[k] # L
                    THEN Import(f[k - 1].registry, Plugin(Slugs[k])) ELSE f[k - 1]
    BY <1>0 DEF Discovering
<1>2. n \in Nat /\ Seen(0) = {} /\ Seen(n) = Dirs
    BY SlugsCounted
<1>3. ASSUME NEW k \in 1..n
      PROVE  /\ Slugs[k] \in Dirs /\ Slugs[k] \notin Seen(k - 1)
             /\ Seen(k) = Seen(k - 1) \cup {Slugs[k]} /\ Seen(k) \subseteq Dirs
    BY SlugsCounted
<1> DEFINE Upto(k) == Seen(k) \ {L}
           So(k) == /\ f[k].ok <=> Coexist(Upto(k), R)
                    /\ f[k].ok => f[k].registry = R \cup All(Upto(k))
           S == {k \in 0..n : So(k)}
<1> HIDE DEF n
<1>4. 0 \in S
    BY <1>1, <1>2 DEF Coexist, All
<1>5. ASSUME NEW k \in 0..n, k \in S, k # n PROVE k + 1 \in S
    <2> DEFINE l == k + 1
               s == Slugs[l]
    <2>1. l \in 1..n /\ l - 1 = k /\ l \in 0..n
        BY <1>2, <1>5
    <2> HIDE DEF l
    <2>2. /\ s \in Dirs /\ s \notin Seen(k) /\ Seen(l) = Seen(k) \cup {s} /\ Seen(k) \subseteq Dirs
        BY <1>3, <2>1
    <2>3. f[k] \in Outcome /\ f[k].registry \in SUBSET Names /\ f[k].ok \in BOOLEAN
        BY <1>1 DEF Outcome
    <2>4. f[l] = IF f[k].ok /\ s # L THEN Import(f[k].registry, Plugin(s)) ELSE f[k]
        BY <1>1, <2>1
    <2>5. So(k)
        BY <1>5
    <2> HIDE DEF s
    <2>6. CASE s = L
        <3>1. Upto(l) = Upto(k)
            BY <2>2, <2>6
        <3>2. f[l] = f[k]
            BY <2>4, <2>6
        <3> HIDE DEF Upto
        <3> QED BY <2>1, <2>5, <3>1, <3>2
    <2>7. CASE s # L
        <3>1. Upto(l) = Upto(k) \cup {s} /\ Upto(k) \in SUBSET Dirs /\ s \in Dirs \ Upto(k)
            BY <2>2, <2>7
        <3> HIDE DEF Upto
        <3>2. Coexist(Upto(l), R) <=>
                  Coexist(Upto(k), R) /\ Healthy(Plugin(s)) /\ Own(s) \cap (R \cup All(Upto(k))) = {}
            <4> DEFINE X == Upto(k)
            <4>1. X \in SUBSET Dirs /\ s \in Dirs \ X
                BY <3>1
            <4> HIDE DEF X
            <4>2. Coexist(X \cup {s}, R) <=>
                      Coexist(X, R) /\ Healthy(Plugin(s)) /\ Own(s) \cap (R \cup All(X)) = {}
                BY <4>1, CoexistOneMore
            <4> QED BY <3>1, <4>2 DEF X
        <3>3. All(Upto(l)) = All(Upto(k)) \cup Own(s)
            BY <3>1 DEF All
        <3>4. CASE ~f[k].ok
            <4>1. f[l] = f[k]
                BY <2>4, <3>4
            <4>2. So(l)
                BY <2>5, <3>2, <3>4, <4>1
            <4> QED BY <2>1, <4>2
        <3>5. CASE f[k].ok
            <4>1. f[l] = Import(f[k].registry, Plugin(s)) /\ f[k].registry = R \cup All(Upto(k))
                BY <2>4, <2>5, <2>7, <3>5
            <4>2. Plugin(s) \in Plugins \cup {None}
                BY <2>2, PluginOnDisk
            <4>3. /\ f[l].ok <=> Healthy(Plugin(s)) /\ Own(s) \cap f[k].registry = {}
                  /\ f[l].ok => f[l].registry = f[k].registry \cup Own(s)
                BY <2>3, <4>1, <4>2, ImportFacts DEF Own
            <4>4. So(l)
                <5> HIDE DEF S
                <5> QED BY <2>5, <3>2, <3>3, <3>5, <4>1, <4>3
            <4> QED BY <2>1, <4>4
        <3> QED BY <2>3, <3>4, <3>5
    <2> QED BY <2>6, <2>7
<1>6. n \in S
    <2> HIDE DEF S
    <2> QED BY <1>2, <1>5, <1>4, CountUp
<1>7. So(n) /\ f[n] \in Outcome
    BY <1>1, <1>2, <1>6
<1> QED BY <1>1, <1>2, <1>7

-----------------------------------------------------------------------------
(* The catalog.                                                            *)

Entries ==
    [registry : SUBSET Names, left : SUBSET Dirs,
     source : UNION {[A -> Dirs \cup {None}] : A \in SUBSET Names}]

ReadIn(X) == {s \in X : Readable(s)}

\* What holds of the catalog once the templates of X were looked at.
Listed(c, X) ==
    /\ Builtin \subseteq c.registry /\ DOMAIN c.source = c.registry \ Builtin
    /\ c.left \subseteq ReadIn(X)
    /\ \A n \in DOMAIN c.source :
           c.source[n] # None => c.source[n] \in X \ c.left /\ n \in Own(c.source[n])
    /\ \A s \in ReadIn(X) \ c.left : \A n \in Own(s) : n \in DOMAIN c.source /\ c.source[n] = s
    /\ c.left = {} => c.registry = Builtin \cup All(ReadIn(X))
    /\ c.left = {} <=> Coexist(ReadIn(X), Builtin)

Blank == [registry |-> Builtin, left |-> {}, source |-> [n \in {} |-> None]]

LEMMA BlankListed == Blank \in Entries /\ Listed(Blank, {})
<1>1. [n \in {} |-> None] \in [{} -> Dirs \cup {None}]
    OBVIOUS
<1>2. {} \in SUBSET Names /\ Builtin \in SUBSET Names
    BY DEF Names
<1>3. Blank \in Entries
    BY <1>1, <1>2 DEF Blank, Entries
<1>4. ReadIn({}) = {} /\ All({}) = {} /\ Coexist({}, Builtin)
    BY DEF ReadIn, All, Coexist
<1> QED BY <1>3, <1>4 DEF Blank, Listed

LEMMA AddType ==
    ASSUME DiskOK, NEW c \in Entries, NEW s \in Dirs
    PROVE  AddToCatalog(c, s) \in Entries
<1>1. CASE ~Readable(s)
    BY <1>1 DEF AddToCatalog
<1>2. CASE Readable(s)
    <2> DEFINE r == Import(c.registry, Plugin(s))
               new == r.registry \ c.registry
               from == [n \in r.registry \ Builtin |->
                           CASE n \in DOMAIN c.source -> c.source[n]
                             [] n \in new /\ r.ok     -> s
                             [] OTHER                 -> None]
    <2>1. AddToCatalog(c, s) = [registry |-> r.registry,
                                left |-> IF r.ok THEN c.left ELSE c.left \cup {s}, source |-> from]
        BY <1>2 DEF AddToCatalog
    <2>2. /\ c.registry \in SUBSET Names /\ c.left \in SUBSET Dirs
          /\ \A n \in DOMAIN c.source : c.source[n] \in Dirs \cup {None}
        BY DEF Entries
    <2>3. r.registry \in SUBSET Names
        <3>1. Plugin(s) \in Plugins \cup {None}
            BY PluginOnDisk
        <3> QED BY <2>2, <3>1, ImportFacts
    <2> HIDE DEF r, new
    <2>4. from \in [r.registry \ Builtin -> Dirs \cup {None}]
        <3>1. ASSUME NEW n \in r.registry \ Builtin
              PROVE  (CASE n \in DOMAIN c.source -> c.source[n]
                        [] n \in new /\ r.ok     -> s
                        [] OTHER                 -> None) \in Dirs \cup {None}
            BY <2>2
        <3> QED BY <3>1
    <2> HIDE DEF from
    <2>5. from \in UNION {[A -> Dirs \cup {None}] : A \in SUBSET Names}
        BY <2>3, <2>4
    <2>6. (IF r.ok THEN c.left ELSE c.left \cup {s}) \in SUBSET Dirs
        BY <2>2
    <2> QED BY <2>1, <2>3, <2>5, <2>6 DEF Entries
<1> QED BY <1>1, <1>2

LEMMA OneMoreListed ==
    ASSUME DiskOK, NEW c \in Entries, NEW X \in SUBSET Dirs, NEW s \in Dirs \ X, Listed(c, X)
    PROVE  AddToCatalog(c, s) \in Entries /\ Listed(AddToCatalog(c, s), X \cup {s})
<1> DEFINE Y == X \cup {s}
<1>1. CASE ~Readable(s)
    <2>1. AddToCatalog(c, s) = c /\ ReadIn(Y) = ReadIn(X)
        BY <1>1 DEF AddToCatalog, ReadIn
    <2> QED BY <2>1 DEF Listed
<1>2. CASE Readable(s)
    <2> DEFINE r == Import(c.registry, Plugin(s))
               d == AddToCatalog(c, s)
               new == r.registry \ c.registry
               from == [n \in r.registry \ Builtin |->
                           CASE n \in DOMAIN c.source -> c.source[n]
                             [] n \in new /\ r.ok     -> s
                             [] OTHER                 -> None]
    <2>1. d = [registry |-> r.registry, left |-> IF r.ok THEN c.left ELSE c.left \cup {s}, source |-> from]
        BY <1>2 DEF AddToCatalog
    <2>2. d.registry = r.registry /\ d.left = (IF r.ok THEN c.left ELSE c.left \cup {s}) /\ d.source = from
        BY <2>1
    <2>3. /\ c.registry \in SUBSET Names /\ c.left \in SUBSET Dirs
          /\ \A n \in DOMAIN c.source : c.source[n] \in Dirs \cup {None}
        BY DEF Entries
    <2>4. /\ r \in Outcome /\ r.registry \in SUBSET Names /\ r.ok \in BOOLEAN
          /\ r.ok <=> Healthy(Plugin(s)) /\ Own(s) \cap c.registry = {}
          /\ r.ok => r.registry = c.registry \cup Own(s)
          /\ c.registry \subseteq r.registry /\ r.registry \subseteq c.registry \cup Own(s)
        <3>1. Plugin(s) \in Plugins \cup {None}
            BY PluginOnDisk
        <3> QED BY <2>3, <3>1, ImportFacts DEF Own, Outcome
    <2>5. \A n \in r.registry \ Builtin :
               /\ n \in DOMAIN c.source => from[n] = c.source[n]
               /\ n \notin DOMAIN c.source /\ n \in new /\ r.ok => from[n] = s
               /\ n \notin DOMAIN c.source /\ ~(n \in new /\ r.ok) => from[n] = None
        <3> HIDE DEF r, new
        <3>1. TAKE n \in r.registry \ Builtin
        <3>2. from[n] = CASE n \in DOMAIN c.source -> c.source[n]
                          [] n \in new /\ r.ok     -> s
                          [] OTHER                 -> None
            OBVIOUS
        <3> HIDE DEF from
        <3>3. CASE n \in DOMAIN c.source
            <4>1. ~(n \in new)
                BY <3>3 DEF Listed, new
            <4> QED BY <3>2, <3>3, <4>1
        <3>4. CASE n \notin DOMAIN c.source
            BY <3>2, <3>4
        <3> QED BY <3>3, <3>4
    <2>6. d \in Entries
        BY AddType
    <2>7. ReadIn(Y) = ReadIn(X) \cup {s} /\ s \notin ReadIn(X) /\ ReadIn(X) \in SUBSET Dirs
        BY <1>2 DEF ReadIn
    <2>8. DOMAIN d.source = d.registry \ Builtin /\ Builtin \subseteq d.registry
        BY <2>2, <2>4 DEF Listed
    <2>9. d.left \subseteq ReadIn(Y)
        <3>1. c.left \subseteq ReadIn(X)
            BY DEF Listed
        <3> QED BY <2>2, <2>7, <3>1
    <2>10. ASSUME NEW n \in DOMAIN d.source, d.source[n] # None
           PROVE  d.source[n] \in Y \ d.left /\ n \in Own(d.source[n])
        <3>1. n \in r.registry \ Builtin /\ d.source[n] = from[n]
            BY <2>2
        <3>2. CASE n \in DOMAIN c.source
            <4>1. d.source[n] = c.source[n]
                BY <3>1, <3>2, <2>5
            <4>2. c.source[n] \in X \ c.left /\ n \in Own(c.source[n])
                BY <2>10, <3>2, <4>1 DEF Listed
            <4> QED BY <2>2, <4>1, <4>2
        <3>3. CASE n \notin DOMAIN c.source /\ n \in new /\ r.ok
            <4>1. d.source[n] = s
                BY <3>1, <3>3
            <4>2. s \notin d.left
                BY <2>2, <2>7, <3>3 DEF Listed
            <4>3. n \in Own(s)
                BY <2>4, <3>3
            <4> QED BY <4>1, <4>2, <4>3
        <3>4. CASE n \notin DOMAIN c.source /\ ~(n \in new /\ r.ok)
            BY <3>1, <3>4, <2>10
        <3> QED BY <3>2, <3>3, <3>4
    <2>11. ASSUME NEW t \in ReadIn(Y) \ d.left, NEW n \in Own(t)
           PROVE  n \in DOMAIN d.source /\ d.source[n] = t
        <3>1. CASE t \in ReadIn(X)
            <4>1. t \in ReadIn(X) \ c.left
                BY <2>2, <2>11, <3>1
            <4>2. n \in DOMAIN c.source /\ c.source[n] = t
                BY <4>1 DEF Listed
            <4>3. n \in r.registry \ Builtin
                BY <2>4, <4>2 DEF Listed
            <4> QED BY <2>2, <2>5, <4>2, <4>3
        <3>2. CASE t = s
            <4>1. r.ok
                BY <2>2, <2>11, <3>2
            <4>2. n \in r.registry /\ n \notin c.registry /\ n \notin Builtin /\ n \notin DOMAIN c.source
                BY <2>4, <3>2, <4>1 DEF Listed
            <4> QED BY <2>2, <3>2, <4>1, <4>2
        <3> QED BY <2>7, <3>1, <3>2
    <2> HIDE DEF r, d, from
    <2>12. All(ReadIn(Y)) = All(ReadIn(X)) \cup Own(s)
        BY <2>7 DEF All
    <2>13. d.left = {} <=> c.left = {} /\ r.ok
        BY <2>2, <2>4
    <2>14. d.left = {} => d.registry = Builtin \cup All(ReadIn(Y))
        BY <2>2, <2>4, <2>12, <2>13 DEF Listed
    <2>15. d.left = {} <=> Coexist(ReadIn(Y), Builtin)
        <3>1. Coexist(ReadIn(Y), Builtin) <=>
                  /\ Coexist(ReadIn(X), Builtin) /\ Healthy(Plugin(s))
                  /\ Own(s) \cap (Builtin \cup All(ReadIn(X))) = {}
            <4> DEFINE Z == ReadIn(X)
            <4>1. Z \in SUBSET Dirs /\ s \in Dirs \ Z
                BY <2>7
            <4> HIDE DEF Z
            <4>2. Coexist(Z \cup {s}, Builtin) <=>
                      Coexist(Z, Builtin) /\ Healthy(Plugin(s)) /\ Own(s) \cap (Builtin \cup All(Z)) = {}
                BY <4>1, CoexistOneMore
            <4> QED BY <2>7, <4>2 DEF Z
        <3> QED BY <2>4, <2>13, <3>1 DEF Listed
    <2>16. Listed(d, Y)
        BY <2>8, <2>9, <2>10, <2>11, <2>14, <2>15 DEF Listed
    <2> QED BY <2>6, <2>16 DEF d
<1> QED BY <1>1, <1>2

\* f is the catalog after one, two, ... all directories.
Listing(f) ==
    /\ f \in [0..Len(Slugs) -> Entries]
    /\ f[0] = Blank /\ f[Len(Slugs)] = Catalog
    /\ \A k \in 1..Len(Slugs) : f[k] = AddToCatalog(f[k - 1], Slugs[k])

LEMMA CatalogRuns ==
    ASSUME DiskOK
    PROVE  \E f : Listing(f)
<1> DEFINE n == Len(Slugs)
           base == Blank
           G == [x \in Entries \X (1..n) |-> AddToCatalog(x[1], Slugs[x[2]])]
           Rec(h) == h = [s \in SUBSET (1..n) |->
                             IF s = {} THEN base ELSE AddToCatalog(h[s \ {Max(s)}], Slugs[Max(s)])]
           iter == CHOOSE h : Rec(h)
<1>1. n \in Nat /\ DOMAIN Slugs = 1..n /\ \A k \in 1..n : Slugs[k] \in Dirs
    BY SlugsCounted, TemplatesAssumption, LenProperties
<1>2. base \in Entries
    BY BlankListed
<1>3. ASSUME NEW c \in Entries, NEW k \in 1..n
      PROVE  AddToCatalog(c, Slugs[k]) \in Entries /\ G[<<c, k>>] = AddToCatalog(c, Slugs[k])
    BY <1>1, AddType
<1>4. G \in [Entries \X (1..n) -> Entries]
    BY <1>3
<1>5. Catalog = iter[1..n]
    BY <1>1 DEF Catalog, FoldLeft, MapThenFoldSet, Blank
<1> HIDE DEF n, base, G
<1>6. Rec(iter)
    <2>1. PICK g : FoldsUp(g, n, Entries, base, G)
        BY <1>1, <1>2, <1>4, FoldsExist
    <2>2. ASSUME NEW s \in SUBSET (1..n)
          PROVE  g[s] = IF s = {} THEN base ELSE AddToCatalog(g[s \ {Max(s)}], Slugs[Max(s)])
        <3>1. CASE s = {}
            BY <2>1, <3>1 DEF FoldsUp
        <3>2. CASE s # {}
            <4>1. Max(s) \in s
                <5>1. s \in SUBSET (0..n)
                    BY <1>1
                <5> QED BY <1>1, <3>2, <5>1, MaxBelow
            <4>2. s \ {Max(s)} \in SUBSET (1..n) /\ Max(s) \in 1..n
                BY <4>1
            <4>3. g[s \ {Max(s)}] \in Entries
                BY <2>1, <4>2 DEF FoldsUp
            <4>4. g[s] = G[<<g[s \ {Max(s)}], Max(s)>>]
                BY <2>1, <3>2 DEF FoldsUp
            <4> QED BY <1>3, <3>2, <4>2, <4>3, <4>4
        <3> QED BY <3>1, <3>2
    <2>3. Rec(g)
        BY <2>1, <2>2 DEF FoldsUp
    <2> HIDE DEF Rec
    <2> QED BY <2>3
<1> HIDE DEF iter
<1>7. iter[{}] = base
    BY <1>6
<1>8. ASSUME NEW s \in SUBSET (1..n), s # {}, iter[s \ {Max(s)}] \in Entries
      PROVE  iter[s] = G[<<iter[s \ {Max(s)}], Max(s)>>]
    <2>1. iter[s] = AddToCatalog(iter[s \ {Max(s)}], Slugs[Max(s)])
        BY <1>6, <1>8
    <2>2. Max(s) \in s
        <3>1. s \in SUBSET (0..n)
            BY <1>1
        <3> QED BY <1>1, <1>8, <3>1, MaxBelow
    <2> QED BY <1>3, <1>8, <2>1, <2>2
<1>9. PICK f : Steps(f, n, Entries, base, G, iter[1..n])
    <2>1. FoldsIn(iter, n, Entries, base, G)
        BY <1>7, <1>8 DEF FoldsIn
    <2> HIDE DEF Rec
    <2> QED BY <1>1, <1>2, <1>4, <2>1, FoldSteps
<1>10. ASSUME NEW k \in 1..n PROVE f[k] = AddToCatalog(f[k - 1], Slugs[k])
    <2>1. k - 1 \in 0..n
        BY <1>1
    <2>2. f[k - 1] \in Entries
        BY <1>9, <2>1 DEF Steps
    <2> QED BY <1>3, <1>9, <2>2 DEF Steps
<1>11. f \in [0..n -> Entries] /\ f[0] = base /\ f[n] = Catalog
    BY <1>5, <1>9 DEF Steps
<1>12. Listing(f)
    BY <1>10, <1>11 DEF n, base, Listing
<1> HIDE DEF Rec
<1> QED BY <1>12

LEMMA CatalogListed ==
    ASSUME DiskOK
    PROVE  Catalog \in Entries /\ Listed(Catalog, Dirs)
<1> DEFINE n == Len(Slugs)
<1>0. PICK f : Listing(f)
    BY CatalogRuns
<1>1. /\ f \in [0..n -> Entries] /\ f[0] = Blank /\ f[n] = Catalog
      /\ \A k \in 1..n : f[k] = AddToCatalog(f[k - 1], Slugs[k])
    BY <1>0 DEF Listing
<1>2. n \in Nat /\ Seen(0) = {} /\ Seen(n) = Dirs
    BY SlugsCounted
<1>3. ASSUME NEW k \in 1..n
      PROVE  /\ Slugs[k] \in Dirs /\ Slugs[k] \notin Seen(k - 1)
             /\ Seen(k) = Seen(k - 1) \cup {Slugs[k]} /\ Seen(k) \subseteq Dirs
    BY SlugsCounted
<1> DEFINE S == {k \in 0..n : Listed(f[k], Seen(k))}
<1> HIDE DEF n
<1>4. 0 \in S
    <2>1. Listed(f[0], Seen(0))
        BY <1>1, <1>2, BlankListed, Zenon
    <2>2. 0 \in 0..n
        BY <1>2
    <2> QED BY <2>1, <2>2
<1>5. ASSUME NEW k \in 0..n, k \in S, k # n PROVE k + 1 \in S
    <2> DEFINE l == k + 1
               s == Slugs[l]
    <2>1. l \in 1..n /\ l - 1 = k /\ l \in 0..n
        BY <1>2, <1>5
    <2> HIDE DEF l
    <2>2. s \in Dirs \ Seen(k) /\ Seen(l) = Seen(k) \cup {s} /\ Seen(k) \in SUBSET Dirs
        BY <1>3, <2>1
    <2>3. f[k] \in Entries /\ Listed(f[k], Seen(k)) /\ f[l] = AddToCatalog(f[k], s)
        BY <1>1, <1>5, <2>1
    <2> HIDE DEF s
    <2>4. Listed(AddToCatalog(f[k], s), Seen(k) \cup {s})
        BY <2>2, <2>3, OneMoreListed
    <2>5. l \in S
        BY <2>1, <2>2, <2>3, <2>4
    <2> QED BY <2>5 DEF l
<1>6. n \in S
    <2> HIDE DEF S
    <2> QED BY <1>2, <1>5, <1>4, CountUp
<1> QED BY <1>1, <1>2, <1>6

\* A run discovers the directory without the packages' playbooks first; it starts
\* exactly when the templates coexist with everything that is built in.
LEMMA RunStarts ==
    ASSUME DiskOK
    PROVE  RunLoads <=> Coexist(Dirs, Builtin)
<1> DEFINE R == Builtin \cap Archetypes
           r == DiscoverPaths(R, None)
<1>1. R \in SUBSET Names /\ Dirs \ {None} = Dirs
    BY TemplatesAssumption DEF Names
<1>2. (r.ok <=> Coexist(Dirs, R)) /\ (r.ok => r.registry = R \cup All(Dirs))
    BY <1>1, DiscoverFacts
<1>3. RunLoads <=> r.ok /\ r.registry \cap (Builtin \ Archetypes) = {}
    BY DEF RunLoads
<1> HIDE DEF r
<1>4. RunLoads <=> Coexist(Dirs, R) /\ All(Dirs) \cap (Builtin \ Archetypes) = {}
    BY <1>2, <1>3
<1>5. ASSUME Coexist(Dirs, R), All(Dirs) \cap (Builtin \ Archetypes) = {}
      PROVE  Coexist(Dirs, Builtin)
    <2>1. \A s \in Dirs : Own(s) \cap (Builtin \ Archetypes) = {} /\ Own(s) \cap R = {}
        BY <1>5 DEF All, Coexist, Own
    <2>2. \A s \in Dirs : Own(s) \cap Builtin = {}
        BY <2>1
    <2> QED BY <1>5, <2>2 DEF Coexist, Own
<1>6. ASSUME Coexist(Dirs, Builtin)
      PROVE  Coexist(Dirs, R) /\ All(Dirs) \cap (Builtin \ Archetypes) = {}
    <2>1. \A s \in Dirs : Own(s) \cap Builtin = {}
        BY <1>6 DEF Coexist, Own
    <2>2. \A s \in Dirs : Own(s) \cap R = {} /\ Own(s) \cap (Builtin \ Archetypes) = {}
        BY <2>1
    <2>3. Coexist(Dirs, R)
        BY <1>6, <2>2 DEF Coexist, Own
    <2> QED BY <2>2, <2>3 DEF All
<1> QED BY <1>4, <1>5, <1>6

\* The catalog of any directory is faithful.
LEMMA CatalogOfAny ==
    ASSUME DiskOK
    PROVE  CatalogFaithful
<1> DEFINE c == Catalog
<1>1. Listed(c, Dirs)
    BY CatalogListed
<1>2. \A n \in DOMAIN c.source :
          c.source[n] # None => n \in Range(Adds(Plugin(c.source[n]))) /\ c.source[n] \notin c.left
    BY <1>1 DEF Listed, Own
<1>3. \A s \in Dirs \ c.left : Readable(s) => \A n \in Range(Adds(Plugin(s))) : c.source[n] = s
    BY <1>1 DEF Listed, Own, ReadIn
<1>4. ASSUME \A s \in Dirs : disk[s] # None => Readable(s)
      PROVE  c.left = {} <=> RunLoads
    <2>1. c.left = {} <=> Coexist(ReadIn(Dirs), Builtin)
        BY <1>1 DEF Listed
    <2> DEFINE X == ReadIn(Dirs)
    <2>2. X \subseteq Dirs /\ \A s \in Dirs \ X : Healthy(Plugin(s)) /\ Own(s) = {}
        BY <1>4, PluginOnDisk DEF ReadIn
    <2> HIDE DEF X
    <2>3. Coexist(Dirs, Builtin) => Coexist(X, Builtin)
        BY <2>2 DEF Coexist
    <2>4. ASSUME Coexist(X, Builtin) PROVE Coexist(Dirs, Builtin)
        <3>1. ASSUME NEW s \in Dirs
              PROVE  /\ Healthy(Plugin(s)) /\ Own(s) \cap Builtin = {}
                     /\ \A t \in Dirs \ {s} : Own(s) \cap Own(t) = {}
            <4>1. CASE s \in X
                <5>1. /\ Healthy(Plugin(s)) /\ Own(s) \cap Builtin = {}
                      /\ \A t \in X \ {s} : Own(s) \cap Own(t) = {}
                    BY <2>4, <4>1 DEF Coexist, Healthy, Own
                <5> QED BY <2>2, <5>1
            <4>2. CASE s \notin X
                BY <2>2, <4>2
            <4> QED BY <4>1, <4>2
        <3> QED BY <3>1 DEF Coexist, Healthy, Own
    <2> QED BY <2>1, <2>3, <2>4, RunStarts DEF X
<1> HIDE DEF c
<1>5. /\ \A n \in DOMAIN c.source :
             c.source[n] # None => n \in Range(Adds(Plugin(c.source[n]))) /\ c.source[n] \notin c.left
      /\ \A s \in Dirs \ c.left : Readable(s) => \A n \in Range(Adds(Plugin(s))) : c.source[n] = s
      /\ (\A s \in Dirs : disk[s] # None => Readable(s)) => (c.left = {} <=> RunLoads)
    BY <1>2, <1>3, <1>4
<1> QED BY <1>5 DEF c, CatalogFaithful

-----------------------------------------------------------------------------
(* The verdict.  What is said of the templates on disk is said of the plugins *)
(* there, so that it stays true as long as those do.                        *)

PluginsOf(d) == [s \in Dirs |-> IF d[s] = None THEN None ELSE d[s].plugin]

OwnOf(P, s) == Range(Adds(P[s]))

CoexistOf(P, X, base) ==
    \A s \in X : /\ Healthy(P[s]) /\ OwnOf(P, s) \cap base = {}
                 /\ \A t \in X \ {s} : OwnOf(P, s) \cap OwnOf(P, t) = {}

SoundOf(P, s) == P[s] # None => P[s].sound

TestedOf(P, s) == P[s] # None /\ P[s].tested

DeservingOf(P, s) ==
    /\ CoexistOf(P, {s}, Builtin) /\ SoundOf(P, s)
    /\ TestedOf(P, s) => CoexistOf(P, Dirs, {})
    /\ OwnOf(P, s) \cap Archetypes # {} => CoexistOf(P, Dirs, Builtin)

VerdictOf(d, f) ==
    \A s \in Dirs : f[s] =>
        /\ d[s].status = "valid" <=> DeservingOf(PluginsOf(d), s)
        /\ CoexistOf(PluginsOf(d), {s}, Builtin) => d[s].provides = OwnOf(PluginsOf(d), s)

\* What a process that nobody disturbs knows at each of its steps.
Knows(P, p) ==
    LET s == p.slug
        alone == CoexistOf(P, {s}, Builtin)
        imported == alone /\ p.provides = OwnOf(P, s) /\ p.imported /\ p.registry = Builtin \cup OwnOf(P, s)
    IN  /\ p.pc # "idle"
        /\ p.pc = "import" => p.provides = {} /\ ~p.imported /\ ~p.ok
        /\ p.pc = "reimport" => p.provides = OwnOf(P, s) /\ ~p.imported /\ ~p.ok
        /\ p.pc = "judge" => imported /\ (p.sound <=> SoundOf(P, s))
        /\ p.pc = "tests" => imported /\ (p.ok <=> SoundOf(P, s))
        /\ p.pc = "dryrun" =>
               imported /\ (p.ok <=> SoundOf(P, s) /\ (TestedOf(P, s) => CoexistOf(P, Dirs, {})))
        /\ p.pc = "read" =>
               /\ p.imported => alone /\ p.provides = OwnOf(P, s)
               /\ ~p.imported => ~alone
               /\ p.ok <=> DeservingOf(P, s)
        /\ p.pc = "write" => (p.ok <=> DeservingOf(P, s)) /\ (alone => p.provides = OwnOf(P, s))

Undisturbed ==
    \A v \in Validators : process[v].quiet =>
        disk[process[v].slug] # None /\ Knows(PluginsOf(disk), process[v])

IInv == TypeOK /\ Undisturbed /\ VerdictHolds

LEMMA NowAndNext ==
    /\ \A s \in Dirs : Plugin(s) = PluginsOf(disk)[s] /\ Own(s) = OwnOf(PluginsOf(disk), s)
    /\ \A X \in SUBSET Dirs : \A base : Coexist(X, base) <=> CoexistOf(PluginsOf(disk), X, base)
    /\ VerdictHolds <=> VerdictOf(disk, fresh)
    /\ VerdictHolds' <=> VerdictOf(disk', fresh')
<1>1. \A s \in Dirs : Plugin(s) = PluginsOf(disk)[s] /\ Own(s) = OwnOf(PluginsOf(disk), s)
    BY DEF Plugin, PluginsOf, Own, OwnOf
<1>2. ASSUME NEW X \in SUBSET Dirs, NEW base
      PROVE  Coexist(X, base) <=> CoexistOf(PluginsOf(disk), X, base)
    <2>1. \A s \in X : Plugin(s) = PluginsOf(disk)[s]
        BY <1>1
    <2> QED BY <2>1 DEF Coexist, CoexistOf, Healthy, OwnOf
<1>3. VerdictHolds <=> VerdictOf(disk, fresh)
    <2>1. ASSUME NEW s \in Dirs
          PROVE  Deserving(s) <=> DeservingOf(PluginsOf(disk), s)
        <3>1. {s} \in SUBSET Dirs /\ Dirs \in SUBSET Dirs /\ Plugin(s) = PluginsOf(disk)[s]
            BY <1>1
        <3> QED BY <3>1, <1>2 DEF Deserving, DeservingOf, Tested, TestedOf, SoundOf, HasArchetype, OwnOf
    <2>2. ASSUME NEW s \in Dirs
          PROVE  /\ Coexist({s}, Builtin) <=> CoexistOf(PluginsOf(disk), {s}, Builtin)
                 /\ Range(Adds(Plugin(s))) = OwnOf(PluginsOf(disk), s)
        BY <1>1, <1>2 DEF OwnOf
    <2> QED BY <2>1, <2>2 DEF VerdictHolds, VerdictOf
<1>4. VerdictHolds' <=> VerdictOf(disk', fresh')
    <2> DEFINE P == PluginsOf(disk')
               PluginX(s) == IF disk'[s] = None THEN None ELSE disk'[s].plugin
               CoexistX(X, base) ==
                   \A s \in X :
                       /\ PluginX(s) # None => ~PluginX(s).raises
                       /\ IsInjective(Adds(PluginX(s)))
                       /\ Range(Adds(PluginX(s))) \cap base = {}
                       /\ \A t \in X \ {s} : Range(Adds(PluginX(s))) \cap Range(Adds(PluginX(t))) = {}
               DeservingX(s) ==
                   /\ CoexistX({s}, Builtin)
                   /\ PluginX(s) # None => PluginX(s).sound
                   /\ PluginX(s) # None /\ PluginX(s).tested => CoexistX(Dirs, {})
                   /\ Range(Adds(PluginX(s))) \cap Archetypes # {} => CoexistX(Dirs, Builtin)
    <2>1. VerdictHolds' <=>
              \A s \in Dirs : fresh'[s] =>
                  /\ disk'[s].status = "valid" <=> DeservingX(s)
                  /\ CoexistX({s}, Builtin) => disk'[s].provides = Range(Adds(PluginX(s)))
        BY DEF VerdictHolds, Deserving, Coexist, Tested, HasArchetype, Plugin, Adds
    <2>2. \A s \in Dirs : PluginX(s) = P[s]
        BY DEF PluginsOf
    <2> HIDE DEF PluginX, P
    <2>3. ASSUME NEW X \in SUBSET Dirs, NEW base
          PROVE  CoexistX(X, base) <=> CoexistOf(P, X, base)
        <3>1. \A s \in X : PluginX(s) = P[s]
            BY <2>2
        <3> QED BY <3>1 DEF CoexistOf, Healthy, OwnOf
    <2> HIDE DEF CoexistX
    <2>4. ASSUME NEW s \in Dirs
          PROVE  /\ DeservingX(s) <=> DeservingOf(P, s)
                 /\ CoexistX({s}, Builtin) <=> CoexistOf(P, {s}, Builtin)
                 /\ Range(Adds(PluginX(s))) = OwnOf(P, s)
        <3>1. {s} \in SUBSET Dirs /\ Dirs \in SUBSET Dirs /\ PluginX(s) = P[s]
            BY <2>2
        <3> QED BY <3>1, <2>3 DEF DeservingOf, TestedOf, SoundOf, OwnOf
    <2> HIDE DEF DeservingX
    <2> QED BY <2>1, <2>4 DEF VerdictOf, P
<1> QED BY <1>1, <1>2, <1>3, <1>4

\* The plugins on disk are plugins, and what discovery says is said of them.
LEMMA PluginsNow ==
    ASSUME DiskOK
    PROVE  /\ PluginsOf(disk) \in [Dirs -> Plugins \cup {None}]
           /\ \A s \in Dirs : OwnOf(PluginsOf(disk), s) \in SUBSET STRING
           /\ \A R \in SUBSET Names, L \in Dirs \cup {None} :
                  DiscoverPaths(R, L).ok <=> CoexistOf(PluginsOf(disk), Dirs \ {L}, R)
<1>1. PluginsOf(disk) \in [Dirs -> Plugins \cup {None}]
    BY DEF DiskOK, Directories, PluginsOf
<1>2. \A s \in Dirs : OwnOf(PluginsOf(disk), s) \in SUBSET STRING
    BY <1>1, PluginType DEF OwnOf
<1>3. ASSUME NEW R \in SUBSET Names, NEW L \in Dirs \cup {None}
      PROVE  DiscoverPaths(R, L).ok <=> CoexistOf(PluginsOf(disk), Dirs \ {L}, R)
    <2>1. DiscoverPaths(R, L).ok <=> Coexist(Dirs \ {L}, R)
        BY DiscoverFacts
    <2>2. Dirs \ {L} \in SUBSET Dirs
        OBVIOUS
    <2> QED BY <2>1, <2>2, NowAndNext
<1> QED BY <1>1, <1>2, <1>3

\* A template that can be imported after the packages' plugins can be so beside
\* the others exactly when all of them can be.
LEMMA CoexistWith ==
    ASSUME NEW P, NEW s \in Dirs, CoexistOf(P, {s}, Builtin)
    PROVE  CoexistOf(P, Dirs \ {s}, Builtin \cup OwnOf(P, s)) <=> CoexistOf(P, Dirs, Builtin)
<1>1. Healthy(P[s]) /\ OwnOf(P, s) \cap Builtin = {}
    BY DEF CoexistOf
<1>2. ASSUME CoexistOf(P, Dirs, Builtin)
      PROVE  CoexistOf(P, Dirs \ {s}, Builtin \cup OwnOf(P, s))
    BY <1>2 DEF CoexistOf
<1>3. ASSUME CoexistOf(P, Dirs \ {s}, Builtin \cup OwnOf(P, s))
      PROVE  CoexistOf(P, Dirs, Builtin)
    <2>1. \A t \in Dirs \ {s} :
              /\ Healthy(P[t]) /\ OwnOf(P, t) \cap Builtin = {} /\ OwnOf(P, t) \cap OwnOf(P, s) = {}
              /\ \A u \in (Dirs \ {s}) \ {t} : OwnOf(P, t) \cap OwnOf(P, u) = {}
        BY <1>3 DEF CoexistOf
    <2>2. ASSUME NEW t \in Dirs
          PROVE  /\ Healthy(P[t]) /\ OwnOf(P, t) \cap Builtin = {}
                 /\ \A u \in Dirs \ {t} : OwnOf(P, t) \cap OwnOf(P, u) = {}
        <3>1. CASE t = s
            BY <1>1, <2>1, <3>1
        <3>2. CASE t # s
            BY <2>1, <3>2
        <3> QED BY <3>1, <3>2
    <2> QED BY <2>2 DEF CoexistOf
<1> QED BY <1>2, <1>3

\* A step of process v alone, after which it knows what it should.
Moves(v) ==
    \E q \in Processes :
        /\ process' = [process EXCEPT ![v] = q]
        /\ q.pc # "idle" => q.slug \in Dirs
        /\ q.quiet => disk[q.slug] # None /\ Knows(PluginsOf(disk), q)
        /\ UNCHANGED <<disk, changes, fresh>>

LEMMA ProcessNow ==
    ASSUME IInv, NEW v \in Validators
    PROVE  /\ DiskOK /\ process[v] \in Processes
           /\ process[v].pc # "idle" =>
                  /\ process[v].slug \in Dirs
                  /\ Plugin(process[v].slug) = PluginsOf(disk)[process[v].slug]
           /\ process[v].quiet => disk[process[v].slug] # None /\ Knows(PluginsOf(disk), process[v])
BY NowAndNext DEF IInv, TypeOK, DiskOK, Undisturbed

LEMMA ImportOf ==
    ASSUME DiskOK, NEW s \in Dirs, NEW R \in SUBSET Names
    PROVE  LET P == PluginsOf(disk)
               r == Import(R, Plugin(s))
           IN  /\ r.registry \in SUBSET Names /\ r.ok \in BOOLEAN
               /\ r.registry \subseteq R \cup OwnOf(P, s) /\ OwnOf(P, s) \in SUBSET STRING
               /\ r.ok <=> CoexistOf(P, {s}, R)
               /\ r.ok => r.registry = R \cup OwnOf(P, s)
<1> DEFINE P == PluginsOf(disk)
           r == Import(R, Plugin(s))
<1>1. Plugin(s) \in Plugins \cup {None} /\ Plugin(s) = P[s] /\ Range(Adds(Plugin(s))) = OwnOf(P, s)
    BY PluginOnDisk, NowAndNext DEF OwnOf
<1>2. /\ r \in [registry : SUBSET Names, ok : BOOLEAN]
      /\ r.ok <=> Healthy(P[s]) /\ OwnOf(P, s) \cap R = {}
      /\ r.ok => r.registry = R \cup OwnOf(P, s)
      /\ r.registry \subseteq R \cup OwnOf(P, s)
    BY <1>1, ImportFacts
<1> HIDE DEF r
<1>3. CoexistOf(P, {s}, R) <=> Healthy(P[s]) /\ OwnOf(P, s) \cap R = {}
    BY DEF CoexistOf
<1>4. OwnOf(P, s) \in SUBSET STRING
    BY PluginsNow
<1> QED BY <1>2, <1>3, <1>4 DEF r

LEMMA BeginMoves ==
    ASSUME IInv, NEW v \in Validators, NEW s \in Dirs, Begin(v, s)
    PROVE  Moves(v)
<1> DEFINE q == [[NoProcess EXCEPT !.slug = s, !.quiet = TRUE] EXCEPT !.pc = "import"]
<1>1. /\ q.pc = "import" /\ q.slug = s /\ q.provides = {} /\ q.imported = FALSE /\ q.ok = FALSE
      /\ q \in Processes
    BY DEF NoProcess, Processes
<1>2. process' = [process EXCEPT ![v] = q] /\ disk[s] # None /\ UNCHANGED <<disk, changes, fresh>>
    BY DEF Begin, Step
<1> HIDE DEF q
<1>3. Knows(PluginsOf(disk), q)
    BY <1>1 DEF Knows
<1> QED BY <1>1, <1>2, <1>3 DEF Moves

LEMMA ImportMoves ==
    ASSUME IInv, NEW v \in Validators, ImportCheck(v)
    PROVE  Moves(v)
<1> DEFINE p == process[v]
           s == p.slug
           P == PluginsOf(disk)
           r == Import({}, Plugin(s))
           ok == r.ok /\ disk[s] # None
           provided == IF ok THEN r.registry ELSE {}
           pc == IF ok THEN "reimport" ELSE "read"
           q == [[p EXCEPT !.provides = provided] EXCEPT !.pc = pc]
<1>1. p.pc = "import" /\ process' = [process EXCEPT ![v] = q] /\ UNCHANGED <<disk, changes, fresh>>
    BY DEF ImportCheck, At, Proc, Step
<1>2. DiskOK /\ p \in Processes /\ s \in Dirs /\ (p.quiet => disk[s] # None /\ Knows(P, p))
    BY <1>1, ProcessNow
<1>3. /\ r.ok \in BOOLEAN /\ r.registry \in SUBSET STRING
      /\ r.ok <=> CoexistOf(P, {s}, {})
      /\ r.ok => r.registry = OwnOf(P, s)
    <2>1. {} \in SUBSET Names
        OBVIOUS
    <2>2. /\ r.registry \subseteq {} \cup OwnOf(P, s) /\ OwnOf(P, s) \in SUBSET STRING
          /\ r.ok \in BOOLEAN /\ (r.ok <=> CoexistOf(P, {s}, {}))
          /\ r.ok => r.registry = {} \cup OwnOf(P, s)
        BY <1>2, <2>1, ImportOf
    <2> HIDE DEF r, P
    <2> QED BY <2>2
<1> HIDE DEF r, P
<1>4. provided \in SUBSET STRING
    BY <1>3
<1> HIDE DEF provided, pc, ok
<1>5. /\ q \in Processes /\ q.pc = pc /\ q.slug = s /\ q.provides = provided
      /\ q.imported = p.imported /\ q.ok = p.ok /\ q.quiet = p.quiet
    BY <1>2, <1>4 DEF Processes, pc
<1> HIDE DEF q
<1>6. ASSUME p.quiet PROVE disk[s] # None /\ Knows(P, q)
    <2>1. disk[s] # None /\ ~p.imported /\ ~p.ok
        BY <1>1, <1>2, <1>6 DEF Knows
    <2>2. CASE ok
        BY <1>3, <1>5, <2>1, <2>2 DEF Knows, pc, provided, ok
    <2>3. CASE ~ok
        <3>1. ~CoexistOf(P, {s}, {})
            BY <1>3, <2>1, <2>3 DEF ok
        <3>2. ~CoexistOf(P, {s}, Builtin)
            BY <3>1 DEF CoexistOf
        <3>3. ~DeservingOf(P, s)
            BY <3>2 DEF DeservingOf
        <3>4. q.pc = "read" /\ q.slug = s /\ ~q.imported /\ ~q.ok
            BY <1>5, <2>1, <2>3 DEF pc
        <3> QED BY <2>1, <3>2, <3>3, <3>4 DEF Knows
    <2> QED BY <2>2, <2>3
<1> QED BY <1>1, <1>2, <1>5, <1>6 DEF Moves, P

LEMMA ReimportMoves ==
    ASSUME IInv, NEW v \in Validators, ImportInProcess(v)
    PROVE  Moves(v)
<1> DEFINE p == process[v]
           s == p.slug
           P == PluginsOf(disk)
           plugin == Plugin(s)
           r == Import(Builtin, plugin)
           ok == r.ok /\ disk[s] # None
           registry == IF ok THEN r.registry ELSE {}
           sound == plugin = None \/ (plugin # None /\ plugin.sound)
           pc == IF ok THEN "judge" ELSE "read"
           q == [[p EXCEPT !.registry = registry, !.imported = ok, !.sound = sound] EXCEPT !.pc = pc]
<1>1. p.pc = "reimport" /\ process' = [process EXCEPT ![v] = q] /\ UNCHANGED <<disk, changes, fresh>>
    BY DEF ImportInProcess, At, Proc, Step
<1>2. DiskOK /\ p \in Processes /\ s \in Dirs /\ (p.quiet => disk[s] # None /\ Knows(P, p))
      /\ plugin = P[s]
    BY <1>1, ProcessNow
<1>3. /\ r.ok \in BOOLEAN /\ r.registry \in SUBSET Names
      /\ r.ok <=> CoexistOf(P, {s}, Builtin)
      /\ r.ok => r.registry = Builtin \cup OwnOf(P, s)
    <2>1. Builtin \in SUBSET Names
        BY DEF Names
    <2> QED BY <1>2, <2>1, ImportOf
<1>4. sound \in BOOLEAN /\ (sound <=> SoundOf(P, s))
    BY <1>2 DEF SoundOf
<1> HIDE DEF r, P
<1>5. registry \in SUBSET Names /\ ok \in BOOLEAN
    BY <1>3
<1> HIDE DEF registry, pc, ok, sound
<1>6. /\ q \in Processes /\ q.pc = pc /\ q.slug = s /\ q.provides = p.provides /\ q.registry = registry
      /\ q.imported = ok /\ q.ok = p.ok /\ q.sound = sound /\ q.quiet = p.quiet
    BY <1>2, <1>4, <1>5 DEF Processes, pc, Names
<1> HIDE DEF q
<1>7. ASSUME p.quiet PROVE disk[s] # None /\ Knows(P, q)
    <2>1. disk[s] # None /\ p.provides = OwnOf(P, s) /\ ~p.ok
        BY <1>1, <1>2, <1>7 DEF Knows
    <2>2. CASE ok
        <3>1. q.pc = "judge" /\ q.imported /\ q.registry = Builtin \cup OwnOf(P, s) /\ CoexistOf(P, {s}, Builtin)
            BY <1>3, <1>6, <2>2 DEF pc, registry, ok
        <3> QED BY <1>4, <1>6, <2>1, <3>1 DEF Knows
    <2>3. CASE ~ok
        <3>1. ~CoexistOf(P, {s}, Builtin)
            BY <1>3, <2>1, <2>3 DEF ok
        <3>2. ~DeservingOf(P, s)
            BY <3>1 DEF DeservingOf
        <3>3. q.pc = "read" /\ q.slug = s /\ ~q.imported /\ ~q.ok
            BY <1>6, <2>1, <2>3 DEF pc
        <3> QED BY <2>1, <3>1, <3>2, <3>3 DEF Knows
    <2> QED BY <2>2, <2>3
<1> QED BY <1>1, <1>2, <1>6, <1>7 DEF Moves, P

LEMMA StopMoves ==
    ASSUME NEW v \in Validators, process' = [process EXCEPT ![v] = NoProcess],
           UNCHANGED <<disk, changes, fresh>>
    PROVE  Moves(v)
BY DEF Moves, NoProcess, Processes


LEMMA JudgeMoves ==
    ASSUME IInv, NEW v \in Validators, Judge(v)
    PROVE  Moves(v)
<1> DEFINE p == process[v]
           s == p.slug
           P == PluginsOf(disk)
           q == [[p EXCEPT !.ok = p.sound, !.sound = FALSE] EXCEPT !.pc = "tests"]
<1>1. p.pc = "judge" /\ UNCHANGED <<disk, changes, fresh>>
    BY DEF Judge, At, Proc
<1>2. \/ process' = [process EXCEPT ![v] = q]
      \/ process' = [process EXCEPT ![v] = NoProcess]
    BY DEF Judge, Proc, Step
<1>3. p \in Processes /\ s \in Dirs /\ (p.quiet => disk[s] # None /\ Knows(P, p))
    BY <1>1, ProcessNow
<1>4. CASE process' = [process EXCEPT ![v] = NoProcess]
    BY <1>1, <1>4, StopMoves
<1>5. CASE process' = [process EXCEPT ![v] = q]
    <2>1. /\ q \in Processes /\ q.pc = "tests" /\ q.slug = s /\ q.provides = p.provides
          /\ q.registry = p.registry /\ q.imported = p.imported /\ q.ok = p.sound /\ q.quiet = p.quiet
        BY <1>3 DEF Processes
    <2> HIDE DEF q, P
    <2>2. p.quiet => disk[s] # None /\ Knows(P, q)
        BY <1>1, <1>3, <2>1 DEF Knows
    <2> QED BY <1>1, <1>3, <1>5, <2>1, <2>2 DEF Moves, P
<1> QED BY <1>2, <1>4, <1>5

LEMMA TestsMoves ==
    ASSUME IInv, NEW v \in Validators, Tests(v)
    PROVE  Moves(v)
<1> DEFINE p == process[v]
           s == p.slug
           P == PluginsOf(disk)
           passed == TestsPass(s)
           q == [[p EXCEPT !.ok = p.ok /\ passed] EXCEPT !.pc = "dryrun"]
<1>1. p.pc = "tests" /\ process' = [process EXCEPT ![v] = q] /\ UNCHANGED <<disk, changes, fresh>>
    BY DEF Tests, At, Proc, Step
<1>2. DiskOK /\ p \in Processes /\ s \in Dirs /\ (p.quiet => disk[s] # None /\ Knows(P, p))
      /\ Plugin(s) = P[s]
    BY <1>1, ProcessNow
<1>3. passed <=> (TestedOf(P, s) => SoundOf(P, s) /\ CoexistOf(P, Dirs, {}))
    <2>1. {} \in SUBSET Names /\ None \in Dirs \cup {None} /\ Dirs \ {None} = Dirs
        BY TemplatesAssumption
    <2>2. DiscoverPaths({}, None).ok <=> CoexistOf(P, Dirs \ {None}, {})
        BY <1>2, <2>1, PluginsNow
    <2>3. P[s] # None => P[s].tested \in BOOLEAN /\ P[s].sound \in BOOLEAN
        BY <1>2, PluginOnDisk, PluginType
    <2> HIDE DEF P
    <2> QED BY <1>2, <2>1, <2>2, <2>3 DEF TestsPass, TestedOf, SoundOf
<1>4. passed \in BOOLEAN
    BY DEF TestsPass
<1> HIDE DEF passed, P
<1>5. /\ q \in Processes /\ q.pc = "dryrun" /\ q.slug = s /\ q.provides = p.provides
      /\ q.registry = p.registry /\ q.imported = p.imported /\ (q.ok <=> p.ok /\ passed) /\ q.quiet = p.quiet
    BY <1>2, <1>4 DEF Processes
<1> HIDE DEF q
<1>6. ASSUME p.quiet PROVE disk[s] # None /\ Knows(P, q)
    <2>1. /\ disk[s] # None /\ CoexistOf(P, {s}, Builtin) /\ p.provides = OwnOf(P, s) /\ p.imported
          /\ p.registry = Builtin \cup OwnOf(P, s) /\ (p.ok <=> SoundOf(P, s))
        BY <1>1, <1>2, <1>6 DEF Knows
    <2>2. q.ok <=> SoundOf(P, s) /\ (TestedOf(P, s) => CoexistOf(P, Dirs, {}))
        BY <1>3, <1>5, <2>1
    <2> QED BY <1>5, <2>1, <2>2 DEF Knows
<1> QED BY <1>1, <1>2, <1>5, <1>6 DEF Moves, P

LEMMA DryRunMoves ==
    ASSUME IInv, NEW v \in Validators, DryRun(v)
    PROVE  Moves(v)
<1> DEFINE p == process[v]
           s == p.slug
           P == PluginsOf(disk)
           runs == \/ p.provides \cap Archetypes = {}
                   \/ DiscoverPaths(p.registry, s).ok
           q == [[p EXCEPT !.registry = {}, !.ok = p.ok /\ runs] EXCEPT !.pc = "read"]
<1>1. p.pc = "dryrun" /\ process' = [process EXCEPT ![v] = q] /\ UNCHANGED <<disk, changes, fresh>>
    BY DEF DryRun, At, Proc, Step
<1>2. DiskOK /\ p \in Processes /\ s \in Dirs /\ (p.quiet => disk[s] # None /\ Knows(P, p))
    BY <1>1, ProcessNow
<1>3. p.registry \in SUBSET Names
    BY <1>2 DEF Processes, Names
<1>4. runs <=> (p.provides \cap Archetypes # {} => CoexistOf(P, Dirs \ {s}, p.registry))
    BY <1>2, <1>3, PluginsNow
<1>5. runs \in BOOLEAN
    <2>1. DiscoverPaths(p.registry, s).ok \in BOOLEAN
        BY <1>2, <1>3, DiscoverFacts DEF Outcome
    <2> QED BY <2>1
<1> HIDE DEF runs, P
<1>6. /\ q \in Processes /\ q.pc = "read" /\ q.slug = s /\ q.provides = p.provides
      /\ q.imported = p.imported /\ (q.ok <=> p.ok /\ runs) /\ q.quiet = p.quiet
    BY <1>2, <1>5 DEF Processes
<1> HIDE DEF q
<1>7. ASSUME p.quiet PROVE disk[s] # None /\ Knows(P, q)
    <2>1. /\ disk[s] # None /\ CoexistOf(P, {s}, Builtin) /\ p.provides = OwnOf(P, s) /\ p.imported
          /\ p.registry = Builtin \cup OwnOf(P, s)
          /\ (p.ok <=> SoundOf(P, s) /\ (TestedOf(P, s) => CoexistOf(P, Dirs, {})))
        BY <1>1, <1>2, <1>7 DEF Knows
    <2>2. CoexistOf(P, Dirs \ {s}, p.registry) <=> CoexistOf(P, Dirs, Builtin)
        BY <1>2, <2>1, CoexistWith
    <2>3. q.ok <=> DeservingOf(P, s)
        BY <1>4, <1>6, <2>1, <2>2 DEF DeservingOf
    <2> QED BY <1>6, <2>1, <2>3 DEF Knows
<1> QED BY <1>1, <1>2, <1>6, <1>7 DEF Moves, P

LEMMA ReadMoves ==
    ASSUME IInv, NEW v \in Validators, ReadTemplate(v)
    PROVE  Moves(v)
<1> DEFINE p == process[v]
           s == p.slug
           P == PluginsOf(disk)
           provided == IF p.imported THEN p.provides ELSE disk[s].provides
           q == [[p EXCEPT !.provides = provided, !.imported = FALSE] EXCEPT !.pc = "write"]
<1>1. p.pc = "read" /\ UNCHANGED <<disk, changes, fresh>>
    BY DEF ReadTemplate, At, Proc
<1>2. \/ Readable(s) /\ process' = [process EXCEPT ![v] = q]
      \/ process' = [process EXCEPT ![v] = NoProcess]
    BY DEF ReadTemplate, Proc, Step
<1>3. DiskOK /\ p \in Processes /\ s \in Dirs /\ (p.quiet => disk[s] # None /\ Knows(P, p))
    BY <1>1, ProcessNow
<1>4. CASE process' = [process EXCEPT ![v] = NoProcess]
    BY <1>1, <1>4, StopMoves
<1>5. CASE Readable(s) /\ process' = [process EXCEPT ![v] = q]
    <2>1. provided \in SUBSET STRING
        <3>1. disk[s] # None /\ disk[s] \in Directories \cup {None}
            BY <1>3, <1>5 DEF Readable, DiskOK
        <3>2. disk[s].provides \in SUBSET STRING
            BY <3>1 DEF Directories
        <3>3. p.provides \in SUBSET STRING
            BY <1>3 DEF Processes
        <3> QED BY <3>2, <3>3
    <2>2. p.imported => provided = p.provides
        OBVIOUS
    <2> HIDE DEF provided
    <2>3. /\ q \in Processes /\ q.pc = "write" /\ q.slug = s /\ q.provides = provided
          /\ q.ok = p.ok /\ q.quiet = p.quiet
        BY <1>3, <2>1 DEF Processes
    <2> HIDE DEF q, P
    <2>4. p.quiet => disk[s] # None /\ Knows(P, q)
        BY <1>1, <1>3, <2>2, <2>3 DEF Knows
    <2> QED BY <1>1, <1>3, <1>5, <2>3, <2>4 DEF Moves, P
<1> QED BY <1>2, <1>4, <1>5

LEMMA MovesKeep ==
    ASSUME IInv, NEW v \in Validators, Moves(v)
    PROVE  IInv'
<1>1. PICK q \in Processes :
          /\ process' = [process EXCEPT ![v] = q]
          /\ q.pc # "idle" => q.slug \in Dirs
          /\ q.quiet => disk[q.slug] # None /\ Knows(PluginsOf(disk), q)
          /\ UNCHANGED <<disk, changes, fresh>>
    BY DEF Moves
<1>2. process \in [Validators -> Processes]
    BY DEF IInv, TypeOK
<1>3. \A w \in Validators : process'[w] = IF w = v THEN q ELSE process[w]
    BY <1>1, <1>2
<1>4. TypeOK'
    BY <1>1, <1>2, <1>3 DEF IInv, TypeOK
<1>5. Undisturbed'
    <2> DEFINE P == PluginsOf(disk)
    <2>1. \A w \in Validators : process'[w].quiet =>
              disk[process'[w].slug] # None /\ Knows(P, process'[w])
        <3> HIDE DEF P
        <3>1. \A w \in Validators : process[w].quiet =>
                  disk[process[w].slug] # None /\ Knows(P, process[w])
            BY DEF IInv, Undisturbed, P
        <3>2. q.quiet => disk[q.slug] # None /\ Knows(P, q)
            BY <1>1 DEF P
        <3> QED BY <1>3, <3>1, <3>2
    <2>2. disk' = disk
        BY <1>1
    <2> QED BY <2>1, <2>2 DEF Undisturbed, Knows, PluginsOf
<1>6. VerdictHolds'
    BY <1>1, NowAndNext DEF IInv
<1> QED BY <1>4, <1>5, <1>6 DEF IInv

LEMMA WriteKeeps ==
    ASSUME IInv, NEW v \in Validators, WriteValidation(v)
    PROVE  IInv'
<1> DEFINE p == process[v]
           s == p.slug
           P == PluginsOf(disk)
           remade == disk[s] = None
           written == [plugin   |-> Plugin(s),
                       status   |-> IF p.ok THEN "valid" ELSE "invalid",
                       provides |-> p.provides]
<1>1. /\ p.pc = "write" /\ disk' = [disk EXCEPT ![s] = written] /\ changes' = changes
      /\ process' = [w \in Validators |-> IF w = v THEN NoProcess
                                          ELSE [process[w] EXCEPT !.quiet = @ /\ ~remade]]
      /\ fresh' = [t \in Dirs |-> ~remade /\ IF t = s THEN p.quiet ELSE fresh[t]]
    BY DEF WriteValidation, At, Proc, Ended
<1>2. /\ DiskOK /\ p \in Processes /\ s \in Dirs /\ (p.quiet => disk[s] # None /\ Knows(P, p))
      /\ Plugin(s) = P[s]
    BY <1>1, ProcessNow
<1>3. written \in Directories /\ written # None /\ written.plugin = P[s]
      /\ written.provides = p.provides /\ (written.status = "valid" <=> p.ok)
    <2>1. Plugin(s) \in Plugins \cup {None}
        BY <1>2, PluginOnDisk
    <2>2. p.provides \in SUBSET STRING /\ p.ok \in BOOLEAN
        BY <1>2 DEF Processes
    <2>3. written \in Directories
        BY <2>1, <2>2 DEF Directories, Statuses
    <2>4. written # None
        BY <2>3, TemplatesAssumption
    <2> QED BY <1>2, <2>3, <2>4
<1> HIDE DEF written
<1>4. \A t \in Dirs : disk'[t] = IF t = s THEN written ELSE disk[t]
    BY <1>1, <1>2 DEF DiskOK
<1>5. PluginsOf(disk') = P
    <2>1. \A t \in Dirs : (IF disk'[t] = None THEN None ELSE disk'[t].plugin) = P[t]
        BY <1>2, <1>3, <1>4 DEF PluginsOf
    <2> QED BY <2>1 DEF PluginsOf
<1> HIDE DEF P
<1>6. \A w \in Validators : process[w] \in Processes /\ (process[w].pc # "idle" => process[w].slug \in Dirs)
    BY DEF IInv, TypeOK
<1>7. ASSUME NEW w \in Validators, w # v
      PROVE  /\ process'[w] \in Processes /\ process'[w].pc = process[w].pc
             /\ process'[w].slug = process[w].slug
             /\ process'[w].quiet => process[w].quiet /\ process'[w] = process[w]
    <2>1. process'[w] = [process[w] EXCEPT !.quiet = process[w].quiet /\ ~remade]
        BY <1>1, <1>7
    <2>2. process[w] \in Processes
        BY <1>6
    <2> DEFINE r == process[w]
    <2>3. r.quiet \in BOOLEAN /\ r = [r EXCEPT !.quiet = r.quiet]
        BY <2>2 DEF Processes
    <2>4. CASE remade
        <3>1. process'[w] = [r EXCEPT !.quiet = FALSE]
            BY <2>1, <2>4
        <3> QED BY <2>2, <3>1 DEF Processes
    <2>5. CASE ~remade
        <3>1. (r.quiet /\ ~remade) = r.quiet
            BY <2>3, <2>5
        <3>2. process'[w] = r
            BY <2>1, <2>3, <3>1
        <3> QED BY <2>2, <3>2
    <2> QED BY <2>4, <2>5
<1>8. process'[v] = NoProcess /\ NoProcess \in Processes
    BY <1>1 DEF NoProcess, Processes
<1>9. TypeOK'
    <2>1. disk' \in [Dirs -> Directories \cup {None}]
        BY <1>1, <1>2, <1>3 DEF DiskOK
    <2>2. process' \in [Validators -> Processes]
        BY <1>1, <1>7, <1>8
    <2>3. \A w \in Validators : process'[w].pc # "idle" => process'[w].slug \in Dirs
        BY <1>6, <1>7, <1>8 DEF NoProcess
    <2>4. fresh' \in [Dirs -> BOOLEAN]
        <3>1. fresh \in [Dirs -> BOOLEAN] /\ p.quiet \in BOOLEAN
            BY <1>2 DEF IInv, TypeOK, Processes
        <3> QED BY <1>1, <3>1
    <2>5. changes' \in Nat
        BY <1>1 DEF IInv, TypeOK
    <2> QED BY <2>1, <2>2, <2>3, <2>4, <2>5 DEF TypeOK
<1>10. Undisturbed'
    <2>1. ASSUME NEW w \in Validators, process'[w].quiet
          PROVE  disk'[process'[w].slug] # None /\ Knows(P, process'[w])
        <3>1. w # v
            BY <1>8, <2>1 DEF NoProcess
        <3>2. process[w].quiet /\ process'[w] = process[w]
            BY <1>7, <2>1, <3>1
        <3>3. disk[process[w].slug] # None /\ Knows(P, process[w])
            BY <3>2 DEF IInv, Undisturbed, P
        <3>4. process[w].slug \in Dirs
            BY <1>6, <3>3 DEF Knows
        <3> QED BY <1>3, <1>4, <3>2, <3>3, <3>4
    <2>2. \A w \in Validators : process'[w].quiet =>
              disk'[process'[w].slug] # None /\ Knows(PluginsOf(disk'), process'[w])
        BY <1>5, <2>1
    <2> QED BY <2>2 DEF Undisturbed, Knows, PluginsOf
<1>11. VerdictOf(disk', fresh')
    <2>1. ASSUME NEW t \in Dirs, fresh'[t]
          PROVE  /\ disk'[t].status = "valid" <=> DeservingOf(P, t)
                 /\ CoexistOf(P, {t}, Builtin) => disk'[t].provides = OwnOf(P, t)
        <3>1. CASE t = s
            <4>1. p.quiet
                BY <1>1, <2>1, <3>1
            <4>2. (p.ok <=> DeservingOf(P, s)) /\ (CoexistOf(P, {s}, Builtin) => p.provides = OwnOf(P, s))
                BY <1>1, <1>2, <4>1 DEF Knows
            <4> QED BY <1>3, <1>4, <3>1, <4>2
        <3>2. CASE t # s
            <4>1. fresh[t] /\ disk'[t] = disk[t]
                BY <1>1, <1>4, <2>1, <3>2
            <4>2. VerdictOf(disk, fresh)
                BY NowAndNext DEF IInv
            <4> QED BY <4>1, <4>2 DEF VerdictOf, P
        <3> QED BY <3>1, <3>2
    <2> QED BY <1>5, <2>1 DEF VerdictOf
<1> QED BY <1>9, <1>10, <1>11, NowAndNext DEF IInv

\* Whatever is changed on disk, no verdict counts and no process is undisturbed.
LEMMA ChangeKeeps ==
    ASSUME IInv, Changed, disk' \in [Dirs -> Directories \cup {None}]
    PROVE  IInv'
<1>1. \A w \in Validators : process[w] \in Processes /\ (process[w].pc # "idle" => process[w].slug \in Dirs)
    BY DEF IInv, TypeOK
<1>2. ASSUME NEW w \in Validators
      PROVE  /\ process'[w] \in Processes /\ process'[w].pc = process[w].pc
             /\ process'[w].slug = process[w].slug /\ process'[w].quiet = FALSE
    <2>1. process'[w] = [process[w] EXCEPT !.quiet = FALSE]
        BY DEF Changed
    <2>2. process[w] \in Processes
        BY <1>1
    <2> QED BY <2>1, <2>2 DEF Processes
<1>3. process' \in [Validators -> Processes]
    BY <1>2 DEF Changed
<1>4. changes' \in Nat /\ fresh' = [s \in Dirs |-> FALSE]
    BY DEF Changed, IInv, TypeOK
<1>5. TypeOK'
    BY <1>1, <1>2, <1>3, <1>4 DEF TypeOK
<1>6. Undisturbed'
    BY <1>2 DEF Undisturbed
<1>7. VerdictOf(disk', fresh')
    BY <1>4 DEF VerdictOf
<1> QED BY <1>5, <1>6, <1>7, NowAndNext DEF IInv

LEMMA NextKeeps ==
    ASSUME IInv, [Next]_vars
    PROVE  IInv'
<1>0. DiskOK
    BY DEF IInv, TypeOK, DiskOK
<1>1. ASSUME NEW v \in Validators, Validate(v) PROVE IInv'
    <2>1. CASE WriteValidation(v)
        BY <2>1, WriteKeeps
    <2>2. CASE ~WriteValidation(v)
        <3>1. Moves(v)
            BY <1>1, <2>2, ImportMoves, ReimportMoves, JudgeMoves, TestsMoves, DryRunMoves, ReadMoves
               DEF Validate
        <3> QED BY <3>1, MovesKeep
    <2> QED BY <2>1, <2>2
<1>2. ASSUME NEW v \in Validators, NEW s \in Dirs, Begin(v, s) PROVE IInv'
    BY <1>2, BeginMoves, MovesKeep
<1>3. ASSUME NEW s \in Dirs, Scaffold(s) PROVE IInv'
    <2>1. Scaffolded(s) \in Directories
        BY DEF Scaffolded, Directories, Statuses, Plugins
    <2> QED BY <1>0, <1>3, <2>1, ChangeKeeps DEF Scaffold, DiskOK
<1>4. ASSUME NEW s \in Dirs, Edit(s) PROVE IInv'
    <2>1. PICK q \in Drafts : disk' = [disk EXCEPT ![s].plugin = q]
        BY <1>4 DEF Edit
    <2>2. disk[s] \in Directories
        BY <1>0, <1>4 DEF Edit, DiskOK
    <2>3. [disk[s] EXCEPT !.plugin = q] \in Directories
        BY <2>2 DEF Directories, Plugins
    <2>4. disk' \in [Dirs -> Directories \cup {None}]
        BY <1>0, <2>1, <2>3 DEF DiskOK
    <2> QED BY <1>4, <2>4, ChangeKeeps DEF Edit
<1>5. ASSUME NEW s \in Dirs, Garble(s) PROVE IInv'
    <2>1. disk[s] \in Directories
        BY <1>0, <1>5 DEF Garble, Readable, DiskOK
    <2>2. [disk[s] EXCEPT !.status = "unreadable"] \in Directories
        BY <2>1 DEF Directories, Statuses
    <2>3. disk' \in [Dirs -> Directories \cup {None}]
        BY <1>0, <1>5, <2>2 DEF Garble, DiskOK
    <2> QED BY <1>5, <2>3, ChangeKeeps DEF Garble
<1>6. ASSUME NEW s \in Dirs, DeleteTemplate(s) PROVE IInv'
    BY <1>0, <1>6, ChangeKeeps DEF DeleteTemplate, DiskOK
<1>7. CASE UNCHANGED vars
    <2>1. UNCHANGED <<disk, process, changes, fresh>>
        BY <1>7 DEF vars
    <2>2. VerdictHolds'
        BY <2>1, NowAndNext DEF IInv
    <2>3. TypeOK'
        BY <2>1 DEF IInv, TypeOK
    <2>4. Undisturbed'
        <3>1. \A w \in Validators : process'[w].quiet =>
                  disk[process'[w].slug] # None /\ Knows(PluginsOf(disk), process'[w])
            BY <2>1 DEF IInv, Undisturbed
        <3> QED BY <2>1, <3>1 DEF Undisturbed, Knows, PluginsOf
    <2> QED BY <2>2, <2>3, <2>4 DEF IInv
<1> QED BY <1>1, <1>2, <1>3, <1>4, <1>5, <1>6, <1>7 DEF Next

LEMMA InitStarts == Init => IInv
<1> SUFFICES ASSUME Init PROVE IInv
    OBVIOUS
<1>1. NoProcess \in Processes /\ NoProcess.pc = "idle" /\ NoProcess.quiet = FALSE
    BY DEF NoProcess, Processes
<1>2. \A s \in Dirs : Scaffolded(s) \in Directories
    BY DEF Scaffolded, Directories, Statuses, Plugins
<1>3. TypeOK
    BY <1>1, <1>2 DEF Init, TypeOK
<1>4. Undisturbed
    BY <1>1 DEF Init, Undisturbed
<1>5. VerdictHolds
    BY DEF Init, VerdictHolds
<1> QED BY <1>3, <1>4, <1>5 DEF IInv

\* Templates, processes and verdicts keep their types.
THEOREM TemplateTypes == Spec => []TypeOK
<1>1. Init => IInv
    BY InitStarts
<1>2. IInv /\ [Next]_vars => IInv'
    BY NextKeeps
<1>3. IInv => TypeOK
    BY DEF IInv
<1> QED BY <1>1, <1>2, <1>3, PTL DEF Spec

\* A validation puts its verdict together from four processes' imports, and other
\* validations run beside it; still, if nothing but verdicts was written since it
\* began, its verdict is what the directory deserves (validate_template, its safety
\* import, the tests and the dry run).
THEOREM VerdictsHold == Spec => []VerdictHolds
<1>1. Init => IInv
    BY InitStarts
<1>2. IInv /\ [Next]_vars => IInv'
    BY NextKeeps
<1>3. IInv => VerdictHolds
    BY DEF IInv
<1> QED BY <1>1, <1>2, <1>3, PTL DEF Spec

\* The catalog that imports one template after the other and the run that discovers
\* the directory at once agree on any directory (load_templates, discover_path).
THEOREM CatalogsFaithful == Spec => []CatalogFaithful
<1>1. Init => IInv
    BY InitStarts
<1>2. IInv /\ [Next]_vars => IInv'
    BY NextKeeps
<1>3. IInv => CatalogFaithful
    BY CatalogOfAny DEF IInv, TypeOK, DiskOK
<1> QED BY <1>1, <1>2, <1>3, PTL DEF Spec

LEMMA ValidRuns == IInv => ValidDirectoryRuns
<1> SUFFICES ASSUME IInv,
                    \A s \in Dirs : disk[s] # None => fresh[s] /\ disk[s].status = "valid",
                    \E s \in Dirs : Tested(s) \/ HasArchetype(s)
             PROVE  RunLoads
    BY DEF ValidDirectoryRuns
<1>1. DiskOK
    BY DEF IInv, TypeOK, DiskOK
<1>2. \A s \in Dirs : disk[s] # None => Deserving(s)
    BY DEF IInv, VerdictHolds
<1>3. PICK s \in Dirs : Tested(s) \/ HasArchetype(s)
    OBVIOUS
<1>4. disk[s] # None
    <2>1. disk[s] = None => Plugin(s) = None /\ Own(s) = {}
        BY <1>1, PluginOnDisk
    <2> QED BY <1>3, <2>1 DEF Tested, HasArchetype, Own
<1>5. CASE HasArchetype(s)
    BY <1>1, <1>2, <1>4, <1>5, RunStarts DEF Deserving
<1>6. CASE Tested(s)
    <2>1. Coexist(Dirs, {})
        BY <1>2, <1>4, <1>6 DEF Deserving
    <2>2. \A t \in Dirs : Range(Adds(Plugin(t))) \cap Builtin = {}
        <3>1. TAKE t \in Dirs
        <3>2. CASE disk[t] = None
            BY <1>1, <3>2, PluginOnDisk DEF Own
        <3>3. CASE disk[t] # None
            BY <1>2, <3>3 DEF Deserving, Coexist
        <3> QED BY <3>2, <3>3
    <2>3. Coexist(Dirs, Builtin)
        BY <2>1, <2>2 DEF Coexist
    <2> QED BY <1>1, <2>3, RunStarts
<1> QED BY <1>3, <1>5, <1>6

\* Verdicts of single templates add up: with every one of them valid, and one of
\* them tried beside the others, a run's discovery of all of them succeeds.
THEOREM ValidDirectoriesRun == Spec => []ValidDirectoryRuns
<1>1. Init => IInv
    BY InitStarts
<1>2. IInv /\ [Next]_vars => IInv'
    BY NextKeeps
<1>3. IInv => ValidDirectoryRuns
    BY ValidRuns
<1> QED BY <1>1, <1>2, <1>3, PTL DEF Spec
=============================================================================

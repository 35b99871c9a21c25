---------------------------- MODULE Reconstruct ----------------------------
(***************************************************************************)
(* The reconstruct pipeline over the corpus of a built world: extract_once  *)
(* (chunks, a reading of each of them, entity resolution), a graph per      *)
(* confidence threshold, and its score (reconstruct/extract.py, resolve.py, *)
(* build.py, sweep.py).  The resolver's loop over pairs of mentions is one   *)
(* step a pair.  A model's reading of a chunk, its verdict on a pair, and    *)
(* the similarity of two names that are alike, are choices.                 *)
(***************************************************************************)
EXTENDS WorldBuild, Fidelity, Ontology

CONSTANTS
    Artifacts,   \* sequences of documents a run may have written
    Readings,    \* what a reader may say of a chunk: [path, section, envelope]
    Alike,       \* pairs {a, b} of folded names that may be one
    Slugs,       \* names with an id text not their own -> [stem, number]
    Aliases,     \* further names of gold nodes: id -> names
    Client,      \* is there a model to adjudicate with
    Thresholds   \* of the confidence of an edge

VARIABLES
    stage,        \* what the pipeline does next
    docs,         \* the files of the run
    chunks,       \* theirs, in order
    extractions,  \* of each chunk: [chunk, path, mentions, triples]
    mentions,     \* theirs, one after the other: what the resolver is given
    todo,         \* pairs of mentions left to compare
    parent,       \* the union-find forest of the mentions
    joined,       \* pairs a comparison merged
    entities,     \* the canonical entities, in order
    kgs           \* threshold -> [edges, provenance]

reconstructVars ==
    <<stage, docs, chunks, extractions, mentions, todo, parent, joined, entities, kgs>>
vars == <<buildVars, reconstructVars>>

Init ==
    /\ BuildInit
    /\ stage = "build"
    /\ docs = <<>> /\ chunks = <<>> /\ extractions = <<>> /\ mentions = <<>>
    /\ todo = <<>> /\ parent = <<>> /\ joined = {}
    /\ entities = <<>> /\ kgs = <<>>

-----------------------------------------------------------------------------
(* Extraction: one reading a chunk; each call is independent of the others. *)

Read(c, reading) == [chunk |-> ChunkId(c), path |-> c.path] @@ Extracted(c, reading)

ReadingsOf(c) ==
    {Silent} \cup {r.envelope : r \in {q \in Readings : <<q.path, q.section>> = <<c.path, c.section>>}}

\* Comparisons of mentions of one type: types in order, then i < j.
Comparisons(ms) ==
    LET types == Ordered({ms[i].type : i \in DOMAIN ms})
        Of1(t, i) == SelectSeq([k \in 1..(Len(ms) - i) |-> <<i, i + k>>],
                               LAMBDA p : ms[p[1]].type = t /\ ms[p[2]].type = t)
    IN FlattenSeq([n \in DOMAIN types |->
                     FlattenSeq([i \in DOMAIN ms |-> Of1(types[n], i)])])

\* chunk_run over the organization pages and what the run has written.
ChunkRunDir ==
    /\ stage = "build" /\ Built
    /\ \E written \in Artifacts :
         LET program == [d \in NodesByType(world, "Department") |-> Program(d[2])]
             files == Organization(world, program) \o written
         IN docs' = files /\ chunks' = ChunkRun(files)
    /\ stage' = "extract"
    /\ UNCHANGED <<buildVars, extractions, mentions, todo, parent, joined,
                   entities, kgs>>

Extract ==
    /\ stage = "extract"
    /\ LET Spoken == {i \in DOMAIN chunks : ReadingsOf(chunks[i]) # {Silent}}
       IN \E said \in [Spoken -> UNION {ReadingsOf(chunks[i]) : i \in Spoken}] :
            /\ \A i \in Spoken : said[i] \in ReadingsOf(chunks[i])
            /\ extractions' = [i \in DOMAIN chunks |->
                                 Read(chunks[i], IF i \in Spoken THEN said[i] ELSE Silent)]
    /\ mentions' = FlattenSeq([i \in DOMAIN chunks |-> extractions'[i].mentions])
    /\ todo' = Comparisons(mentions')
    /\ parent' = [i \in DOMAIN mentions' |-> i]
    /\ stage' = "resolve"
    /\ UNCHANGED <<buildVars, docs, chunks, joined, entities, kgs>>

-----------------------------------------------------------------------------
(* Resolution.                                                             *)

\* find, with path halving: [forest, root].
RECURSIVE Find(_, _)
Find(p, x) ==
    IF p[x] = x THEN [forest |-> p, root |-> x]
    ELSE Find([p EXCEPT ![x] = p[p[x]]], p[p[x]])
Root(p, x) == Find(p, x).root

\* parent[find(x)] = find(y); the slip does not look for the root of x.
UnionAt(p, x, y) == LET to == Find(p, y) IN [to.forest EXCEPT ![x] = to.root]
Union(p, x, y) ==
    LET to == Find(p, y)
        from == Find(to.forest, x)
    IN [from.forest EXCEPT ![from.root] = to.root]

\* Forms that are the same but for case and spaces are one; else their
\* similarity decides, which names that are not alike do not reach.  In the
\* ambiguous band the model is asked, and may say either; without a model the
\* pair stays apart.
Tiers(a, b) ==
    IF Folded(a.name) = Folded(b.name) THEN {"same"}
    ELSE IF {Folded(a.name), Folded(b.name)} \in Alike
         THEN {"merge", "ambiguous", "apart"}
    ELSE {"apart"}

\* find of both ends leaves the forest halved.
Halved(p, x, y) == Find(Find(p, x).forest, y).forest

Compare ==
    /\ stage = "resolve" /\ todo # <<>>
    /\ LET i == Head(todo)[1]
           j == Head(todo)[2]
           p == Halved(parent, i, j)
           Join == parent' = Union(p, i, j) /\ joined' = joined \cup {<<i, j>>}
           Keep == parent' = p /\ UNCHANGED joined
       IN IF Root(p, i) = Root(p, j) THEN Keep
          ELSE \E tier \in Tiers(mentions[i], mentions[j]) :
                 \/ tier \in {"same", "merge"} /\ Join
                 \/ tier = "ambiguous" /\ Client /\ Join
                 \/ tier \in {"ambiguous", "apart"} /\ Keep
    /\ todo' = Tail(todo)
    /\ UNCHANGED <<buildVars, stage, docs, chunks, extractions, mentions, entities, kgs>>

Clusters == {{j \in DOMAIN parent : Root(parent, j) = Root(parent, i)} : i \in DOMAIN parent}

\* The most frequent form; which of equally frequent ones is fixed.
BestLabel(ms, C) ==
    LET Count(f) == Cardinality({i \in C : ms[i].name = f})
        Forms == {ms[i].name : i \in C}
    IN CHOOSE f \in Forms : \A g \in Forms : Count(g) <= Count(f)

\* The text of an id is a stem and a number, which a slug may bring and which
\* the counter of the slug adds.
SlugOf(name) == IF name \in DOMAIN Slugs THEN Slugs[name] ELSE [stem |-> name, number |-> 1]
IdText(type, slug, used) ==
    LET n == IF used = 1 THEN slug.number
             ELSE IF slug.number = 1 THEN used ELSE 10 * slug.number + used
    IN IF type = "Person" THEN <<"person", slug.stem, n>>
       ELSE IF type = "Project" /\ n = 1 THEN <<"project", slug.stem>>
       ELSE <<"built", type, slug.stem, n>>

AssignIds(ms, Cs) ==
    LET Draft(C) == [type |-> ms[CHOOSE i \in C : TRUE].type, label |-> BestLabel(ms, C),
                     members |-> C]
        drafts == Ordered({Draft(C) : C \in Cs})
        Base(i) == <<drafts[i].type, SlugOf(Folded(drafts[i].label))>>
        Used(i) == Cardinality({k \in 1..i : Base(k) = Base(i)})
    IN [i \in DOMAIN drafts |->
          [id |-> IdText(drafts[i].type, Base(i)[2], Used(i)),
           type |-> drafts[i].type, label |-> drafts[i].label,
           forms |-> {ms[k].name : k \in drafts[i].members},
           members |-> drafts[i].members]]

Canonicalize ==
    /\ stage = "resolve" /\ todo = <<>>
    /\ entities' = AssignIds(mentions, Clusters)
    /\ stage' = "build_kg"
    /\ UNCHANGED <<buildVars, docs, chunks, extractions, mentions, todo, parent, joined, kgs>>

-----------------------------------------------------------------------------
(* The graph, for each threshold of the sweep.                             *)

NodeIds == {entities[i].id : i \in DOMAIN entities}

\* Of the entities a chunk mentions by a form, the one with the first id.
LookedUp(chunk, name) ==
    LET Hits == {entities[i].id : i \in {k \in DOMAIN entities :
                   \E m \in entities[k].members : /\ mentions[m].chunk = chunk
                                                  /\ Folded(mentions[m].name) = Folded(name)}}
    IN IF Hits = {} THEN None ELSE Ordered(Hits)[1]

\* The triples that resolve: [key, chunk, path, confidence].  The slip keeps
\* an edge from an entity to itself.
ResolvesLoosely(src, dst) == src # None /\ dst # None
Resolves(src, dst) == src # None /\ dst # None /\ src # dst

Attested ==
    LET Of1(x) ==
          LET Src(t) == LookedUp(x.chunk, t.src)
              Dst(t) == LookedUp(x.chunk, t.dst)
              kept == SelectSeq(x.triples, LAMBDA t : Resolves(Src(t), Dst(t)))
          IN [n \in DOMAIN kept |->
                [key |-> <<Src(kept[n]), kept[n].rel, Dst(kept[n])>>, chunk |-> x.chunk,
                 path |-> x.path, confidence |-> kept[n].confidence]]
    IN FlattenSeq([i \in DOMAIN extractions |-> Of1(extractions[i])])

Aggregated(facts, threshold) ==
    LET At(k) == {i \in DOMAIN facts : facts[i].key = k}
        Confidence(k) == Max({facts[i].confidence : i \in At(k)})
        Kept == {k \in {facts[i].key : i \in DOMAIN facts} : Confidence(k) >= threshold}
    IN [k \in Kept |->
          [support |-> Cardinality(At(k)), confidence |-> Confidence(k),
           chunks |-> {facts[i].chunk : i \in At(k)}, paths |-> {facts[i].path : i \in At(k)}]]

BuildGraphs ==
    /\ stage = "build_kg"
    /\ LET facts == Attested
       IN kgs' = [t \in Thresholds |-> Aggregated(facts, t)]
    /\ stage' = "done"
    /\ UNCHANGED <<buildVars, docs, chunks, extractions, mentions, todo, parent, joined, entities>>

-----------------------------------------------------------------------------
(* The two sides of a score.                                               *)

GoldNodes ==
    [id \in DOMAIN world.nodes |->
        [type |-> world.nodes[id].type,
         forms |-> {Titles[id]} \cup (IF id \in DOMAIN Aliases THEN Aliases[id] ELSE {})]]

\* to_world raises on the second entity of an id; there is no score then.
Loads == \A i, j \in DOMAIN entities : entities[i].id = entities[j].id => i = j
EntityOf(id) == CHOOSE i \in DOMAIN entities : entities[i].id = id
BuiltNodes ==
    [id \in NodeIds |-> [type |-> entities[EntityOf(id)].type,
                         forms |-> entities[EntityOf(id)].forms]]

Align == Alignment(BuiltNodes, GoldNodes)

\* The paths that mention an entity, as its provenance says.
Groundings ==
    UNION {{<<entities[i].id, mentions[m].chunk[1]>> : m \in entities[i].members} :
             i \in DOMAIN entities}

BuildStep == stage = "build" /\ BuildNext /\ UNCHANGED reconstructVars
Next == BuildStep \/ ChunkRunDir \/ Extract \/ Compare \/ Canonicalize \/ BuildGraphs
Spec == Init /\ [][Next]_vars

-----------------------------------------------------------------------------
(* Properties.                                                             *)

\* A heading that is still open at line i, by the definition a reader of
\* markdown has: no heading after it, up to i, is of its level or above.
OpenAt(lines, i) ==
    {j \in Headings(lines) : /\ j <= i
                             /\ \A k \in Headings(lines) :
                                  j < k /\ k <= i => lines[k].level > lines[j].level}
Solid(lines) == SelectSeq(lines, LAMBDA l : l.kind # "blank")

\* The chunks of a file hold each of its non-blank lines once and in order, and
\* the section of a chunk is the headings that enclose it (chunk.py: a chunk is
\* "one heading's body", its section the breadcrumb), code blocks apart.
ChunksPartition ==
    stage = "extract" =>
      \A d \in DOMAIN docs :
        LET cs == ChunksOf(docs[d])
            lines == docs[d].lines
        IN /\ Solid(FlattenSeq([n \in DOMAIN cs |-> cs[n].lines])) = Solid(lines)
           /\ docs[d].jira \/ \A n \in DOMAIN cs :
                cs[n].section = LET open == Increasing(OpenAt(lines, cs[n].at))
                                IN [k \in DOMAIN open |-> lines[open[k]].name]

\* Mentions linked by the merges so far, and the clusters these imply.
RECURSIVE Reach(_)
Reach(S) ==
    LET T == S \cup UNION {{q[1], q[2]} : q \in {r \in joined : r[1] \in S \/ r[2] \in S}}
    IN IF T = S THEN S ELSE Reach(T)

\* Two mentions share a root exactly when the merges decided so far link them, a
\* merge is within a type, and at the end forms that differ in case alone are
\* together (resolve.py, _cluster_block).
ClustersSound ==
    /\ LET root == [i \in DOMAIN parent |-> Root(parent, i)]
       IN \A i \in DOMAIN parent : {j \in DOMAIN parent : root[j] = root[i]} = Reach({i})
    /\ \A q \in joined : mentions[q[1]].type = mentions[q[2]].type
    /\ stage = "build_kg" =>
         \A i, j \in DOMAIN parent :
           /\ mentions[i].type = mentions[j].type
           /\ Folded(mentions[i].name) = Folded(mentions[j].name)
           => Root(parent, i) = Root(parent, j)

\* What a chunk says, read without the lookup: entities its mentions of a form
\* belong to.
Meant(x, name) ==
    {entities[i].id : i \in {k \in DOMAIN entities : \E m \in entities[k].members :
        mentions[m].chunk = x.chunk /\ Folded(mentions[m].name) = Folded(name)}}

\* Every edge joins two nodes and is stated by each chunk it names, by mentions of
\* both ends; where a form means one entity, what a chunk states is kept; a higher
\* threshold takes edges away and changes none (sweep.py: one extraction, many
\* thresholds).
GraphEarned ==
    stage = "done" =>
      /\ \A t \in Thresholds : \A k \in DOMAIN kgs[t] :
           /\ {k[1], k[3]} \subseteq NodeIds /\ k[1] # k[3]
           /\ \A c \in kgs[t][k].chunks : \E i \in DOMAIN extractions :
                LET x == extractions[i]
                IN /\ x.chunk = c /\ x.path \in kgs[t][k].paths
                   /\ \E n \in DOMAIN x.triples :
                        /\ x.triples[n].rel = k[2]
                        /\ k[1] \in Meant(x, x.triples[n].src)
                        /\ k[3] \in Meant(x, x.triples[n].dst)
      /\ \A i \in DOMAIN extractions : \A n \in DOMAIN extractions[i].triples :
           LET x == extractions[i]
               tr == x.triples[n]
               From == Meant(x, tr.src)
               To == Meant(x, tr.dst)
           IN Cardinality(From) = 1 /\ Cardinality(To) = 1 /\ From # To =>
                \A s \in From, o \in To, t \in Thresholds :
                  t <= tr.confidence => <<s, tr.rel, o>> \in DOMAIN kgs[t]
      /\ \A t, u \in Thresholds : t <= u =>
           /\ DOMAIN kgs[u] \subseteq DOMAIN kgs[t]
           /\ \A k \in DOMAIN kgs[u] : kgs[u][k] = kgs[t][k]

\* No gold node is credited twice nor across types, a node with the id of its gold
\* twin gets that twin, no node that could have had one is left over, the types add
\* up to the whole, and the gold graph scores full marks against itself.
FairScore ==
    stage = "done" /\ Loads =>
      LET a == Align
          types == {GoldNodes[g].type : g \in DOMAIN GoldNodes}
          Sum(part(_)) == FoldSet(LAMBDA type, n : n + part(type), 0, types)
      IN /\ \A r, q \in DOMAIN a : a[r] = a[q] => r = q
         /\ \A r \in DOMAIN a : BuiltNodes[r].type = GoldNodes[a[r]].type
         /\ \A r \in Exact(BuiltNodes, GoldNodes) : a[r] = r
         /\ \A r \in DOMAIN BuiltNodes \ DOMAIN a :
              Candidates(BuiltNodes, GoldNodes, r) \subseteq Range(a)
         /\ Sum(LAMBDA type : NodeScoreOf(BuiltNodes, GoldNodes, type).hits)
              = NodeScore(BuiltNodes, GoldNodes).hits
         /\ \A t \in Thresholds :
              EdgeScore(DOMAIN kgs[t], LinksOf(world), a).hits =
                FoldSet(LAMBDA rel, n :
                          n + EdgeScoreOf(DOMAIN kgs[t], LinksOf(world), a, rel).hits,
                        0, RelationTypes)
         /\ EdgeScore(LinksOf(world), LinksOf(world), Alignment(GoldNodes, GoldNodes)).hits
              = Cardinality(LinksOf(world))

\* What the pages state of the gold world.
PrintedLinks ==
    LET Type(id) == world.nodes[id].type
    IN {l \in LinksOf(world) :
          CASE l[2] = "member_of" -> TRUE
            [] l[2] = "part_of" -> TRUE
            [] l[2] = "leads" -> Type(l[3]) = "Team"
            [] l[2] = "advances_goal" -> Type(l[1]) = "Department"
            [] l[2] = "reports_to" -> TeamOf(world, l[1]) = TeamOf(world, l[3])
            [] OTHER -> FALSE}

SilentReader == \A i \in DOMAIN extractions :
    extractions[i].path \in {docs[d].path : d \in 1..Cardinality(NodesByType(world, "Department")) + 3}
    \/ extractions[i].mentions = <<>>
NoNamesakes == \A p, q \in NodesByType(world, "Person") : Titles[p] = Titles[q] => p = q

\* Without a model's help the pages of a company whose people have different
\* names read back as the relations they print and no others, and no question is
\* answered wrongly over them (structural.py: "the ground truth the layout states").
PagesReadBack ==
    stage = "done" /\ Loads /\ NoNamesakes /\ SilentReader /\ joined \subseteq
        {q \in joined : Folded(mentions[q[1]].name) = Folded(mentions[q[2]].name)} =>
      /\ Aligned(DOMAIN kgs[0], Align) = PrintedLinks
      /\ LET built == [types |-> [id \in NodeIds |-> BuiltNodes[id].type],
                       links |-> DOMAIN kgs[0]]
             gold == GraphOf(world, {})
             a == Align
             facts == Materialized(built.links, built.types, MaxPasses)
         IN \A r \in DOMAIN a : \A key \in References \ {"provenance"} :
              a[r] \in Subjects(gold, key) =>
                LET s == ItemScore(Expected(gold, {}, key, a[r]), Sparql(facts, key, r), a)
                IN s.hits = s.predicted

\* What the corpus says survives its way through the pages: into chunks, and from
\* the chunks into relations.
PagesKept == ChunksPartition /\ PagesReadBack

\* The reconstructed graph states what the chunks do: its nodes are the clusters of
\* their mentions, its edges their triples.
GraphSound == ClustersSound /\ GraphEarned

\* On the gold graph the ontology, the path queries and the benchmark give one
\* answer to every question the benchmark asks, and the chains are the closures of
\* what they are chains of, on the gold and on the reconstructed graph.
AnswersAgree ==
    /\ stage = "build" /\ Built =>
         LET g == GraphOf(world, {})
             facts == Materialized(g.links, g.types, MaxPasses)
             asks == Benchmark(g, {})
         IN /\ \A q \in DOMAIN asks : q[1] \in References =>
                 /\ Sparql(facts, q[1], q[2]) = asks[q]
                 /\ Cypher(g, q[1], q[2]) = asks[q]
            /\ Pass(facts, g.types) = facts
    /\ stage = "done" =>
         LET links == DOMAIN kgs[0]
             facts == Materialized(links, [id \in NodeIds |-> BuiltNodes[id].type], MaxPasses)
         IN \A id \in NodeIds :
              Sparql(facts, "management_chain", id) =
                Upwards(links, "reports_to", Targets(links, id, "reports_to"))

-----------------------------------------------------------------------------
(* What the code's comments say and the model refutes.                     *)

\* resolve.py: ids are "made unique" by the counter.
IdsDistinct == stage = "done" => Loads
\* build.py: the support of an edge is the number of chunks that attest it.
SupportIsChunks ==
    stage = "done" => \A k \in DOMAIN kgs[0] : kgs[0][k].support = Cardinality(kgs[0][k].chunks)
\* fidelity.py: a gold entity in two nodes is an under-merge.
SplitsCounted ==
    stage = "done" /\ Loads =>
      \A g \in DOMAIN GoldNodes :
        Cardinality({r \in NodeIds : /\ BuiltNodes[r].type = GoldNodes[g].type
                                     /\ Tokens(BuiltNodes[r].forms) \cap Tokens(GoldNodes[g].forms) # {}}) >= 2
        => g \in UnderMerged(BuiltNodes, GoldNodes)
\* resolve.py: two people of one name stay two entities.
NamesakesKeptApart ==
    stage = "done" /\ Loads =>
      \A p, q \in NodesByType(world, "Person") : p # q => {p, q} \subseteq Range(Align)
=============================================================================

------------------------------- MODULE Corpus -------------------------------
(***************************************************************************)
(* From a built world to what a reader of its corpus is given: the pages of *)
(* world_builders/markdown.py, the chunks of reconstruct/chunk.py, the      *)
(* relations reconstruct/structural.py reads off the layout, and the        *)
(* parsing of a reader's envelope in reconstruct/extract.py.                *)
(*                                                                         *)
(* A name (a surface form) is a string.  A line is a record with            *)
(* the shape the readers tell apart; a chunk is identified by its document  *)
(* and the line it starts at, as its hash is by path, section and offset.   *)
(* Sections are sequences of names, which the code joins and splits.        *)
(***************************************************************************)
EXTENDS WorldGraph, Sequences, SequencesExt

CONSTANTS
    Titles  \* name of a node of the graph: id -> name

NodeTypes == {"Company", "Department", "Team", "Person", "Goal", "Initiative",
              "Project", "Artifact", "CalendarEvent"}
RelationTypes == {"reports_to", "member_of", "leads", "owns", "owns_initiative",
                  "advances_goal", "part_of", "has_department", "subgoal_of",
                  "subinitiative_of", "under", "collaborates_with", "authored",
                  "reviewed", "references"}

Line(kind, name) == [kind |-> kind, level |-> 0, name |-> name, lead |-> FALSE]
Text == Line("text", "")
Blank == Line("blank", "")
Fence == Line("fence", "")
Heading(level, name) == [Line("heading", name) EXCEPT !.level = level]

-----------------------------------------------------------------------------
(* The organization pages; listings are in the order of the ids.           *)

Ordered(S) == FoldSet(LAMBDA x, s : <<x>> \o s, <<>>, S)
Increasing(S) ==
    IF S = {} THEN <<>> ELSE SelectSeq([i \in 1..Max(S) |-> i], LAMBDA i : i \in S)

Listing(Ids, LineOf(_)) ==
    LET order == Ordered(Ids) IN [i \in DOMAIN order |-> LineOf(order[i])]

\* Header row, separator, one row a person; the lead has a star.
PeopleTable(People, Leads) ==
    IF People = {} THEN <<Text>>
    ELSE <<Line("row", "Name"), Line("rule", "")>>
         \o Listing(People, LAMBDA p : [Line("row", Titles[p]) EXCEPT !.lead = p \in Leads])

TeamsTitle == "Teams"
AdvancesTitle == "Advances goals"
InitiativesTitle == "Initiatives & projects"

TeamSection(w, t) ==
    <<Heading(3, Titles[t])>>
      \o PeopleTable(Neighbors(w, t, "member_of", "in"), Neighbors(w, t, "leads", "in"))

ProjectLines(w, p) ==
    <<Line("project", Titles[p])>>
      \o Listing(Neighbors(w, p, "member_of", "in"), LAMBDA m : Line("role", Titles[m]))

\* The programs of the department, their scenarios and the projects of those.
InitiativeSection(w, program) ==
    LET Under(s) == Ordered(Neighbors(w, s, "under", "in"))
        Of(s) == <<Line("bullet", Titles[s])>>
                   \o FlattenSeq([k \in DOMAIN Under(s) |-> ProjectLines(w, Under(s)[k])])
        scenarios == Ordered(Neighbors(w, program, "subinitiative_of", "in"))
    IN <<Heading(2, InitiativesTitle), Line("bullet", Titles[program])>>
         \o FlattenSeq([k \in DOMAIN scenarios |-> Of(scenarios[k])])

DepartmentPage(w, d, program) ==
    LET Advanced == Neighbors(w, d, "advances_goal", "out")
        Units == Ordered(Neighbors(w, d, "part_of", "in"))
    IN <<Heading(1, Titles[d]), Text>>
         \o (IF Advanced = {} THEN <<>>
             ELSE <<Heading(2, AdvancesTitle)>>
                    \o Listing(Advanced, LAMBDA g : Line("bullet", Titles[g])))
         \o <<Heading(2, TeamsTitle)>>
         \o FlattenSeq([k \in DOMAIN Units |-> TeamSection(w, Units[k])])
         \o InitiativeSection(w, program)

CompanyPage(w) ==
    LET Top == {g \in NodesByType(w, "Goal") : OutEdges(w, g, "subgoal_of") = {}}
        Tree(g) == <<Line("bullet", Titles[g])>>
                     \o Listing(Neighbors(w, g, "subgoal_of", "in"),
                                LAMBDA s : Line("bullet", Titles[s]))
    IN <<Heading(1, "Company"), Text, Heading(2, "Goals")>>
         \o FlattenSeq([k \in 1..Cardinality(Top) |-> Tree(Ordered(Top)[k])])

PeoplePage(w) ==
    <<Heading(1, "People"), Text>> \o PeopleTable(NodesByType(w, "Person"), {})

IndexPage(w) ==
    <<Heading(1, "Organization"), Text, Heading(2, "Contents")>>
      \o Listing(NodesByType(w, "Department"), LAMBDA d : Line("bullet", Titles[d]))

Page(path, lines) == [path |-> path, jira |-> FALSE, lines |-> lines]

\* program gives the program of each department.
Organization(w, program) ==
    LET Depts == Ordered(NodesByType(w, "Department"))
    IN <<Page(<<"README">>, IndexPage(w)), Page(<<"company">>, CompanyPage(w)),
         Page(<<"people">>, PeoplePage(w))>>
         \o [k \in DOMAIN Depts |->
               Page(<<"departments", Titles[Depts[k]]>>,
                    DepartmentPage(w, Depts[k], program[Depts[k]]))]

-----------------------------------------------------------------------------
(* Chunks.                                                                 *)

Fenced(lines, i) ==
    Cardinality({j \in 1..i : j < i /\ lines[j].kind = "fence"}) % 2 = 1
Headings(lines) == {i \in DOMAIN lines : lines[i].kind = "heading" /\ ~Fenced(lines, i)}

\* while stack and stack[-1][0] >= level: stack.pop(), and its slip.
PoppedAbove(stack, level) ==
    LET Kept == {k \in DOMAIN stack : stack[k].level <= level}
    IN SubSeq(stack, 1, IF Kept = {} THEN 0 ELSE Max(Kept))
Popped(stack, level) ==
    LET Kept == {k \in DOMAIN stack : stack[k].level < level}
    IN SubSeq(stack, 1, IF Kept = {} THEN 0 ELSE Max(Kept))

\* The stack of headings after the first k of them.
Breadcrumb(lines, order, k) ==
    LET At[n \in 0..k] ==
          IF n = 0 THEN <<>>
          ELSE LET h == lines[order[n]]
               IN Append(Popped(At[n - 1], h.level), [level |-> h.level, name |-> h.name])
    IN [i \in DOMAIN At[k] |-> At[k][i].name]

Chunk(path, at, section, lines) ==
    [path |-> path, at |-> at, section |-> section, lines |-> lines]

\* Text before the first heading is a chunk of its own, unless it is blank.
Preamble(doc, upto) ==
    LET Solid == {i \in 1..upto : doc.lines[i].kind # "blank"}
    IN IF Solid = {} THEN <<>>
       ELSE <<Chunk(doc.path, Min(Solid), <<>>, SubSeq(doc.lines, Min(Solid), upto))>>

MarkdownChunks(doc) ==
    LET order == Increasing(Headings(doc.lines))
        Upto(n) == IF n = Len(order) THEN Len(doc.lines) ELSE order[n + 1] - 1
    IN Preamble(doc, IF order = <<>> THEN Len(doc.lines) ELSE order[1] - 1)
         \o [n \in DOMAIN order |->
               Chunk(doc.path, order[n], Breadcrumb(doc.lines, order, n),
                     SubSeq(doc.lines, order[n], Upto(n)))]

\* The fields of an issue, each of them by its section and at offset 0.
JiraChunks(doc) ==
    LET Solid == SelectSeq([i \in DOMAIN doc.lines |-> <<i, doc.lines[i]>>],
                           LAMBDA f : f[2].kind # "blank")
    IN [n \in DOMAIN Solid |->
          Chunk(doc.path, 0, <<ToString(Solid[n][1])>>, <<Solid[n][2]>>)]

ChunksOf(doc) == IF doc.jira THEN JiraChunks(doc) ELSE MarkdownChunks(doc)
ChunkRun(docs) == FlattenSeq([d \in DOMAIN docs |-> ChunksOf(docs[d])])

ChunkId(c) == <<c.path, c.at, c.section>>

-----------------------------------------------------------------------------
(* What the layout states.                                                 *)

Mention(name, type) == [name |-> name, type |-> type]
Triple(src, rel, dst, confidence) ==
    [src |-> src, rel |-> rel, dst |-> dst, confidence |-> confidence]
Certain == 2  \* confidences are 0, 1 and 2 for none, half and full
Envelope(mentions, triples) == [mentions |-> mentions, triples |-> triples]
Silent == Envelope(<<>>, <<>>)
Stated(src, rel, dst) == Triple(src, rel, dst, Certain)

\* Rows count once the separator was seen.
Members(lines) ==
    LET Rules == {i \in DOMAIN lines : lines[i].kind = "rule"}
    IN IF Rules = {} THEN <<>>
       ELSE SelectSeq(SubSeq(lines, Min(Rules), Len(lines)), LAMBDA l : l.kind = "row")

TeamRoster(c) ==
    LET team == Last(c.section)
        dept == c.section[1]
        rows == Members(c.lines)
        Starred == {i \in DOMAIN rows : rows[i].lead}
        Of(row) ==
            <<Stated(row.name, "member_of", team)>>
              \o (IF row.lead THEN <<Stated(row.name, "leads", team)>>
                  ELSE IF Starred = {} THEN <<>>
                  ELSE <<Stated(row.name, "reports_to", rows[Min(Starred)].name)>>)
    IN Envelope(<<Mention(team, "Team"), Mention(dept, "Department")>>
                  \o [i \in DOMAIN rows |-> Mention(rows[i].name, "Person")],
                <<Stated(team, "part_of", dept)>>
                  \o FlattenSeq([i \in DOMAIN rows |-> Of(rows[i])]))

DepartmentGoals(c) ==
    LET goals == SelectSeq(c.lines, LAMBDA l : l.kind \in {"bullet", "role", "project"})
    IN Envelope(<<Mention(c.section[1], "Department")>>
                  \o [i \in DOMAIN goals |-> Mention(goals[i].name, "Goal")],
                [i \in DOMAIN goals |-> Stated(c.section[1], "advances_goal", goals[i].name)])

\* A member belongs to the project named last above them; the slip: first.
OwnerFirst(lines, i) == Min({k \in 1..i : lines[k].kind = "project"})
Owner(lines, i) == Max({k \in 1..i : lines[k].kind = "project"})

ProjectRosters(c) ==
    LET Seen == {i \in DOMAIN c.lines :
                   /\ c.lines[i].kind \in {"project", "role"}
                   /\ \E k \in 1..i : c.lines[k].kind = "project"}
        order == Increasing(Seen)
        roles == SelectSeq(order, LAMBDA i : c.lines[i].kind = "role")
    IN Envelope([n \in DOMAIN order |->
                   Mention(c.lines[order[n]].name,
                           IF c.lines[order[n]].kind = "project" THEN "Project" ELSE "Person")],
                [n \in DOMAIN roles |->
                   Stated(c.lines[roles[n]].name, "member_of",
                          c.lines[Owner(c.lines, roles[n])].name)])

StructuralEnvelope(c) ==
    IF c.section = <<>> THEN Silent
    ELSE IF TeamsTitle \in Range(c.section) /\ Last(c.section) # TeamsTitle
         THEN TeamRoster(c)
    ELSE IF Last(c.section) = AdvancesTitle THEN DepartmentGoals(c)
    ELSE IF Last(c.section) = InitiativesTitle THEN ProjectRosters(c)
    ELSE Silent

-----------------------------------------------------------------------------
(* Parsing an envelope: unknown types and relations and repetitions go.    *)

Merged(a, b) == Envelope(a.mentions \o b.mentions, a.triples \o b.triples)

\* The items of s that are the first of their key.
Firsts(s, keys) ==
    LET Kept == {i \in DOMAIN s : \A j \in 1..(i - 1) : keys[j] # keys[i]}
        order == Increasing(Kept)
    IN [n \in DOMAIN order |-> s[order[n]]]

Parsed(c, e) ==
    LET named == SelectSeq(e.mentions, LAMBDA m : m.name # "" /\ m.type \in NodeTypes)
        ms == Firsts(named, named)
        ts == SelectSeq(e.triples, LAMBDA t : t.src # "" /\ t.dst # "" /\ t.rel \in RelationTypes)
    IN [mentions |-> [i \in DOMAIN ms |-> [chunk |-> ChunkId(c)] @@ ms[i]],
        triples |-> Firsts(ts, [n \in DOMAIN ts |-> <<ts[n].src, ts[n].rel, ts[n].dst>>])]

Extracted(c, reading) == Parsed(c, Merged(reading, StructuralEnvelope(c)))
=============================================================================

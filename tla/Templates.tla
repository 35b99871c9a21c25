------------------------------ MODULE Templates ------------------------------
(***************************************************************************)
(* The templates directory: plugins written outside the package by an       *)
(* agent or by hand (enterprise_sim/templates), the command that validates  *)
(* one of them while they may go on being written, the catalog the run form *)
(* offers, and the discovery a run makes of all of them                     *)
(* (core/registry/discovery.py).                                            *)
(*                                                                         *)
(* A plugin.py is what importing it does: the names it registers, in order, *)
(* and whether it then raises; whether what it registers passes lint,       *)
(* conformance and sanity and its own assertions; whether there is a test   *)
(* beside it, which begins by discovering the whole directory, as the       *)
(* scaffolded ones do.  The names of all the registries are one set here.   *)
(***************************************************************************)
EXTENDS Naturals, Sequences, SequencesExt, FiniteSets, FiniteSetsExt

CONSTANTS
    Slugs,       \* the slugs, in the order of a sorted directory
    Builtin,     \* what the packages of enterprise_sim register
    Archetypes,  \* the names that are archetypes
    Skeleton,    \* what scaffold writes for a slug
    Drafts,      \* what else a plugin.py may come to hold
    Validators,  \* slots for processes that validate
    MaxChanges,  \* bound: later scaffoldings, edits and deletions
    None

Dirs == Range(Slugs)

Adds(plugin) == IF plugin = None THEN <<>> ELSE plugin.adds

Plugins == Drafts \cup {Skeleton[s] : s \in Dirs}

Statuses == {"unvalidated", "valid", "invalid", "unreadable"}

Directories == [plugin : Plugins \cup {None}, status : Statuses, provides : SUBSET STRING]

ASSUME TemplatesAssumption ==
    /\ Slugs \in Seq(Dirs) /\ IsInjective(Slugs)
    /\ None \notin Dirs /\ None \notin Directories
    /\ \A p \in Plugins :
           /\ p.adds \in Seq(STRING) /\ p.raises \in BOOLEAN /\ p.sound \in BOOLEAN
           /\ p.tested \in BOOLEAN

VARIABLES
    disk,     \* the directory of each slug: plugin.py and template.json, or None
    process,  \* the processes that validate
    changes,
    fresh     \* history: whether nothing was changed since the validation began
              \* whose verdict is in template.json

vars == <<disk, process, changes, fresh>>

NoProcess == [pc |-> "idle", slug |-> None, provides |-> {}, registry |-> {}, imported |-> FALSE,
              ok |-> FALSE, sound |-> FALSE, quiet |-> FALSE]

Scaffolded(s) == [plugin |-> Skeleton[s], status |-> "unvalidated", provides |-> {}]

Init ==
    /\ disk = [s \in Dirs |-> Scaffolded(s)]
    /\ process = [v \in Validators |-> NoProcess]
    /\ changes = 0
    /\ fresh = [s \in Dirs |-> FALSE]

-----------------------------------------------------------------------------
(* Registration and discovery.                                             *)

\* What is registered when the names are registered in turn: those before the
\* first that is there already.
Register(registry, adds) ==
    LET n == Max({k \in 0..Len(adds) :
                     /\ IsInjective(SubSeq(adds, 1, k))
                     /\ Range(SubSeq(adds, 1, k)) \cap registry = {}})
    IN  [registry |-> registry \cup Range(SubSeq(adds, 1, n)), ok |-> n = Len(adds)]

\* A plugin that is imported: what it has registered stays when it raises.
Import(registry, plugin) ==
    IF plugin = None THEN [registry |-> registry, ok |-> TRUE]
    ELSE LET r == Register(registry, plugin.adds)
         IN  [r EXCEPT !.ok = @ /\ ~plugin.raises]

Plugin(s) == IF disk[s] = None THEN None ELSE disk[s].plugin

\* The directory is imported in its order, less the module that is loaded already,
\* up to the first that fails.
DiscoverPaths(registry, loaded) ==
    FoldLeft(LAMBDA r, s : IF r.ok /\ s # loaded THEN Import(r.registry, Plugin(s)) ELSE r,
             [registry |-> registry, ok |-> TRUE], Slugs)

\* A run discovers the directory before the packages' own playbooks.
RunLoads ==
    LET r == DiscoverPaths(Builtin \cap Archetypes, None)
    IN  r.ok /\ r.registry \cap (Builtin \ Archetypes) = {}

-----------------------------------------------------------------------------
(* The catalog: each template by itself, a broken one is left out.         *)

Readable(s) == disk[s] # None /\ disk[s].status # "unreadable"

\* What list_templates can read is imported.  (A mutation credits a template with
\* what it had registered when it failed.)
AddToCatalogAnyway(c, s) ==
    IF ~Readable(s) THEN c
    ELSE LET r == Import(c.registry, Plugin(s)) IN
         [registry |-> r.registry,
          left |-> IF r.ok THEN c.left ELSE c.left \cup {s},
          source |-> [n \in r.registry \ Builtin |-> IF n \in DOMAIN c.source THEN c.source[n] ELSE s]]

AddToCatalog(c, s) ==
    IF ~Readable(s) THEN c
    ELSE LET r == Import(c.registry, Plugin(s))
             new == r.registry \ c.registry
         IN  [registry |-> r.registry,
              left |-> IF r.ok THEN c.left ELSE c.left \cup {s},
              source |-> [n \in r.registry \ Builtin |->
                             CASE n \in DOMAIN c.source -> c.source[n]
                               [] n \in new /\ r.ok     -> s
                               [] OTHER                 -> None]]

Catalog ==
    FoldLeft(AddToCatalog, [registry |-> Builtin, left |-> {}, source |-> [n \in {} |-> None]], Slugs)

-----------------------------------------------------------------------------
(* The validation of one template, step by step; the directory may change  *)
(* between the steps.                                                      *)

Proc(v) == process[v]

At(v, pc) == Proc(v).pc = pc

Step(v, pc, p) == process' = [process EXCEPT ![v] = [p EXCEPT !.pc = pc]]

\* The user and the agent validate what the list shows or they have just written.
Begin(v, s) ==
    /\ At(v, "idle") /\ disk[s] # None
    /\ Step(v, "import", [NoProcess EXCEPT !.slug = s, !.quiet = TRUE])
    /\ UNCHANGED <<disk, changes, fresh>>

\* In a process of its own, without the packages' plugins.
ImportCheck(v) ==
    /\ At(v, "import")
    /\ LET r == Import({}, Plugin(Proc(v).slug))
           ok == r.ok /\ disk[Proc(v).slug] # None
       IN  Step(v, IF ok THEN "reimport" ELSE "read",
                [Proc(v) EXCEPT !.provides = IF ok THEN r.registry ELSE {}])
    /\ UNCHANGED <<disk, changes, fresh>>

\* Once more in this process, after the packages' plugins.
ImportInProcess(v) ==
    /\ At(v, "reimport")
    /\ LET plugin == Plugin(Proc(v).slug)
           r == Import(Builtin, plugin)
           ok == r.ok /\ disk[Proc(v).slug] # None
       IN  Step(v, IF ok THEN "judge" ELSE "read",
                [Proc(v) EXCEPT !.registry = IF ok THEN r.registry ELSE {}, !.imported = ok,
                                !.sound = plugin = None \/ (plugin # None /\ plugin.sound)])
    /\ UNCHANGED <<disk, changes, fresh>>

\* Lint, conformance and archetype sanity of what the first import provided; if
\* this process has not registered it the validation raises.
Judge(v) ==
    /\ At(v, "judge")
    /\ IF Proc(v).provides \subseteq Proc(v).registry
       THEN Step(v, "tests", [Proc(v) EXCEPT !.ok = Proc(v).sound, !.sound = FALSE])
       ELSE process' = [process EXCEPT ![v] = NoProcess]
    /\ UNCHANGED <<disk, changes, fresh>>

\* pytest in a process of its own, on what is there by now.  (A mutation has the
\* tests import their own template only.)
TestsPassAlone(s) == Plugin(s) = None \/ (Plugin(s) # None /\ (Plugin(s).tested => Plugin(s).sound))

TestsPass(s) ==
    \/ Plugin(s) = None
    \/ Plugin(s) # None /\ ~Plugin(s).tested
    \/ Plugin(s) # None /\ Plugin(s).tested /\ Plugin(s).sound /\ DiscoverPaths({}, None).ok

Tests(v) ==
    /\ At(v, "tests")
    /\ Step(v, "dryrun", [Proc(v) EXCEPT !.ok = @ /\ TestsPass(Proc(v).slug)])
    /\ UNCHANGED <<disk, changes, fresh>>

\* A template with an archetype is run, beside all the others.  (A mutation runs
\* it by itself.)
DryRunAlone(v) ==
    /\ At(v, "dryrun")
    /\ Step(v, "read", [Proc(v) EXCEPT !.registry = {}])
    /\ UNCHANGED <<disk, changes, fresh>>

DryRun(v) ==
    /\ At(v, "dryrun")
    /\ Step(v, "read",
            [Proc(v) EXCEPT !.registry = {},
                            !.ok = @ /\ \/ Proc(v).provides \cap Archetypes = {}
                                        \/ DiscoverPaths(Proc(v).registry, Proc(v).slug).ok])
    /\ UNCHANGED <<disk, changes, fresh>>

\* The verdict goes into template.json as it is read now; nothing is written when
\* it cannot be read.
ReadTemplate(v) ==
    /\ At(v, "read")
    /\ IF Readable(Proc(v).slug)
       THEN Step(v, "write", [Proc(v) EXCEPT
                                 !.provides = IF Proc(v).imported THEN @ ELSE disk[Proc(v).slug].provides,
                                 !.imported = FALSE])
       ELSE process' = [process EXCEPT ![v] = NoProcess]
    /\ UNCHANGED <<disk, changes, fresh>>

\* A validation ends; to the others a directory it has made again is one that was
\* changed under them.
Ended(v, remade) ==
    /\ process' = [w \in Validators |-> IF w = v THEN NoProcess
                                       ELSE [process[w] EXCEPT !.quiet = @ /\ ~remade]]
    /\ fresh' = [s \in Dirs |-> ~remade /\ IF s = Proc(v).slug THEN Proc(v).quiet ELSE fresh[s]]

\* The directory is made again if it is gone by now.
WriteValidation(v) ==
    /\ At(v, "write")
    /\ LET p == Proc(v) IN
       /\ disk' = [disk EXCEPT ![p.slug] =
                      [plugin   |-> Plugin(p.slug),
                       status   |-> IF p.ok THEN "valid" ELSE "invalid",
                       provides |-> p.provides]]
       /\ Ended(v, disk[p.slug] = None)
    /\ UNCHANGED changes

Validate(v) ==
    \/ ImportCheck(v) \/ ImportInProcess(v) \/ Judge(v) \/ Tests(v) \/ DryRun(v)
    \/ ReadTemplate(v) \/ WriteValidation(v)

-----------------------------------------------------------------------------
(* What else happens to the directory.                                     *)

Changed ==
    /\ changes < MaxChanges /\ changes' = changes + 1
    /\ process' = [v \in Validators |-> [process[v] EXCEPT !.quiet = FALSE]]
    /\ fresh' = [s \in Dirs |-> FALSE]

Scaffold(s) ==
    /\ disk[s] = None
    /\ disk' = [disk EXCEPT ![s] = Scaffolded(s)]
    /\ Changed

Edit(s) ==
    /\ disk[s] # None
    /\ \E p \in Drafts : disk' = [disk EXCEPT ![s].plugin = p]
    /\ Changed

Garble(s) ==
    /\ Readable(s)
    /\ disk' = [disk EXCEPT ![s].status = "unreadable"]
    /\ Changed

DeleteTemplate(s) ==
    /\ disk[s] # None
    /\ disk' = [disk EXCEPT ![s] = None]
    /\ Changed

Next ==
    \/ \E v \in Validators : Validate(v) \/ \E s \in Dirs : Begin(v, s)
    \/ \E s \in Dirs : Scaffold(s) \/ Edit(s) \/ Garble(s) \/ DeleteTemplate(s)

Spec == Init /\ [][Next]_vars

Processes ==
    [pc : {"idle", "import", "reimport", "judge", "tests", "dryrun", "read", "write"},
     slug : Dirs \cup {None}, provides : SUBSET STRING, registry : SUBSET (STRING \cup Builtin),
     imported : BOOLEAN, ok : BOOLEAN, sound : BOOLEAN, quiet : BOOLEAN]

TypeOK ==
    /\ disk \in [Dirs -> Directories \cup {None}]
    /\ process \in [Validators -> Processes]
    /\ \A v \in Validators : process[v].pc # "idle" => process[v].slug \in Dirs
    /\ changes \in Nat
    /\ fresh \in [Dirs -> BOOLEAN]

-----------------------------------------------------------------------------
(***************************************************************************)
(* Properties.                                                             *)
(***************************************************************************)

\* Imported in any order after the packages' plugins in base, these templates do
\* not get in each other's way.
Coexist(slugs, base) ==
    \A s \in slugs :
        /\ Plugin(s) # None => ~Plugin(s).raises
        /\ IsInjective(Adds(Plugin(s)))
        /\ Range(Adds(Plugin(s))) \cap base = {}
        /\ \A t \in slugs \ {s} : Range(Adds(Plugin(s))) \cap Range(Adds(Plugin(t))) = {}

HasArchetype(s) == Range(Adds(Plugin(s))) \cap Archetypes # {}

Tested(s) == Plugin(s) # None /\ Plugin(s).tested

\* What a template has to be to deserve its verdict.
Deserving(s) ==
    /\ Coexist({s}, Builtin)
    /\ Plugin(s) # None => Plugin(s).sound
    /\ Tested(s) => Coexist(Dirs, {})
    /\ HasArchetype(s) => Coexist(Dirs, Builtin)

\* A verdict reached while nothing was changed is the one the directory deserves,
\* although it is put together by three processes that import different things
\* after one another: by itself, after the packages, beside the other templates.
\* And template.json then names what the template provides.
VerdictHolds ==
    \A s \in Dirs : fresh[s] =>
        /\ disk[s].status = "valid" <=> Deserving(s)
        /\ Coexist({s}, Builtin) => disk[s].provides = Range(Adds(Plugin(s)))

\* The catalog, which imports the templates one by one and goes on after a broken
\* one, credits a template with what it registers and with all of it; it leaves
\* none out exactly when a run, which imports the directory at once and stops at
\* the first failure, can start.
CatalogFaithful ==
    LET c == Catalog IN
    /\ \A n \in DOMAIN c.source :
           c.source[n] # None => n \in Range(Adds(Plugin(c.source[n]))) /\ c.source[n] \notin c.left
    /\ \A s \in Dirs \ c.left : Readable(s) => \A n \in Range(Adds(Plugin(s))) : c.source[n] = s
    /\ (\A s \in Dirs : disk[s] # None => Readable(s)) => (c.left = {} <=> RunLoads)

\* When every template is found valid as the directory stands, and one of them at
\* least was tried beside the others, a run can start.
ValidDirectoryRuns ==
    /\ \A s \in Dirs : disk[s] # None => fresh[s] /\ disk[s].status = "valid"
    /\ \E s \in Dirs : Tested(s) \/ HasArchetype(s)
    => RunLoads

(***************************************************************************)
(* What the comments and documents say and the code does not keep.         *)
(***************************************************************************)

\* A broken template is just left out of the catalog: what it registered before it
\* failed is kept, and a healthy one that registers the same name is left out too.
HealthyListed ==
    \A s \in Catalog.left :
        ~Coexist({s} \cup {t \in Dirs \ Catalog.left : Readable(t)}, Builtin)

\* The import in the validating process cannot fail, since the first one has
\* proved it safe: the first one runs without the packages' plugins.
ReimportSafe ==
    \A v \in Validators : At(v, "read") /\ Proc(v).quiet /\ Proc(v).provides # {} => Proc(v).imported

\* Runs can be made with the templates that are valid: two untested playbooks of
\* one name are both valid, and no run starts.
ValidMeansRunnable ==
    (\A s \in Dirs : disk[s] # None => fresh[s] /\ disk[s].status = "valid") => RunLoads
=============================================================================

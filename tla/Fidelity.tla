------------------------------ MODULE Fidelity ------------------------------
(***************************************************************************)
(* How a reconstructed graph is scored against the gold one                 *)
(* (reconstruct/fidelity.py): nodes are paired by id, then by name, edges    *)
(* and groundings are compared through that pairing.                        *)
(*                                                                         *)
(* A side is a function from ids to [type, forms], forms being the names of  *)
(* the node.  A score is the three counts its ratios are made of; nothing   *)
(* here divides.                                                           *)
(***************************************************************************)
EXTENDS Corpus

CONSTANTS
    Fold,  \* names whose lower case and single spaces differ from them -> those
    Trim   \* folded names that end in punctuation -> without it

Folded(name) == IF name \in DOMAIN Fold THEN Fold[name] ELSE name
Bare(name) == IF name \in DOMAIN Trim THEN Trim[name] ELSE name

Tokens(forms) ==
    {Folded(f) : f \in forms \ {""}} \cup ({Bare(Folded(f)) : f \in forms \ {""}} \ {""})

PRF(predicted, gold) ==
    [hits |-> Cardinality(predicted \cap gold), predicted |-> Cardinality(predicted),
     gold |-> Cardinality(gold)]

\* Twice hits over the sum is F1; the better of two, compared without dividing.
AtLeastAsGood(a, b) == a.hits * (b.predicted + b.gold) >= b.hits * (a.predicted + a.gold)

-----------------------------------------------------------------------------
(* Nodes.                                                                  *)

Exact(recon, gold) ==
    {r \in DOMAIN recon \cap DOMAIN gold : recon[r].type = gold[r].type}

\* Gold nodes of the same type that share a name with r and have no twin yet.
Candidates(recon, gold, r) ==
    {g \in DOMAIN gold \ Exact(recon, gold) :
        /\ gold[g].type = recon[r].type
        /\ Tokens(gold[g].forms) \cap Tokens(recon[r].forms) # {}}

\* In the order of the ids, each of the others takes the first that is free;
\* the slip does not ask whether it is.
TakenTwice(taken, free) == free
StillFree(taken, free) == free \ taken

Alignment(recon, gold) ==
    LET twins == Exact(recon, gold)
        Take(r, a) ==
            LET free == StillFree(Range(a), Candidates(recon, gold, r))
            IN IF free = {} THEN a ELSE a @@ (r :> Ordered(free)[1])
    IN FoldSeq(Take, [r \in twins |-> r], Ordered(DOMAIN recon \ twins))

\* What is counted as two gold entities in one node, and as one in two nodes.
OverMerged(recon, gold) ==
    {r \in DOMAIN recon \ Exact(recon, gold) : Cardinality(Candidates(recon, gold, r)) >= 2}
UnderMerged(recon, gold) ==
    {g \in DOMAIN gold :
        Cardinality({r \in DOMAIN recon \ Exact(recon, gold) :
                        g \in Candidates(recon, gold, r)}) >= 2}

Through(a, id) == IF id \in DOMAIN a THEN a[id] ELSE id

NodeScore(recon, gold) ==
    LET a == Alignment(recon, gold)
    IN [hits |-> Cardinality(DOMAIN a), predicted |-> Cardinality(DOMAIN recon),
        gold |-> Cardinality(DOMAIN gold)]

\* A node that has a twin counts under the twin's type.
NodeScoreOf(recon, gold, type) ==
    LET a == Alignment(recon, gold)
        TypeOf(r) == IF r \in DOMAIN a THEN gold[a[r]].type ELSE recon[r].type
    IN [hits |-> Cardinality({r \in DOMAIN a : gold[a[r]].type = type}),
        predicted |-> Cardinality({r \in DOMAIN recon : TypeOf(r) = type}),
        gold |-> Cardinality({g \in DOMAIN gold : gold[g].type = type})]

-----------------------------------------------------------------------------
(* Edges are sets of <<src, relation, dst>>, groundings sets of pairs.      *)

Aligned(links, a) == {<<Through(a, l[1]), l[2], Through(a, l[3])>> : l \in links}

EdgeScore(links, goldLinks, a) == PRF(Aligned(links, a), goldLinks)
EdgeScoreOf(links, goldLinks, a, rel) ==
    PRF({l \in Aligned(links, a) : l[2] = rel}, {l \in goldLinks : l[2] = rel})

GroundingScore(grounds, goldGrounds, a) ==
    PRF({<<Through(a, g[1]), g[2]>> : g \in grounds}, goldGrounds)
=============================================================================

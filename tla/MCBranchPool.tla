---------------------------- MODULE MCBranchPool ----------------------------
(* BranchPool with two Runs, and manifests that meet: a plain and a forced  *)
(* pair, two pairs, two sources for one branch, and audit refs alone.       *)
EXTENDS BranchPool, TLC

CONSTANTS main, topic, x, r1, r2, none

MCMirrored == {main}
MCFresh    == {topic}
MCUsers    == {x}
MCRuns     == {r1, r2}

Main == <<"host", main>>
X    == <<"user", x>>
Pair(from, to, force) == [from |-> from, to |-> to, force |-> force]

MCOutputs   == {none, X, <<"runs", r1>>}
MCBases     == {Main, X}
MCImports   == {{}, {<<"runs", r1>>}}
MCManifests == {<<Pair(X, main, FALSE), Pair(X, topic, FALSE)>>,
                <<Pair(X, main, TRUE)>>,
                <<Pair(Main, topic, FALSE), Pair(X, topic, FALSE)>>,
                <<Pair(Audit(r1), main, TRUE)>>}

Symmetry == Permutations(Closers)
=============================================================================

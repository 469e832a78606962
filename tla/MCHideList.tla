----------------------------- MODULE MCHideList -----------------------------
(* Small instances of HideList.                                             *)
EXTENDS HideList, TLC

CONSTANTS t1, t2

\* A process, an isolated process, a name validate rejects and the default target.
MCTargets == {<<"app", "main">>, <<"isolated", "iso">>, <<"gms", "bad name">>, <<"gms", "snet">>}
MCValid == MCTargets \ {<<"gms", "bad name">>}
MCDefault == {<<"gms", "snet">>}

\* A package with two processes: rm may name one or both.
MCTwoTargets == {<<"app", "main">>, <<"app", "sub">>}
MCNone == {}

MCSymmetry == Permutations(Threads)
=============================================================================

------------------------- MODULE MCIncrementalUpdate -------------------------
(* Model checking IncrementalUpdate: revisions of one file with one or two *)
(* units, each differing from the first in one way the comparison sees.    *)
EXTENDS IncrementalUpdate, TLC

Unit(slot, seen, hash, state, transfer, meta) ==
    [path |-> "p", slot |-> slot, seen |-> seen, hash |-> hash,
     state |-> state, transfer |-> transfer, meta |-> meta]
Revision(config, file, units, messages) ==
    [config |-> config, files |-> [p \in {"p"} |-> file], units |-> units,
     gaps |-> {[code |-> "g", message |-> m] : m \in messages}]

First    == Unit("x", "v", "t1", "present", TRUE, "m1")
Original == Revision("c1", "f1", {First}, {})
Relabel  == Revision("c1", "f1", {[First EXCEPT !.meta = "m2"]}, {})
Edited   == Revision("c1", "f2", {First}, {})
Observed == Revision("c1", "f1", {[First EXCEPT !.seen = "w"]}, {})
Grown    == Revision("c1", "f1", {First, Unit("y", "v", "t1", "redacted", FALSE, "m1")}, {})
Twice    == Revision("c1", "f1", {First, Unit("x", "v", "t2", "present", TRUE, "m1")}, {})
Gaps     == Revision("c1", "f1", {First}, {"a", "b"})
Tuned    == Revision("c2", "f1", {First}, {})

AllBundles == {Original, Relabel, Edited, Observed, Grown, Twice, Gaps, Tuned}
FewBundles == {Original, Relabel, Grown}

Symmetry == Permutations(Snapshots) \cup Permutations(Profiles)
=============================================================================

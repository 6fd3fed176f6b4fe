-------------------------- MODULE MCSavedSessions --------------------------
(***************************************************************************)
(* Instances of SavedSessions for TLC: a stack of one commit or of two,    *)
(* its rebase (same patch and message), its reword (same patch), and the   *)
(* fixup that extends it.  It has no Change-Id.                            *)
(***************************************************************************)
EXTENDS SavedSessions

MCSingle   == [base |-> "b0", commits |-> <<"c1">>, change |-> "", patch |-> "p1", message |-> "m1"]
MCRebased  == [MCSingle EXCEPT !.base = "b1", !.commits = <<"d1">>]
MCReworded == [MCSingle EXCEPT !.commits = <<"e1">>, !.message = "m2"]
MCFixedUp  == [MCSingle EXCEPT !.commits = <<"c1", "c2">>, !.patch = "p2"]
MCRebasedFixedUp == [MCFixedUp EXCEPT !.base = "b1", !.commits = <<"d1", "d2">>]
MCNext     == [base |-> "e1", commits |-> <<"n1">>, change |-> "", patch |-> "p3", message |-> "m3"]

MCViews ==
    {<<MCSingle>>, <<MCRebased>>, <<MCFixedUp>>, <<MCRebasedFixedUp>>, <<MCReworded, MCNext>>}

MCPlainViews == {<<MCSingle>>, <<MCRebased>>}
============================================================================

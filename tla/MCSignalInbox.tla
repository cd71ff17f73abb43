---------------------------- MODULE MCSignalInbox ----------------------------
(* Instances of SignalInbox for TLC. *)
EXTENDS SignalInbox, TLC

CONSTANTS s1, p1, p2, x1, x2, m1, t1, t2

\* Every session is a principal of its own.
OwnPrincipal == [x \in Sessions |-> IF x = x1 THEN p1 ELSE p2]
SeesAll      == [p \in Principals |-> SignalTypes]
SeesFirst    == [p \in Principals |-> {t1}]
AllAboutOne  == [m \in Messages |-> s1]
OneType      == [m \in Messages |-> t1]
TwoTypes     == [m \in Messages |-> IF m = m1 THEN t1 ELSE t2]

\* Listers are told apart by nothing, and no liveness is checked with them.
EitherLister == Permutations(Listers)
=============================================================================

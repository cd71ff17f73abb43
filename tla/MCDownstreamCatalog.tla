------------------------- MODULE MCDownstreamCatalog -------------------------
(* Instances of DownstreamCatalog for TLC. *)
EXTENDS DownstreamCatalog

CONSTANTS c1, c2, a, b, h

\* Native tools have these names, too.
NativeNames == <<<<"status">>, <<"list_tools">>>>

For(n, x) == [by |-> h, tool |-> n, args |-> x]

\* Nothing, a reference for a call or for another, two that differ, evidence,
\* evidence next to a reference for something else, and invalid evidence.
Typical ==
    [meta : {NoReference, For(<<"status">>, a)}, argument : {NoReference}, evidence : {"none"}]
    \cup {[meta |-> For(<<"status">>, a), argument |-> For(<<"status">>, b), evidence |-> "none"],
          [meta |-> NoReference, argument |-> For(<<"list_tools">>, a), evidence |-> h],
          [meta |-> NoReference, argument |-> NoReference, evidence |-> h],
          [meta |-> NoReference, argument |-> NoReference, evidence |-> "invalid"]}

\* One provider at a time: they share no state.
OneOfThem == {{"n8n"}, {"openwa"}}

Symmetry == Permutations({c1, c2})
=============================================================================

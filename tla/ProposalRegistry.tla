-------------------------- MODULE ProposalRegistry --------------------------
(***************************************************************************)
(* What the store of source proposals promises: a durable registry with a  *)
(* history, to which the instances that handle creations add.  A creation  *)
(* leaves the proposals of every other instance as they are; of those of   *)
(* its own instance it may drop some, and bring some back.  A caller is    *)
(* told that its proposal is registered only if it has been, and what an   *)
(* instance shows is the registry as it was at some time, never earlier    *)
(* than what it showed before.                                             *)
(***************************************************************************)
EXTENDS Naturals, Sequences

CONSTANTS Proposals, Instances

VARIABLES
    history,  \* what was registered, after each creation
    home,     \* home[p]: the instance that handles p's creation
    told,     \* the proposals whose creation was answered with success
    shown     \* shown[i]: how much of the history instance i showed last

vars == <<history, home, told, shown>>

Now == Len(history)

RegisteredAt(g) == IF g = 0 THEN {} ELSE history[g]

Ever == UNION {RegisteredAt(g) : g \in 0..Now}

Of(i) == {p \in Proposals : home[p] = i}

Init == /\ history = <<>>
        /\ home \in [Proposals -> Instances]
        /\ told = {}
        /\ shown = [i \in Instances |-> 0]

Register(p) == /\ \E own \in SUBSET (Ever \cap Of(home[p])) :
                     history' = Append(history,
                         (RegisteredAt(Now) \ Of(home[p])) \cup own \cup {p})
               /\ told' \in {told, told \cup {p}}
               /\ UNCHANGED <<home, shown>>

Answer(p) == /\ p \in Ever
             /\ told' = told \cup {p}
             /\ UNCHANGED <<history, home, shown>>

Show(i) == /\ \E g \in shown[i]..Now : shown' = [shown EXCEPT ![i] = g]
           /\ UNCHANGED <<history, home, told>>

Next == \/ \E p \in Proposals : Register(p) \/ Answer(p)
        \/ \E i \in Instances : Show(i)

Spec == Init /\ [][Next]_vars
=============================================================================

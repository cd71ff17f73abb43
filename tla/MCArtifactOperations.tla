------------------------- MODULE MCArtifactOperations -------------------------
(* Instances of ArtifactOperations for TLC. *)
EXTENDS ArtifactOperations, TLC

CONSTANTS c1, c2, root, top, folder, file, other, new

All == Capabilities
Source(location, type, can) ==
    [location |-> location, type |-> type, active |-> TRUE, capabilities |-> can]

Manager == [type |-> "management", standing |-> "active", workspace |-> TRUE,
            sources |-> {}, capabilities |-> All]
Developer(w, sources, can) ==
    [type |-> "developer", standing |-> "active", workspace |-> w, sources |-> sources,
     capabilities |-> can]
Bearers == {Manager, [Manager EXCEPT !.type = "unknown"],
            [Manager EXCEPT !.type = "signal_worker"],
            Developer(TRUE, {1}, All), Developer(TRUE, {1, 2}, All), Developer(TRUE, {2}, All),
            Developer(FALSE, {1, 2}, All), Developer(TRUE, {1, 2}, {"read"}),
            [Developer(TRUE, {1, 2}, All) EXCEPT !.standing = "revoked"],
            [Developer(TRUE, {1, 2}, All) EXCEPT !.standing = "expired"]}

\* A source, an archive beside it, and an artifact in a folder.
Folders ==
    [registry |-> <<Source(top, "knowledge_source", All),
                    Source(other, "archive_destination", All)>>,
     blocked |-> {}, drives |-> {}, depth |-> 2,
     kind |-> [x \in Items |-> IF x \in {file, new} THEN "document" ELSE "folder"],
     home |-> (root :> None @@ top :> root @@ folder :> top @@ file :> folder
               @@ other :> root @@ new :> None),
     spare |-> {new}, bearers |-> {Manager},
     tools |-> {"move", "delete"},
     wanted |-> {top, file}, goals |-> {top}, moves |-> 2]

\* The tools that add an item.
Copies ==
    [Folders EXCEPT !.tools = {"copy", "create", "update"}, !.wanted = {folder, file},
                    !.moves = 1]

\* A shared drive with a blocked folder in it, and a source below that.
Drives ==
    [Folders EXCEPT
        !.registry = <<Source(root, "knowledge_source", All),
                       Source(top, "knowledge_source", Mutations)>>,
        !.blocked = {folder}, !.drives = {root}, !.kind = [@ EXCEPT ![file] = "sheet"],
        !.tools = {"range", "legacy", "share", "move"}, !.moves = 1]

\* A DOCX.
Binary ==
    [Folders EXCEPT
        !.kind = [x \in Items |-> IF x = file THEN "office"
                                  ELSE IF x = new THEN "document" ELSE "folder"],
        !.home = [@ EXCEPT ![file] = top], !.depth = 1, !.moves = 0,
        !.tools = {"edit", "rename", "inspect"}, !.wanted = {file}]

\* An Office file to convert.
Office == [Binary EXCEPT !.tools = {"convert", "delete"}, !.depth = 2, !.moves = 1]

\* Sources that do not allow everything, and all kinds of bearers.
Closed ==
    {[Folders EXCEPT !.registry = <<[@[1] EXCEPT !.active = b, !.type = t, !.capabilities = can],
                                    Source(other, "archive_destination", can2)>>,
                     !.tools = {"retrieve", "move"}, !.wanted = {file},
                     !.goals = {}, !.moves = 1, !.bearers = Bearers] :
        b \in BOOLEAN, t \in Types, can \in {{"read"}, Mutations}, can2 \in {{}, {"move"}}}

Deployments == {Folders, Copies, Drives, Binary, Office} \cup Closed

Symmetry == Permutations(Calls)
=============================================================================

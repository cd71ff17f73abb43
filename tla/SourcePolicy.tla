----------------------------- MODULE SourcePolicy -----------------------------
(***************************************************************************)
(* Who may do what to which source.  A request passes through several      *)
(* layers: authentication, the tool's own authorisation, that of the tool  *)
(* or REST wrapper, and the access and mutation policies.  Each layer      *)
(* looks at some of the principal's scopes and of the source's metadata.   *)
(* The registry of sources is a sequence, as in sources.yaml, and a source *)
(* is known by its position; the bearer of a request is a record.          *)
(***************************************************************************)
EXTENDS Naturals, Sequences, FiniteSets

CONSTANTS
    Items,  \* files and folders of Drive, and shared drives
    None    \* no such item

Types        == {"knowledge_source", "archive_destination", "validation_source"}
Readable     == {"knowledge_source", "validation_source"}
Mutations    == {"create", "update", "move", "delete", "share", "convert"}
Capabilities == {"read"} \cup Mutations

SourceDefinition == [location : Items, type : Types, active : BOOLEAN,
                     capabilities : SUBSET Capabilities]

\* A bearer token, and what the principal registry says of it: nothing, or
\* that it expired or was revoked, or the scopes it has.
Principal == [type         : {"management", "developer", "signal_worker", "unknown"},
              standing     : {"active", "revoked", "expired"},
              workspace    : BOOLEAN,
              sources      : SUBSET Nat,
              capabilities : SUBSET Capabilities]

\* The tools that this development models, and the capability of each.
Capability == [retrieve |-> "read", range |-> "read", inspect |-> "read", legacy |-> "read",
               copy |-> "create", create |-> "create", rename |-> "update",
               update |-> "update", edit |-> "update", move |-> "move", delete |-> "delete",
               share |-> "share", convert |-> "convert"]
Tools          == DOMAIN Capability
ManagementOnly == {"inspect", "edit"}
Rest           == {"retrieve", "range", "legacy"}

NoSource == 0

-----------------------------------------------------------------------------
(* The layers, from the outside in. *)

\* PrincipalResolver.resolve.
Authenticated(p) == p.type # "unknown" /\ p.standing = "active"

\* _developer_http_authorization, and the workers' bar from REST.
RestAllowed(p, tool, k) ==
    CASE p.type = "management" -> TRUE
      [] p.type = "developer"  -> /\ p.workspace /\ "read" \in p.capabilities
                                  /\ tool # "legacy" /\ k \in p.sources
      [] OTHER -> FALSE

\* _tool_authorization_error.
ToolAllowed(p, tool) ==
    CASE p.type = "management" -> TRUE
      [] p.type = "developer"  -> /\ tool \notin ManagementOnly /\ p.workspace
                                  /\ Capability[tool] \in p.capabilities
      [] OTHER -> FALSE

\* _effective_developer_capabilities: some source that the principal has allows it.
Effective(p, registry) ==
    {c \in p.capabilities : \E k \in 1..Len(registry) :
        k \in p.sources /\ registry[k].active /\ c \in registry[k].capabilities}

\* _principal_can_see_tool.
Shown(p, tool, registry) ==
    /\ ToolAllowed(p, tool)
    /\ p.type = "developer" => Capability[tool] \in Effective(p, registry)

\* Mutant of WorkspaceOperation: the source's own capabilities are the
\* policies' business.
WorkspaceOperationAnySource(p, capability, registry, k) ==
    p.workspace /\ capability \in p.capabilities

\* authorize_workspace_operation.
WorkspaceOperation(p, capability, registry, k) ==
    /\ p.workspace /\ capability \in p.capabilities
    /\ k \in p.sources /\ capability \in registry[k].capabilities

\* _execute_tool: a developer's scope covers the source, and the archive that
\* a move goes to.
Executed(p, tool, registry, k, archive) ==
    p.type = "developer" =>
        /\ WorkspaceOperation(p, Capability[tool], registry, k)
        /\ archive # NoSource => WorkspaceOperation(p, Capability[tool], registry, archive)

\* SourceAccessPolicy.authorize_source, require_read=False.
Governed(registry, blocked, k) ==
    registry[k].location \notin blocked /\ registry[k].active

\* SourceAccessPolicy.authorize_source.
ReadGoverned(registry, blocked, k) ==
    /\ Governed(registry, blocked, k)
    /\ registry[k].type \in Readable /\ "read" \in registry[k].capabilities

\* ContentMutationPolicy.authorize.
MutationAllowed(p, tool, registry, blocked, k, approved) ==
    /\ p.type = "management" => approved
    /\ p.type = "developer" => WorkspaceOperation(p, Capability[tool], registry, k)
    /\ Governed(registry, blocked, k)
    /\ Capability[tool] \in registry[k].capabilities

\* ContentMutationPolicy.authorize_archive_destination.
ArchiveAllowed(registry, blocked, k) ==
    /\ registry[k].type = "archive_destination" /\ Governed(registry, blocked, k)
    /\ "move" \in registry[k].capabilities

-----------------------------------------------------------------------------
(* What was read of an item against the registry. *)

\* SourceAccessPolicy.authorize_resource_for_source.
BelongsTo(locations, registry, blocked, k) ==
    locations \cap blocked = {} /\ registry[k].location \in locations

\* SourceAccessPolicy.authorize: the first readable source decides.
BelongsToAny(locations, registry, blocked) ==
    /\ locations \cap blocked = {}
    /\ \E k \in 1..Len(registry) :
          /\ registry[k].type \in Readable /\ registry[k].location \in locations
          /\ registry[k].active
          /\ \A j \in 1..(k - 1) :
                ~(registry[j].type \in Readable /\ registry[j].location \in locations)

-----------------------------------------------------------------------------
(* What all the layers together are for. *)

\* The principal's own right to the operation.
Mandate(p, tool, k, archive, approved) ==
    /\ p.standing = "active"
    /\ \/ p.type = "management" /\ (Capability[tool] \in Mutations => approved)
       \/ /\ p.type = "developer" /\ p.workspace
          /\ tool \notin ManagementOnly \cup {"legacy"}
          /\ Capability[tool] \in p.capabilities
          /\ {k, archive} \ {NoSource} \subseteq p.sources

\* The sources' consent to it: they are active, not blocked, and allow it.
Consent(tool, registry, blocked, k, archive) ==
    \A j \in {k, archive} \ {NoSource} :
        /\ registry[j].active /\ registry[j].location \notin blocked
        /\ Capability[tool] \in registry[j].capabilities
        /\ j = archive => registry[j].type = "archive_destination"
        /\ Capability[tool] = "read" => registry[j].type # "archive_destination"
=============================================================================

-------------------------------- MODULE McpServer --------------------------------
(***************************************************************************)
(* One MCP server of a session (mcp-client-manager.ts, mcp-client.ts): it  *)
(* is started, restarted and stopped while it connects and lists its       *)
(* tools, and it says when they change.                                    *)
(*                                                                         *)
(* A discovery is a call of maybeDiscoverMcpServer; it connects the client *)
(* in the manager's map, or makes one.  A client is named after the        *)
(* discovery that made it.  Other servers only share the discovery's state *)
(* with this one; its own discoveries stand for theirs.                    *)
(***************************************************************************)
EXTENDS Naturals

CONSTANTS Discoveries,    \* numbered in their order
          MaxToolChanges  \* bound: how often the server changes its tools

ASSUME McpAssumption == Discoveries \subseteq Nat \ {0} /\ MaxToolChanges \in Nat

VARIABLES mcpClients,        \* the manager's client for the server, or 0
          discovery,         \* discovery[d]: the call of maybeDiscoverMcpServer
          discoveryPromise,  \* the discovery whose promise was chained last, or 0
          discoveryState,
          mcpClient,         \* mcpClient[c]: its status and its refreshTools
          mcpTools,          \* versions of the tool list that are registered
          toolsVersion,      \* the server's tool list
          mcpDisturbed       \* what may leave other tools registered happened

mcpVars == <<mcpClients, discovery, discoveryPromise, discoveryState, mcpClient, mcpTools,
             toolsVersion, mcpDisturbed>>
promiseVars == <<discoveryPromise, discoveryState>>

Versions == 1 .. MaxToolChanges + 1

\* "lists" awaits the prompts and tools, "resources" the resources.
McpTypeOK ==
    /\ mcpClients \in Discoveries \cup {0}
    /\ discovery \in [Discoveries -> [
           at: {"new", "closing", "connects", "lists", "resources", "done", "settled"},
           client: Discoveries \cup {0}, read: SUBSET Versions, before: SUBSET Discoveries]]
    /\ discoveryPromise \in Discoveries \cup {0}
    /\ discoveryState \in {"not_started", "in_progress", "completed"}
    /\ mcpClient \in [Discoveries -> [
           status: {"disconnected", "connecting", "connected", "disconnecting"},
           refresh: {"idle", "listing", "listed", "updating"}, \* isRefreshingTools
           pending: BOOLEAN,                                   \* pendingToolRefresh
           read: SUBSET Versions, notes: 0 .. MaxToolChanges]]
    /\ mcpTools \subseteq Versions /\ toolsVersion \in Versions
    /\ mcpDisturbed \in BOOLEAN

McpInit ==
    /\ mcpClients = 0
    /\ discovery = [d \in Discoveries |-> [at |-> "new", client |-> 0, read |-> {},
                                           before |-> {}]]
    /\ discoveryPromise = 0 /\ discoveryState = "not_started"
    /\ mcpClient = [c \in Discoveries |-> [status |-> "disconnected", refresh |-> "idle",
                                           pending |-> FALSE, read |-> {}, notes |-> 0]]
    /\ mcpTools = {} /\ toolsVersion = 1
    /\ mcpDisturbed = FALSE

-------------------------------------------------------------------------------
(* McpClient *)

\* disconnect() up to its first await; it returns at once unless connected.
disconnects(c) ==
    IF mcpClient[c].status = "connected"
      THEN /\ mcpClient' = [mcpClient EXCEPT ![c].status = "disconnecting", ![c].notes = 0]
           /\ mcpTools' = {}
      ELSE UNCHANGED <<mcpClient, mcpTools>>

\* The requests of a closed connection fail: a refresh goes on without tools,
\* a discovery ends.  Who awaits the closing connects again.
Closed(c) ==
    /\ mcpClient[c].status = "disconnecting"
    /\ LET waits(d) == discovery[d].client = c /\ discovery[d].at = "closing"
           listing == mcpClient[c].refresh \in {"listing", "listed"}
       IN  /\ mcpClient' = [mcpClient EXCEPT
                  ![c].status = IF \E d \in Discoveries : waits(d) THEN "connecting"
                                ELSE "disconnected",
                  ![c].refresh = IF listing THEN "updating" ELSE @, ![c].read = {}]
           /\ discovery' = [d \in Discoveries |->
                  IF waits(d) THEN [discovery[d] EXCEPT !.at = "connects"]
                  ELSE IF discovery[d].client = c /\ discovery[d].at \in {"lists", "resources"}
                    THEN [discovery[d] EXCEPT !.at = "done", !.read = {}]
                    ELSE discovery[d]]
           /\ mcpTools' = IF listing THEN {} ELSE mcpTools
    /\ UNCHANGED <<mcpClients, promiseVars, toolsVersion, mcpDisturbed>>

\* close() throws: the status stays, and no one can connect the client again.
CloseFails(c) ==
    /\ mcpClient[c].status = "disconnecting"
    /\ \E d \in Discoveries :
           /\ discovery[d].client = c /\ discovery[d].at = "closing"
           /\ discovery' = [discovery EXCEPT ![d].at = "done"]
    /\ UNCHANGED <<mcpClients, promiseVars, mcpClient, mcpTools, toolsVersion, mcpDisturbed>>

\* onerror of a connected client; its tools stay registered.
ServerError(c) ==
    /\ mcpClient[c].status = "connected"
    /\ mcpClient' = [mcpClient EXCEPT ![c].status = "disconnected", ![c].notes = 0]
    /\ mcpDisturbed' = TRUE
    /\ UNCHANGED <<mcpClients, discovery, promiseVars, mcpTools, toolsVersion>>

\* The server changes its tools and tells every client that listens.  (Bound:
\* not after an event that ToolsUpToDate excepts.)
ToolsChange ==
    /\ toolsVersion < MaxToolChanges + 1 /\ ~mcpDisturbed
    /\ toolsVersion' = toolsVersion + 1
    /\ mcpClient' = [c \in Discoveries |->
           IF mcpClient[c].status = "connected" THEN [mcpClient[c] EXCEPT !.notes = @ + 1]
           ELSE mcpClient[c]]
    /\ mcpDisturbed' = (\E d \in Discoveries : discovery[d].at = "resources")
    /\ UNCHANGED <<mcpClients, discovery, promiseVars, mcpTools>>

RefreshNotified_dropped(c) ==
    /\ mcpClient[c].notes > 0
    /\ mcpClient' = [mcpClient EXCEPT ![c].notes = @ - 1,
           ![c].refresh = IF @ = "idle" THEN "listing" ELSE @]
    /\ UNCHANGED <<mcpClients, discovery, promiseVars, mcpTools, toolsVersion, mcpDisturbed>>

\* refreshTools: notifications during a refresh are one further refresh.
RefreshNotified(c) ==
    /\ mcpClient[c].notes > 0
    /\ mcpClient' = [mcpClient EXCEPT ![c].notes = @ - 1,
           ![c].refresh = IF @ = "idle" THEN "listing" ELSE @,
           ![c].pending = (mcpClient[c].refresh # "idle")]
    /\ UNCHANGED <<mcpClients, discovery, promiseVars, mcpTools, toolsVersion, mcpDisturbed>>

\* The server answers tools/list.
RefreshListed(c) ==
    /\ mcpClient[c].refresh = "listing"
    /\ mcpClient[c].status \in {"connected", "disconnecting"}
    /\ mcpClient' = [mcpClient EXCEPT ![c].refresh = "listed", ![c].read = {toolsVersion}]
    /\ UNCHANGED <<mcpClients, discovery, promiseVars, mcpTools, toolsVersion, mcpDisturbed>>

\* The answer replaces the server's tools; onToolsUpdated is awaited.
RefreshReplaces(c) ==
    /\ mcpClient[c].refresh = "listed"
    /\ mcpTools' = mcpClient[c].read
    /\ mcpClient' = [mcpClient EXCEPT ![c].refresh = "updating", ![c].read = {}]
    /\ UNCHANGED <<mcpClients, discovery, promiseVars, toolsVersion, mcpDisturbed>>

\* A request that fails counts as an answer without tools.
RefreshFails(c) ==
    /\ mcpClient[c].refresh = "listing"
    /\ mcpTools' = {}
    /\ mcpClient' = [mcpClient EXCEPT ![c].refresh = "updating"]
    /\ mcpDisturbed' = TRUE
    /\ UNCHANGED <<mcpClients, discovery, promiseVars, toolsVersion>>

\* The loop's condition, and its check of the status.
RefreshEnds(c) ==
    /\ mcpClient[c].refresh = "updating"
    /\ mcpClient' = [mcpClient EXCEPT ![c].pending = FALSE,
           ![c].refresh = IF mcpClient[c].pending /\ mcpClient[c].status = "connected"
                            THEN "listing" ELSE "idle"]
    /\ UNCHANGED <<mcpClients, discovery, promiseVars, mcpTools, toolsVersion, mcpDisturbed>>

-------------------------------------------------------------------------------
(* McpClientManager *)

\* The promise is chained to the one before it.
chained(d) ==
    /\ discoveryPromise' = d
    /\ discoveryState' = "in_progress"

before == IF discoveryPromise = 0 THEN {}
          ELSE {discoveryPromise} \cup discovery[discoveryPromise].before

called(d) == discovery[d].at = "new" /\ \A e \in Discoveries : e < d => discovery[e].at # "new"

\* maybeDiscoverMcpServer without a client: a new one connects.
StartServer(d) ==
    /\ called(d) /\ mcpClients = 0
    /\ mcpClients' = d
    /\ mcpClient' = [mcpClient EXCEPT ![d].status = "connecting"]
    /\ discovery' = [discovery EXCEPT ![d].at = "connects", ![d].client = d,
                                      ![d].before = before]
    /\ chained(d)
    /\ UNCHANGED <<mcpTools, toolsVersion, mcpDisturbed>>

\* With one: it is disconnected first, which takes time if it was connected.
RestartServer(d) ==
    /\ called(d) /\ mcpClients # 0
    /\ LET c == mcpClients
           connected == mcpClient[c].status = "connected"
           idle == mcpClient[c].status = "disconnected"
       IN  /\ IF connected THEN disconnects(c)
              ELSE /\ mcpClient' = IF idle THEN [mcpClient EXCEPT ![c].status = "connecting"]
                                   ELSE mcpClient
                   /\ UNCHANGED mcpTools
           /\ discovery' = [discovery EXCEPT ![d].client = c, ![d].before = before,
                  ![d].at = IF connected THEN "closing" ELSE IF idle THEN "connects" ELSE "done"]
    /\ chained(d)
    /\ UNCHANGED <<mcpClients, toolsVersion, mcpDisturbed>>

\* connect() succeeds or fails.
Connected(d) ==
    /\ discovery[d].at = "connects"
    /\ discovery' = [discovery EXCEPT ![d].at = "lists"]
    /\ mcpClient' = [mcpClient EXCEPT ![discovery[d].client].status = "connected"]
    /\ UNCHANGED <<mcpClients, promiseVars, mcpTools, toolsVersion, mcpDisturbed>>

ConnectFails(d) ==
    /\ discovery[d].at = "connects"
    /\ discovery' = [discovery EXCEPT ![d].at = "done"]
    /\ mcpClient' = [mcpClient EXCEPT ![discovery[d].client].status = "disconnected"]
    /\ UNCHANGED <<mcpClients, promiseVars, mcpTools, toolsVersion, mcpDisturbed>>

\* The tools are listed, or none when the request failed; the client must
\* still be connected to ask for the resources.
DiscoverTools(d, fails) ==
    /\ discovery[d].at = "lists"
    /\ mcpClient[discovery[d].client].status = "connected"
    /\ discovery' = [discovery EXCEPT ![d].at = "resources",
                                      ![d].read = IF fails THEN {} ELSE {toolsVersion}]
    /\ UNCHANGED <<mcpClients, promiseVars, mcpClient, mcpTools, toolsVersion, mcpDisturbed>>

\* The resources are there: the tools are registered, whatever the client's
\* status is by then.
DiscoverRegisters(d) ==
    /\ discovery[d].at = "resources"
    /\ mcpTools' = mcpTools \cup discovery[d].read
    /\ discovery' = [discovery EXCEPT ![d].at = "done", ![d].read = {}]
    /\ UNCHANGED <<mcpClients, promiseVars, mcpClient, toolsVersion, mcpDisturbed>>

\* It throws: not connected any more, a failed request, or nothing found.
DiscoverFails(d) ==
    /\ discovery[d].at \in {"lists", "resources"}
    /\ discovery' = [discovery EXCEPT ![d].at = "done", ![d].read = {}]
    /\ UNCHANGED <<mcpClients, promiseVars, mcpClient, mcpTools, toolsVersion, mcpDisturbed>>

\* The chained promise is settled when its discovery and those before it are.
promiseSettled(d) ==
    \A e \in {d} \cup discovery[d].before : discovery[e].at \in {"done", "settled"}

DiscoverySettles_any(d) ==
    /\ discovery[d].at = "done" /\ promiseSettled(d)
    /\ discovery' = [discovery EXCEPT ![d].at = "settled"]
    /\ discoveryPromise' = 0 /\ discoveryState' = "completed"
    /\ UNCHANGED <<mcpClients, mcpClient, mcpTools, toolsVersion, mcpDisturbed>>

\* Only the last promise of the chain ends the manager's discovery.
DiscoverySettles(d) ==
    /\ discovery[d].at = "done" /\ promiseSettled(d)
    /\ discovery' = [discovery EXCEPT ![d].at = "settled"]
    /\ IF discoveryPromise = d THEN discoveryPromise' = 0 /\ discoveryState' = "completed"
       ELSE UNCHANGED promiseVars
    /\ UNCHANGED <<mcpClients, mcpClient, mcpTools, toolsVersion, mcpDisturbed>>

\* disconnectClient, when the extension stops: the map forgets the client,
\* also one that connects and will be connected.
StopServer ==
    /\ mcpClients # 0
    /\ mcpClients' = 0
    /\ disconnects(mcpClients)
    /\ mcpDisturbed' = TRUE
    /\ UNCHANGED <<discovery, promiseVars, toolsVersion>>

DiscoveryStep(d) ==
    \/ Connected(d) \/ ConnectFails(d) \/ DiscoverRegisters(d) \/ DiscoverFails(d)
    \/ DiscoverySettles(d)
    \/ \E fails \in BOOLEAN : DiscoverTools(d, fails)

McpClientStep(c) ==
    \/ Closed(c) \/ CloseFails(c)
    \/ RefreshNotified(c) \/ RefreshListed(c) \/ RefreshReplaces(c) \/ RefreshFails(c)
    \/ RefreshEnds(c)

McpNext ==
    \/ \E d \in Discoveries :
         StartServer(d) \/ RestartServer(d) \/ DiscoveryStep(d) \/ McpClientStep(d)
           \/ ServerError(d)
    \/ ToolsChange \/ StopServer

McpSpec == McpInit /\ [][McpNext]_mcpVars

-------------------------------------------------------------------------------

\* The discovery is not over while one of its calls still runs, in whatever
\* order overlapping starts and restarts end (mcp-client-manager.ts:233, :248).
CompletedMeansDone ==
    discoveryState = "completed" =>
        \A d \in Discoveries : discovery[d].at \in {"new", "done", "settled"}

\* After a notification the registry gets the server's current tools, however
\* it overlaps with a refresh or a discovery, unless a list request failed,
\* the connection was lost, or the tools changed while a discovery that had
\* listed them waited for the resources (mcp-client.ts:391, :177).
ToolsUpToDate ==
    (\E c \in Discoveries : mcpClient[c].notes > 0) ~>
        \/ mcpTools = {toolsVersion} \/ mcpDisturbed
        \/ \A c \in Discoveries : mcpClient[c].status # "connected"
===============================================================================

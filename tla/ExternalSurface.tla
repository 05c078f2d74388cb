--------------------------- MODULE ExternalSurface ---------------------------
(***************************************************************************)
(* The tools that come from outside the process: the connections to MCP    *)
(* servers (crates/adapter-mcp/src/manager/mod.rs), the synchronisation of *)
(* the capability surface with them (crates/server/src/bootstrap/mcp.rs    *)
(* and capabilities.rs) and the reload of the runtime surface, which also  *)
(* replaces the plugins (crates/server/src/bootstrap/governance.rs).       *)
(*                                                                         *)
(* Three sorts of callers work on this state and nothing serialises them:  *)
(* the warm-up task of the start, requests of the MCP API and reloads.  A  *)
(* step is the work between two awaits or two locks.  A server contributes *)
(* one tool, known by the number of its transport; the plugins of one      *)
(* bootstrap contribute one tool, known by the generation of the bootstrap.*)
(***************************************************************************)
EXTENDS Integers, FiniteSets

CONSTANTS Servers,    \* names of MCP servers
          Project,    \* those declared in the project scope, which need an approval
          Versions,   \* what a declaration may say apart from being enabled
          Declarations, \* what a file may come to say of a server
          Callers,    \* threads that serve the requests; one first does the warm-up
          MaxOps,     \* bound on the requests
          MaxFaults   \* bound on the failures of servers, files and plugins

None == "none"
Config == [version : Versions, enabled : BOOLEAN]
NoConfig == [version |-> 0, enabled |-> FALSE]
Declaration == Config \cup {NoConfig}

ASSUME ServerAssumption == Project \subseteq Servers
ASSUME DeclarationAssumption == Declarations \subseteq Declaration
ASSUME BoundAssumption == MaxOps \in Nat /\ MaxFaults \in Nat

VARIABLES
    source,      \* the declarations in the configuration files
    approved,    \* approved signatures: the project servers with the version approved
    declared,    \* McpConnectionManager::declared_configs
    connections, \* McpConnectionManager::connections: the declaration and the transport
    made,        \* number of transports started
    surface,     \* the three places that apply_external_invokers writes
    registry,    \* PluginRegistryState: active, candidate and next_revision
    runtime,     \* what a reload installs after the commit of its snapshot
    dead,        \* generations of plugins shut down
    born,        \* number of plugin bootstraps
    ops,         \* the warm-up and the requests
    started,     \* number of requests so far
    faults,      \* number of failures so far
    outcome      \* how the last request that ran alone ended (ghost)

mcpVars == <<declared, connections, made>>
reloadVars == <<registry, runtime, dead, born>>
vars == <<source, approved, mcpVars, surface, reloadVars, ops, started, faults, outcome>>

NoConnection == [config |-> NoConfig, id |-> 0]
Places == {"router", "index", "record"}
InOrder == <<"router", "index", "record">>
Transports == 1..(Cardinality(Servers) * (2 * MaxOps + 1))
Generations == 1..(MaxOps + 1)

Tool == [from : {"mcp"}, server : Servers, id : Transports]
            \cup [from : {"plugin"}, id : Generations]
PluginTool(gen) == [from |-> "plugin", id |-> gen]
PluginTools(tools) == {t \in tools : t.from = "plugin"}
\* The tools of MCP servers are named mcp__<server>__<tool>.
NameOf(t) == IF t.from = "mcp" THEN <<"mcp", t.server>> ELSE <<"plugin">>
Clashing(tools) == \E t, u \in tools : t # u /\ NameOf(t) = NameOf(u)

Busy(a) == ops[a].pc # "idle"
Outcomes == [kind : {None, "warmup", "change", "reconnect", "governance"}, ok : BOOLEAN,
             clean : BOOLEAN, kept : BOOLEAN]
NoOutcome == [kind |-> None, ok |-> FALSE, clean |-> FALSE, kept |-> FALSE]

TypeOK ==
    /\ source \in [Servers -> Declaration] /\ declared \in [Servers -> Declaration]
    /\ approved \subseteq Project \X Versions
    /\ \A s \in Servers : connections[s] = NoConnection
                          \/ connections[s] \in [config : Config, id : Transports]
    /\ made \in Nat
    /\ surface \in [Places -> SUBSET Tool]
    /\ registry \in [active : Nat, candidate : Nat, revision : Nat]
    /\ runtime.components \in Generations /\ runtime.catalogs \in Generations
    /\ runtime.hooks \in Nat /\ runtime.capabilities \subseteq Tool
    /\ dead \subseteq Generations /\ born \in Generations
    /\ started \in 0..MaxOps /\ faults \in 0..MaxFaults
    /\ outcome \in Outcomes

Idle == [pc |-> "idle", kind |-> None, restoring |-> FALSE,
         configs |-> [s \in Servers |-> NoConfig], disconnect |-> {},
         connect |-> {}, opening |-> {}, listed |-> {}, tools |-> {}, place |-> 0,
         saved |-> [s \in Servers |-> NoConfig], kept |-> {},
         gen |-> 0, clash |-> FALSE, staged |-> 0, retired |-> 0,
         alone |-> TRUE, clean |-> TRUE, before |-> [active |-> 0]]

\* The process has started its plugins, generation 1, and has put their tools
\* on the surface; the warm-up has been spawned.
Init ==
    /\ source = [s \in Servers |-> [version |-> 1, enabled |-> TRUE]]
    /\ approved = Project \X {1}
    /\ declared = [s \in Servers |-> NoConfig]
    /\ connections = [s \in Servers |-> NoConnection]
    /\ made = 0
    /\ surface = [p \in Places |-> {PluginTool(1)}]
    /\ registry = [active |-> 1, candidate |-> 0, revision |-> 1]
    /\ runtime = [hooks |-> 1, catalogs |-> 1, components |-> 1,
                  capabilities |-> {PluginTool(1)}]
    /\ dead = {} /\ born = 1
    /\ \E w \in Callers :
           ops = [a \in Callers |->
                     IF a = w THEN [Idle EXCEPT !.pc = "load", !.kind = "warmup", !.gen = 1]
                     ELSE Idle]
    /\ started = 0 /\ faults = 0
    /\ outcome = NoOutcome

Fault == faults < MaxFaults /\ faults' = faults + 1

\* check_approval and McpServerConfig::enabled
Approved(s, c) == s \notin Project \/ <<s, c.version>> \in approved
ShouldConnect(s, c) == c # NoConfig /\ c.enabled /\ Approved(s, c)

\* McpConnectionManager::current_surface lists the declared servers under one
\* lock and looks up their connections under another.
DeclaredServers == {s \in Servers : declared[s] # NoConfig}
McpToolsOf(listed) == {[from |-> "mcp", server |-> s, id |-> connections[s].id] :
                           s \in {r \in listed : connections[r] # NoConnection}}
McpTools == McpToolsOf(DeclaredServers)

-----------------------------------------------------------------------------
\* A request begins; whoever else is running no longer runs alone.
Begin(a, o) ==
    /\ ~ Busy(a) /\ started < MaxOps
    /\ started' = started + 1
    /\ LET others == {b \in Callers \ {a} : Busy(b)}
       IN ops' = [b \in Callers |->
                     LET mine == IF b = a THEN o ELSE ops[b]
                     IN IF others = {} \/ b \notin others \cup {a} THEN mine
                        ELSE [mine EXCEPT !.alone = FALSE, !.before = Idle.before]]
    /\ outcome' = NoOutcome

Continue(a, o) == ops' = [ops EXCEPT ![a] = o] /\ UNCHANGED outcome

\* What a failing reload has to leave alone.  Its way back reads the record of
\* the tools applied last, which overlapping requests may have left different
\* from the router.
Plugins == [active |-> registry.active, runtime |-> runtime,
            router |-> PluginTools(surface["router"]),
            record |-> PluginTools(surface["record"])]
Kept(before) ==
    /\ before.active = registry.active /\ before.runtime = runtime
    /\ before.router = before.record => before.router = PluginTools(surface["router"])

\* A request ends.  The ghost remembers what a request that ran alone came to.
End(a, ok) ==
    LET o == ops[a]
    IN /\ ops' = [ops EXCEPT ![a] = Idle]
       /\ outcome' = IF o.alone
                     THEN [kind |-> o.kind, ok |-> ok, clean |-> o.clean,
                           kept |-> o.kind = "governance" /\ Kept(o.before)]
                     ELSE NoOutcome

\* One declaration written to a file, or an edit of the file by its owner.
Write == \E s \in Servers, c \in Declarations : source' = [source EXCEPT ![s] = c]
\* The signatures that a user is shown are those of the declared servers.
Approve == \E s \in {r \in Project : declared[r] # NoConfig} :
               approved' = approved \cup {<<s, declared[s].version>>}
Reject == \E s \in {r \in Project : declared[r] # NoConfig} :
               approved' = approved \ {<<s, declared[s].version>>}

\* approve_server, reject_server, reset_project_choices, upsert_server,
\* remove_server and set_server_enabled: a decision, then reload_from_source.
Change(a) ==
    /\ Begin(a, [Idle EXCEPT !.pc = "load", !.kind = "change"])
    /\ \/ (Approve \/ Reject \/ approved' = {}) /\ UNCHANGED source
       \/ Write /\ UNCHANGED approved
    /\ UNCHANGED <<mcpVars, surface, reloadVars, faults>>

\* reconnect_server: works from the declared configuration alone.
Reconnect(a) ==
    /\ \E s \in Servers :
           /\ declared[s] # NoConfig
           /\ Begin(a, [Idle EXCEPT !.pc = "recheck", !.kind = "reconnect",
                                    !.disconnect = {s}, !.configs[s] = declared[s]])
    /\ UNCHANGED <<source, approved, mcpVars, surface, reloadVars, faults>>

\* ServerRuntimeReloader::reload, of files that may have been edited.
Reload(a) ==
    /\ Begin(a, [Idle EXCEPT !.pc = "load", !.kind = "governance", !.before = Plugins])
    /\ Write \/ UNCHANGED source
    /\ UNCHANGED <<approved, mcpVars, surface, reloadVars, faults>>

\* load_declared_configs: a file that cannot be read or parsed is skipped, and
\* the servers it declares count as not declared.
Loaded(missing) == [s \in Servers |-> IF s \in missing THEN NoConfig ELSE source[s]]
Missing(missing) ==
    IF missing = {} THEN UNCHANGED faults
    ELSE Fault /\ \A s \in missing : source[s] # NoConfig

Load(a) ==
    /\ ops[a].pc = "load" /\ ops[a].kind # "governance"
    /\ \E missing \in SUBSET Servers :
           /\ Missing(missing)
           /\ Continue(a, [ops[a] EXCEPT !.pc = "declare", !.configs = Loaded(missing),
                                         !.clean = @ /\ missing = {}])
    /\ UNCHANGED <<source, approved, mcpVars, surface, reloadVars, started>>

\* prepare_reload_candidate: new plugin processes are started.  When the
\* preview of their modes fails the reload ends and the processes stay.
Prepare(a) ==
    /\ ops[a].pc = "load" /\ ops[a].kind = "governance"
    /\ born' = born + 1
    /\ \/ \E missing \in SUBSET Servers, clash \in BOOLEAN :
              /\ clash => missing = {}
              /\ IF clash THEN Fault ELSE Missing(missing)
              /\ Continue(a, [ops[a] EXCEPT !.pc = "capture", !.configs = Loaded(missing),
                                            !.gen = born', !.clash = clash,
                                            !.clean = @ /\ missing = {} /\ ~ clash])
       \/ Fault /\ End(a, FALSE)
    /\ UNCHANGED <<source, approved, mcpVars, surface, registry, runtime, dead, started>>

\* GovernanceReloadRollback::capture: the declarations to go back to, then the
\* MCP tools of the moment (List, Identify); what the record holds under another
\* name than theirs is taken for a tool of a plugin.
Capture(a) ==
    /\ ops[a].pc = "capture"
    /\ Continue(a, [ops[a] EXCEPT !.pc = "list", !.saved = declared])
    /\ UNCHANGED <<source, approved, mcpVars, surface, reloadVars, started, faults>>

Identify(a) ==
    /\ ops[a].pc = "identify"
    /\ Continue(a, [ops[a] EXCEPT !.pc = "keep", !.tools = McpToolsOf(ops[a].listed),
                                  !.listed = {}])
    /\ UNCHANGED <<source, approved, mcpVars, surface, reloadVars, started, faults>>

Keep(a) ==
    /\ ops[a].pc = "keep"
    /\ Continue(a, [ops[a] EXCEPT !.pc = "declare", !.tools = {},
                       !.kept = {t \in surface["record"] :
                                    NameOf(t) \notin {NameOf(u) : u \in ops[a].tools}}])
    /\ UNCHANGED <<source, approved, mcpVars, surface, reloadVars, started, faults>>

\* replace_declared_configs
Declare(a) ==
    /\ ops[a].pc = "declare"
    /\ declared' = ops[a].configs
    /\ Continue(a, [ops[a] EXCEPT !.pc = "compare"])
    /\ UNCHANGED <<source, approved, connections, made, surface, reloadVars,
                   started, faults>>

\* Bug: a connection is closed only when its declaration has changed.
OutdatedChanged(o) == {s \in Servers : /\ connections[s] # NoConnection
                                       /\ connections[s].config # o.configs[s]}

\* reload_config compares the connections with the new declarations: which to
\* close and which to make.  connect_all makes all that may be made.
Outdated(o) == {s \in Servers : /\ connections[s] # NoConnection
                                /\ \/ connections[s].config # o.configs[s]
                                   \/ ~ ShouldConnect(s, o.configs[s])}

\* Bug: every server that may be connected is, whether it already is or not.
WantedAll(o) == {s \in Servers : ShouldConnect(s, o.configs[s])}

Wanted(o) == {s \in Servers : /\ ShouldConnect(s, o.configs[s])
                              /\ \/ o.kind = "warmup"
                                 \/ connections[s] = NoConnection
                                 \/ connections[s].config # o.configs[s]}

Compare(a) ==
    /\ ops[a].pc = "compare"
    /\ Continue(a, [ops[a] EXCEPT !.pc = "connect", !.connect = Wanted(ops[a]),
                       !.disconnect = IF ops[a].kind = "warmup" THEN {} ELSE Outdated(ops[a])])
    /\ UNCHANGED <<source, approved, mcpVars, surface, reloadVars, started, faults>>

-----------------------------------------------------------------------------
\* disconnect_one takes the connection out of the map; what the closing of its
\* transport returns is noted and ignored by all callers.
Disconnect(a) ==
    /\ ops[a].pc \in {"recheck", "connect"}
    /\ \E s \in ops[a].disconnect :
           /\ connections' = [connections EXCEPT ![s] = NoConnection]
           /\ Continue(a, [ops[a] EXCEPT !.disconnect = @ \ {s}])
    /\ UNCHANGED <<source, approved, declared, made, surface, reloadVars, started, faults>>

\* reconnect_server asks for the approval after it has closed the connection.
Recheck(a) ==
    /\ ops[a].pc = "recheck" /\ ops[a].disconnect = {}
    /\ Continue(a, [ops[a] EXCEPT !.pc = "connect",
                       !.connect = {s \in Servers : ShouldConnect(s, ops[a].configs[s])}])
    /\ UNCHANGED <<source, approved, mcpVars, surface, reloadVars, started, faults>>

\* A server that cannot be reached: reconnect_server returns the error, the
\* others note it and go on.
Unreachable(a, s) ==
    /\ Fault
    /\ IF ops[a].kind = "reconnect" THEN End(a, FALSE)
       ELSE Continue(a, [ops[a] EXCEPT !.clean = FALSE, !.connect = @ \ {s},
                            !.opening = {t \in @ : t.server # s}])

\* connect_one declares the server and starts a transport; so does run_batch,
\* which declares nothing and has several servers in hand at once.
Connect(a) ==
    /\ ops[a].pc = "connect" /\ ops[a].disconnect = {}
    /\ ops[a].kind = "warmup" \/ ops[a].opening = {}
    /\ \E s \in ops[a].connect :
           /\ declared' = IF ops[a].kind = "warmup" THEN declared
                          ELSE [declared EXCEPT ![s] = ops[a].configs[s]]
           /\ \/ /\ made' = made + 1
                 /\ Continue(a, [ops[a] EXCEPT !.connect = @ \ {s},
                                    !.opening = @ \cup {[server |-> s, id |-> made + 1]}])
                 /\ UNCHANGED faults
              \/ Unreachable(a, s) /\ UNCHANGED made
    /\ UNCHANGED <<source, approved, connections, surface, reloadVars, started>>

\* establish_connection: the handshake, then the entry in the map, in place of
\* whatever is there.  A transport whose handshake fails is not closed.
Establish(a) ==
    /\ ops[a].pc = "connect"
    /\ \E t \in ops[a].opening :
           \/ /\ connections' = [connections EXCEPT ![t.server] =
                                    [config |-> ops[a].configs[t.server], id |-> t.id]]
              /\ Continue(a, [ops[a] EXCEPT !.opening = @ \ {t}])
              /\ UNCHANGED faults
           \/ Unreachable(a, t.server) /\ UNCHANGED connections
    /\ UNCHANGED <<source, approved, declared, made, surface, reloadVars, started>>

\* Bug: the way back of a reload forgets the plugins it captured.
AddedWithoutKept(o) == IF o.kind \in {"warmup", "governance"} /\ ~ o.restoring
                       THEN {PluginTool(o.gen)} ELSE {}

\* The tools that the caller will apply.  sync_capabilities adds nothing to
\* those of the MCP servers; the warm-up and a reload add plugins.
Added(o) == IF o.restoring THEN o.kept
            ELSE IF o.kind \in {"warmup", "governance"} THEN {PluginTool(o.gen)}
            ELSE {}

\* current_surface, for the capture of a reload and at the end of every request.
List(a) ==
    /\ \/ /\ ops[a].pc = "list"
          /\ Continue(a, [ops[a] EXCEPT !.pc = "identify", !.listed = DeclaredServers])
       \/ /\ ops[a].pc = "connect"
          /\ ops[a].disconnect = {} /\ ops[a].connect = {} /\ ops[a].opening = {}
          /\ Continue(a, [ops[a] EXCEPT !.pc = "survey", !.listed = DeclaredServers,
                                        !.configs = Idle.configs])
    /\ UNCHANGED <<source, approved, mcpVars, surface, reloadVars, started, faults>>

Survey(a) ==
    /\ ops[a].pc = "survey"
    /\ Continue(a, [ops[a] EXCEPT !.tools = McpToolsOf(ops[a].listed) \cup Added(ops[a]),
                       !.place = 1, !.listed = {},
                       !.pc = IF ops[a].kind = "governance" /\ ~ ops[a].restoring
                              THEN "stage" ELSE "apply"])
    /\ UNCHANGED <<source, approved, mcpVars, surface, reloadVars, started, faults>>

-----------------------------------------------------------------------------
\* restore_external_surface_after_failure: back to the declarations captured.
Restore(a) ==
    IF ops[a].restoring THEN End(a, FALSE)
    ELSE Continue(a, [ops[a] EXCEPT !.pc = "declare", !.restoring = TRUE,
                                    !.configs = ops[a].saved, !.clean = FALSE])

\* resources_discover, from_descriptors and stage_candidate: the snapshot of
\* the reload becomes the registry's one candidate.
Stage(a) ==
    /\ ops[a].pc = "stage"
    /\ \/ /\ registry' = [registry EXCEPT !.revision = @ + 1, !.candidate = registry.revision + 1]
          /\ Continue(a, [ops[a] EXCEPT !.pc = "apply", !.staged = registry.revision + 1])
          /\ UNCHANGED faults
       \/ Fault /\ Restore(a) /\ UNCHANGED registry
    /\ UNCHANGED <<source, approved, mcpVars, surface, runtime, dead, born, started>>

\* apply_external_invokers: replace_invokers refuses a list with one name
\* twice; then the index, then current_capabilities and current_external_invokers, the record
\* of what was applied last.
Refused(o) == Clashing(o.tools) \/ (o.clash /\ ~ o.restoring)

Apply(a) ==
    /\ ops[a].pc = "apply" /\ (ops[a].place = 1 => ~ Refused(ops[a]))
    /\ LET place == ops[a].place
       IN /\ surface' = [surface EXCEPT ![InOrder[place]] = ops[a].tools]
          /\ IF place < 3 THEN Continue(a, [ops[a] EXCEPT !.place = @ + 1])
             ELSE IF ops[a].kind = "governance" /\ ~ ops[a].restoring
             THEN Continue(a, [ops[a] EXCEPT !.pc = "commit"])
             ELSE End(a, ~ ops[a].restoring)
    /\ UNCHANGED <<source, approved, mcpVars, reloadVars, started, faults>>

Refuse(a) ==
    /\ ops[a].pc = "apply" /\ ops[a].place = 1 /\ Refused(ops[a])
    /\ IF ops[a].kind = "governance" /\ ~ ops[a].restoring
       THEN registry' = [registry EXCEPT !.candidate = 0] /\ Restore(a)
       ELSE End(a, FALSE) /\ UNCHANGED registry
    /\ UNCHANGED <<source, approved, mcpVars, surface, runtime, dead, born, started, faults>>

\* commit_plugin_host_candidate: whatever candidate is there becomes active,
\* and an error says so afterwards when it was somebody else's.
Commit(a) ==
    /\ ops[a].pc = "commit"
    /\ registry' = [registry EXCEPT !.candidate = 0,
                                    !.active = IF registry.candidate = 0 THEN @
                                               ELSE registry.candidate]
    /\ IF registry.candidate = ops[a].staged
       THEN Continue(a, [ops[a] EXCEPT !.pc = "hooks"])
       ELSE Restore(a)
    /\ UNCHANGED <<source, approved, mcpVars, surface, runtime, dead, born, started, faults>>

\* replace_active_snapshot of the hook dispatcher
Hooks(a) ==
    /\ ops[a].pc = "hooks"
    /\ runtime' = [runtime EXCEPT !.hooks = ops[a].staged]
    /\ Continue(a, [ops[a] EXCEPT !.pc = "install"])
    /\ UNCHANGED <<source, approved, mcpVars, surface, registry, dead, born, started, faults>>

\* The catalogs of skills, resources, providers and modes, then
\* RuntimeCoordinator::replace_runtime_surface, which hands back the old
\* plugins for shutdown_replaced_components.
Install(a) ==
    /\ ops[a].pc = "install"
    /\ runtime' = [runtime EXCEPT !.catalogs = ops[a].gen, !.components = ops[a].gen,
                                  !.capabilities = surface["record"]]
    /\ Continue(a, [ops[a] EXCEPT !.pc = "retire", !.retired = runtime.components,
                       !.saved = Idle.saved, !.kept = {}, !.tools = {}])
    /\ UNCHANGED <<source, approved, mcpVars, surface, registry, dead, born, started, faults>>

Retire(a) ==
    /\ ops[a].pc = "retire"
    /\ dead' = dead \cup {ops[a].retired}
    /\ End(a, TRUE)
    /\ UNCHANGED <<source, approved, mcpVars, surface, registry, runtime, born, started, faults>>

-----------------------------------------------------------------------------
Requests(a) == Change(a) \/ Reconnect(a) \/ Reload(a)
Mcp(a) == \/ Load(a) \/ Declare(a) \/ Compare(a) \/ Disconnect(a) \/ Recheck(a)
          \/ Connect(a) \/ Establish(a) \/ List(a) \/ Survey(a) \/ Apply(a) \/ Refuse(a)
Governance(a) == \/ Prepare(a) \/ Capture(a) \/ Identify(a) \/ Keep(a) \/ Stage(a)
                 \/ Commit(a) \/ Hooks(a) \/ Install(a) \/ Retire(a)
Next == \E a \in Callers : Requests(a) \/ Mcp(a) \/ Governance(a)

Spec == Init /\ [][Next]_vars

-----------------------------------------------------------------------------
\* A request that nothing overlapped and that met no failure of its own puts
\* the state right, whatever overlapping or failed requests before it left
\* behind: the servers connected are those declared, enabled and approved, each
\* as it is declared, the three places of the surface agree, and they hold the
\* tools of these connections and of plugins that are alive.  (A reconnect works
\* from the declarations in memory and answers for the surface only.)
SettledSurface ==
    outcome.ok /\ outcome.clean =>
        /\ outcome.kind # "reconnect" =>
              \A s \in Servers :
                  IF ShouldConnect(s, source[s])
                  THEN connections[s] # NoConnection /\ connections[s].config = source[s]
                  ELSE connections[s] = NoConnection
        /\ \A p \in Places : surface[p] = McpTools \cup PluginTools(surface[p])
        /\ \A p \in Places : surface[p] = surface["router"]
        /\ \A t \in PluginTools(surface["router"]) : t.id \notin dead
        /\ outcome.kind = "governance" =>
              /\ surface["router"] = runtime.capabilities
              /\ PluginTool(runtime.components) \in surface["router"]
              /\ runtime.components = runtime.catalogs /\ runtime.hooks = registry.active

\* A reload that nothing overlapped and that returns an error has left the
\* plugins as they were: the registry's active snapshot, the hooks, catalogs and
\* components, and the plugin tools that the router serves, provided that the record
\* it captured them from agreed with the router when it began.
FailedReloadKeeps == outcome.kind = "governance" /\ ~ outcome.ok => outcome.kept

\* A connection in the map is never overwritten by another, which would leave
\* its transport open with nobody to close it, except by a caller that another
\* caller's request has overlapped.
ReplacedOnlyByOverlap ==
    [][\A s \in Servers :
           /\ connections[s] # NoConnection
           /\ connections'[s] \notin {NoConnection, connections[s]}
           => \E a \in Callers : Busy(a) /\ ~ ops[a].alone /\ ops'[a] # ops[a]]_vars
=============================================================================

------------------------------ MODULE Toolbox -------------------------------
(***************************************************************************)
(* The tool registry of a process: setup.rs build_registry, Registry of     *)
(* crates/sa-tools, load_mcp_tools of mcp.rs and OpTool::new.  The policy   *)
(* and the approval gate go by the name of a tool (AgentLoop), so what      *)
(* matters is who stands behind a name once everyone has registered.        *)
(*                                                                         *)
(* A name is the sequence of its segments between "::"; the last one is the *)
(* bare name of policy.rs.  The connection to a server is McpClient's.      *)
(***************************************************************************)
EXTENDS Naturals, Sequences, FiniteSets, Functions

CONSTANTS
  Word,         \* the segments of names
  MaxServers,   \* bound: MCP servers in config.toml
  MaxOpTools    \* bound: op_tools in config.toml

\* The names of the tools in sa-tools: one segment each.
AlwaysThere ==
  {"fetch", "read_file", "write_file", "execute_code", "shell", "web_extract", "http_request"}

Builtin == AlwaysThere \cup {"web_search"}

Names == {<<w>> : w \in Word} \cup (Word \X Word)

\* Of the constants; MCExchanges assumes it.
ToolboxAssumption ==
  Word \cap Builtin # {} /\ MaxServers \in Nat /\ MaxOpTools \in Nat

VARIABLES
  search_url,  \* config: a search endpoint is configured
  mcp,         \* config: how many MCP servers are still to be connected
  op_tools,    \* config: how many op_tools are still to be registered
  tools,       \* the registry: name -> who registered it
  pc,          \* the part of build_registry that is next
  first        \* history: who registered each name first

vars == <<search_url, mcp, op_tools, tools, pc, first>>

Server == [name : {<<w>> : w \in Word}, allow_tools : SUBSET {<<w>> : w \in Word}]

OpTool == [name : Names \cup {<<>>}, cmd : BOOLEAN]

Init ==
  /\ search_url \in BOOLEAN
  /\ mcp \in 0..MaxServers /\ op_tools \in 0..MaxOpTools
  /\ tools = <<>> /\ pc = "builtin" /\ first = <<>>

\* BTreeMap::insert: the later one of two tools with a name replaces the other.
Register(new) ==
  /\ tools' = [n \in DOMAIN tools \cup DOMAIN new |->
                 IF n \in DOMAIN new THEN new[n] ELSE tools[n]]
  /\ first' = [n \in DOMAIN first \cup DOMAIN new |->
                 IF n \in DOMAIN first THEN first[n] ELSE new[n]]

\* default_tools, execute_code, shell and the network tools.
RegisterBuiltins ==
  /\ pc = "builtin"
  /\ Register([n \in {<<b>> : b \in AlwaysThere \cup (IF search_url THEN {"web_search"} ELSE {})}
                 |-> [kind |-> "builtin", server |-> <<>>, inner |-> n]])
  /\ pc' = "mcp"
  /\ UNCHANGED <<search_url, mcp, op_tools>>

\* With the bare name of a remote tool.
MutNamespacedBare(server, tool) == tool

namespaced(server, tool) == server \o tool

filter_allowed(defs, allow) == defs \cap allow

\* The next server, whatever the config says of it, is connected and advertises
\* its tools, which may bear any name, or it is skipped.
ConnectServer(s, advertised) ==
  /\ pc = "mcp" /\ mcp > 0
  /\ LET names == filter_allowed(advertised, s.allow_tools)
     IN Register([n \in {namespaced(s.name, t) : t \in names} |->
                    [kind |-> "mcp", server |-> s.name,
                     inner |-> CHOOSE t \in names : namespaced(s.name, t) = n]])
  /\ mcp' = mcp - 1
  /\ UNCHANGED <<search_url, op_tools, pc>>

SkipServer ==
  /\ pc = "mcp" /\ mcp > 0
  /\ mcp' = mcp - 1
  /\ UNCHANGED <<search_url, op_tools, tools, pc, first>>

ServersDone ==
  /\ pc = "mcp" /\ mcp = 0
  /\ pc' = "op_tools"
  /\ UNCHANGED <<search_url, mcp, op_tools, tools, first>>

\* The op_tools last: one with the name of a tool, no name or no command is
\* skipped.
RegisterOpTool(ot) ==
  /\ pc = "op_tools" /\ op_tools > 0
  /\ IF ot.name \in DOMAIN tools \/ ot.name = <<>> \/ ~ot.cmd
       THEN UNCHANGED <<tools, first>>
       ELSE Register([n \in {ot.name} |->
                        [kind |-> "op_tool", server |-> <<>>, inner |-> n]])
  /\ op_tools' = op_tools - 1
  /\ UNCHANGED <<search_url, mcp, pc>>

Next ==
  \/ RegisterBuiltins \/ SkipServer \/ ServersDone
  \/ \E s \in Server, advertised \in SUBSET {<<w>> : w \in Word} :
       ConnectServer(s, advertised)
  \/ \E ot \in OpTool : RegisterOpTool(ot)

Spec == Init /\ [][Next]_vars
-----------------------------------------------------------------------------
\* policy.rs: the gate strips a name to its last segment.
approval_required(name) ==
  name[Len(name)] \in {"write_file", "shell", "execute_code", "activate_skill"}

\* The name a caller has approved or allow-listed stands for what it says: no
\* configured server or command takes a name over from a tool of another kind,
\* a builtin name is always the builtin's, a remote tool bears the name of its
\* server, and one that is called like a tool behind the gate is behind it too.
RegistrySound ==
  \A n \in DOMAIN tools :
    /\ tools[n].kind = first[n].kind
    /\ n \in {<<b>> : b \in AlwaysThere} => tools[n].kind = "builtin"
    /\ tools[n].kind = "mcp" =>
         /\ tools[n].server = SubSeq(n, 1, Len(n) - 1)
         /\ approval_required(tools[n].inner) => approval_required(n)
=============================================================================

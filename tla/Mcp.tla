---------------------------------- MODULE Mcp ----------------------------------
(* Tool calls: /api/mcp (src/src/app/api/mcp/route.ts) and the stdio server     *)
(* (src/src/mcp/server.ts), which share the write tools of mcp-write-tools.ts.  *)
(* They run over the keys, workspaces and audit log of Access, beside its       *)
(* requests.  The outreach tools are requests of Outreach.                      *)
EXTENDS Access

CONSTANTS
  Jobs,      \* tool calls, each made once
  Asks,      \* Jobs -> what each may be, one of these
  MaxErrors  \* bound: calls that fail after their tool ran

ReadTools == {"get_overview", "query_users", "get_activity", "get_cohorts", "get_wbr",
              "get_calendar", "get_sync_status"}
MCP_READ_ONLY_TOOLS == ReadTools \cup {"install_sdk"}
MCP_WRITE_TOOLS == {"connect_source", "trigger_sync", "import_csv", "define_metric",
                    "disconnect_source", "annotate"}
HttpTools == ReadTools \cup MCP_WRITE_TOOLS
StdioTools == HttpTools \cup {"install_sdk", "configure_value_events"}
(* Tools whose answer repeats what they were given: annotate its content,      *)
(* define_metric its name, trigger_sync a connector it does not know, and      *)
(* import_csv, in a preview, what stands in the file. Arguments "echo" are     *)
(* such ones, and that text holds the words "not implemented".                 *)
EchoTools == {"annotate", "define_metric", "trigger_sync", "import_csv"}
ToolArgs == {"good", "echo", "bad", "preview", "unknown"}

ASSUME McpAssumption ==
  /\ MaxErrors \in Nat /\ Jobs \cap Calls = {}
  /\ \A j \in Jobs : Asks[j] \subseteq
       [via : {"http", "stdio"}, tool : StdioTools, cred : KeyIds \cup {"env", "none"},
        asked : Spaces \cup {"demo", "none"}, args : ToolArgs]
  /\ \A j \in Jobs : \A q \in Asks[j] : q.args = "echo" => q.tool \in EchoTools

VARIABLES
  linked,   \* workspace -> the source has a stored row (csv's plan is one too)
  stored,   \* what tools wrote: workspace, job
  job,      \* the tool calls
  errors
toolVars == <<linked, stored, job, errors>>
mcpVars == <<vars, toolVars>>

NoJob == [pc |-> "idle", via |-> "http", tool |-> "none", cred |-> "none", asked |-> "none",
          args |-> "good", auth |-> Nobody, ws |-> "none", outcome |-> "none", barred |-> {}]
McpInit ==
  /\ Init /\ linked = [w \in Spaces \cup {"demo"} |-> FALSE] /\ stored = {}
  /\ job = [j \in Jobs |-> NoJob] /\ errors = 0

-----------------------------------------------------------------------------
GoesTo(j, r) == job' = [job EXCEPT ![j] = r]
Waits(j, pc) == job[j].pc = pc
isReadOnlyMcpTool(tool) == tool \in MCP_READ_ONLY_TOOLS

CallTool(j) ==
  /\ Waits(j, "idle")
  /\ \E q \in Asks[j] :
       GoesTo(j, [pc |-> "gate", via |-> q.via, tool |-> q.tool, cred |-> q.cred, asked |-> q.asked,
                  args |-> q.args, auth |-> Nobody, ws |-> "none", outcome |-> "none", barred |-> gone])
  /\ UNCHANGED <<vars, linked, stored, errors>>

(* POST: the gate by the tool's kind. A read takes the browser's session.      *)
DefaultSpace(r) == Or(r.asked, IF isReadOnlyMcpTool(r.tool) THEN "demo" ELSE "live")
HttpGate(r) ==
  LET write == ~isReadOnlyMcpTool(r.tool)
      auth == IF ~write /\ cookie # NoCookie THEN authFromSession(cookie, DefaultSpace(r))
              ELSE authorize(r.cred, DefaultSpace(r), write)
  IN [auth |-> auth,
      ws |-> IF auth = Nobody THEN "denied" ELSE resolveWorkspace(auth, DefaultSpace(r), write)]
(* handleStdioToolCall: reads ask nobody, writes ask for ANYKPI_API_KEY, and   *)
(* both act on the workspace that was named.                                   *)
StdioGate(r) ==
  LET auth == IF isReadOnlyMcpTool(r.tool) THEN Visitor
              ELSE authorize(r.cred, DefaultSpace(r), TRUE)
  IN [auth |-> auth, ws |-> IF auth = Nobody THEN "denied" ELSE DefaultSpace(r)]
Gate(j) ==
  LET g == IF job[j].via = "http" THEN HttpGate(job[j]) ELSE StdioGate(job[j])
  IN /\ Waits(j, "gate")
     /\ GoesTo(j, IF g.ws = "denied" THEN [job[j] EXCEPT !.pc = "done", !.outcome = "refused"]
                  ELSE [job[j] EXCEPT !.pc = "run", !.auth = g.auth, !.ws = g.ws])
     /\ UNCHANGED <<vars, linked, stored, errors>>

-----------------------------------------------------------------------------
(* The tools. Bad arguments, an unknown connector, a source that is not there  *)
(* and rows that do not parse are answers with isError, and write nothing.     *)
Ran(j, outcome) == GoesTo(j, [job[j] EXCEPT !.pc = IF job[j].via = "http" THEN "log" ELSE "done",
                                            !.outcome = outcome])
Writes(j) == stored' = stored \cup {[ws |-> job[j].ws, job |-> j]} /\ Ran(j, "ok")
Declines(j) == Ran(j, "error") /\ UNCHANGED <<linked, stored>>
Tool(j, names) == Waits(j, "run") /\ job[j].tool \in names

(* Views load; get_activity also lets the clusters be made.                    *)
Reads(j) == Ran(j, "ok") /\ UNCHANGED <<linked, stored>>
HttpRead(j) == job[j].via = "http" /\ Tool(j, ReadTools) /\ Reads(j)
StdioRead(j) == job[j].via = "stdio" /\ Tool(j, MCP_READ_ONLY_TOOLS) /\ Reads(j)
runConnectSource(j) ==
  /\ Tool(j, {"connect_source"})
  /\ IF job[j].args = "good" THEN Writes(j) /\ linked' = [linked EXCEPT ![job[j].ws] = TRUE]
     ELSE Declines(j)
runTriggerSync(j) ==
  /\ Tool(j, {"trigger_sync"})
  /\ IF job[j].args = "good" THEN Writes(j) /\ UNCHANGED linked ELSE Declines(j)
runImportCsv(j) ==
  /\ Tool(j, {"import_csv"})
  /\ CASE job[j].args = "good" -> Writes(j) /\ linked' = [linked EXCEPT ![job[j].ws] = TRUE]
       [] job[j].args \in {"preview", "echo"} -> Ran(j, "ok") /\ UNCHANGED <<linked, stored>>
       [] OTHER -> Declines(j)
runDefineMetric(j) ==
  /\ Tool(j, {"define_metric"})
  /\ IF job[j].args \in {"good", "echo"} THEN Writes(j) /\ UNCHANGED linked ELSE Declines(j)
runAnnotate(j) ==
  /\ Tool(j, {"annotate"})
  /\ IF job[j].args \in {"good", "echo"} THEN Writes(j) /\ UNCHANGED linked ELSE Declines(j)
runDisconnectSource(j) ==
  /\ Tool(j, {"disconnect_source"})
  /\ IF job[j].args = "good" /\ linked[job[j].ws]
     THEN Writes(j) /\ linked' = [linked EXCEPT ![job[j].ws] = FALSE]
     ELSE Declines(j)
saveValueEvents(j) ==
  /\ job[j].via = "stdio" /\ Tool(j, {"configure_value_events"}) /\ Writes(j) /\ UNCHANGED linked
(* A tool of the other surface: "not implemented yet" over http.               *)
Unknown(j) == job[j].via = "http" /\ Tool(j, StdioTools \ HttpTools) /\ Declines(j)

RunTool(j) ==
  /\ \/ HttpRead(j) \/ StdioRead(j) \/ runConnectSource(j) \/ runTriggerSync(j) \/ runImportCsv(j)
     \/ runDefineMetric(j) \/ saveValueEvents(j) \/ runAnnotate(j) \/ runDisconnectSource(j)
     \/ Unknown(j)
  /\ UNCHANGED <<vars, errors>>

(* After the tool, whatever it answered; what reads is not logged, and neither *)
(* is an answer in which the words "not implemented" stand, whoever wrote them.*)
mcpResultUnimplemented(r) ==
  \/ r.outcome = "error" /\ r.tool \notin HttpTools
  \/ r.args = "echo"
BugLogsFailures(j) ==
  /\ Waits(j, "log")
  /\ audit' = IF job[j].outcome = "ok" THEN audit
              ELSE audit \cup {[actor |-> actorFromAuth(job[j].auth), action |-> "mcp.call",
                                ws |-> job[j].ws, call |-> j]}
  /\ GoesTo(j, [job[j] EXCEPT !.pc = "done"])
  /\ UNCHANGED <<keys, catalog, rows, cookie, call, faults, history, linked, stored, errors>>
recordMcpWriteAudit(j) ==
  /\ Waits(j, "log")
  /\ audit' = IF isReadOnlyMcpTool(job[j].tool) \/ mcpResultUnimplemented(job[j]) THEN audit
              ELSE audit \cup {[actor |-> actorFromAuth(job[j].auth), action |-> "mcp.call",
                                ws |-> job[j].ws, call |-> j]}
  /\ GoesTo(j, [job[j] EXCEPT !.pc = "done"])
  /\ UNCHANGED <<keys, catalog, rows, cookie, call, faults, history, linked, stored, errors>>
(* The audit insert, or the tool after its write, throws: the answer is a 500. *)
ToolFails(j) ==
  /\ job[j].pc \in {"run", "log"} /\ errors < MaxErrors /\ errors' = errors + 1
  /\ GoesTo(j, [job[j] EXCEPT !.pc = "done", !.outcome = "thrown"])
  /\ UNCHANGED <<vars, linked, stored>>

ToolStep(j) == CallTool(j) \/ Gate(j) \/ RunTool(j) \/ recordMcpWriteAudit(j) \/ ToolFails(j)
McpNext == (\E j \in Jobs : ToolStep(j)) \/ (Next /\ UNCHANGED toolVars)
McpSpec == McpInit /\ [][McpNext]_mcpVars

-----------------------------------------------------------------------------
(* What a tool writes over http is written by a key with write scope, in the   *)
(* workspace that key is bound to whatever the arguments name, and not by a    *)
(* key whose revocation had been answered before the call.                     *)
ToolsActForTheirKey ==
  \A s \in stored : LET r == job[s.job] IN
    /\ r.auth.scope \in {"write", "admin"}
    /\ r.auth.actor \notin r.barred
    /\ r.via = "http" /\ ~r.auth.choose => s.ws = r.auth.home

(* "MCP write tools record mcp.call": an answered call that wrote is in the    *)
(* log under its caller's name and in the workspace it wrote to, though the    *)
(* key or the workspace may be gone by then. Excepted are the calls whose      *)
(* answer repeats the words "not implemented" out of what the caller sent: the *)
(* code takes them for calls that did nothing (mcpResultUnimplemented).        *)
ToolIsAudited(s) ==
  \E a \in audit : a.call = s.job /\ a.actor = actorFromAuth(job[s.job].auth) /\ a.ws = s.ws
AnsweredOverHttp(r) == r.via = "http" /\ r.pc = "done" /\ r.outcome = "ok"
ToolsAreAudited ==
  \A s \in stored :
    AnsweredOverHttp(job[s.job]) /\ job[s.job].args # "echo" => ToolIsAudited(s)

(* A key reaches its own workspace, a revoked one nothing, a session what it   *)
(* unlocked, and a tool what its key does (authorize, resolveWorkspace,        *)
(* sessionAuthorizes).                                                         *)
KeysAreObeyed == BoundKeysStayHome /\ RevokedStaysOut /\ SessionIsEarned /\ ToolsActForTheirKey
(* Answered writes and tool calls are in the audit log under their caller's    *)
(* name (recordWriteAudit, recordMcpWriteAudit), calls that echo "not          *)
(* implemented" excepted.                                                      *)
WritesAreAudited == AnsweredIsAudited /\ ToolsAreAudited

(* Behind them: a tool that writes runs for a key that may, in its workspace,  *)
(* and what it wrote is logged before it is answered.                          *)
JobRecords ==
  [pc : {"idle", "gate", "run", "log", "done"}, via : {"http", "stdio"}, tool : StdioTools \cup {"none"},
   cred : KeyIds \cup {"env", "none"}, asked : Spaces \cup {"demo", "none"},
   args : ToolArgs, auth : Principals, ws : Spaces \cup {"demo", "none"},
   outcome : {"none", "refused", "ok", "error", "thrown"}, barred : SUBSET gone]
RunsForItsKey(r) ==
  /\ r.auth.scope \in {"write", "admin"} /\ r.auth.actor \notin r.barred
  /\ r.via = "http" /\ ~r.auth.choose => r.ws = r.auth.home
ToolsInv ==
  /\ job \in [Jobs -> JobRecords]
  /\ \A s \in stored : s.job \in Jobs
  /\ \A j \in Jobs :
       /\ job[j].pc \in {"gate", "run", "log"} => job[j].tool \in StdioTools
       /\ job[j].pc = "run" /\ ~isReadOnlyMcpTool(job[j].tool) => RunsForItsKey(job[j])
  /\ \A s \in stored : LET r == job[s.job] IN
       /\ r.pc \in {"log", "done"} /\ ~isReadOnlyMcpTool(r.tool) /\ RunsForItsKey(r) /\ s.ws = r.ws
       /\ r.via = "http" /\ r.pc = "done" /\ r.outcome = "ok" /\ r.args # "echo" =>
            \E a \in audit : a.call = s.job /\ a.actor = actorFromAuth(r.auth) /\ a.ws = s.ws
McpInv == AccessInv /\ ToolsInv
=============================================================================

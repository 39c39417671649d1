------------------------------ MODULE MCServer ------------------------------
(* The server's edge and the pages that call it on small instances, one part   *)
(* per behaviour: requests of Access; the same with tool calls beside them;    *)
(* the limiter; a CSV file being read; imports; the research dialog; the       *)
(* outreach queue; the Day module; the URL of a view; a page that follows the  *)
(* server; the company profile; the CSV form; the connector health panel; the  *)
(* gate of a workspace.                                                        *)
EXTENDS Mcp, RateLimit, Research, Csv, Pages, TLC

VARIABLES part

KeyTable == "w" :> [ws |-> "acme", scope |-> "write", legacy |-> TRUE]
Ask(op, cred, asked) == [op |-> op, cred |-> cred, asked |-> asked, target |-> "none", scope |-> "none"]
OfKey(op, cred, k) == [Ask(op, cred, "none") EXCEPT !.target = k]
Mint(cred, asked, scope) == [Ask("mint", cred, asked) EXCEPT !.scope = scope]
(* A request that takes something away or opens a workspace, one that stores,  *)
(* mints or unlocks, and a third of any kind.                                  *)
MCCalls == {"c1", "c2", "c3"}
MCRequests ==
  ("c1" :> {Ask("delete", "env", "acme"), Ask("delete", "none", "acme"),
            Ask("archive", "env", "acme"), Ask("create", "env", "live"),
            OfKey("revoke", "env", "w"), OfKey("downgrade", "w", "w"),
            Ask("read", "none", "live")})
  @@ ("c2" :> {Ask("ingest", "env", "live"), Ask("ingest", "w", "live"),
               Mint("none", "none", "read"), Mint("env", "acme", "write"),
               Mint("w", "live", "admin"), Ask("unlock", "w", "acme"),
               Ask("unlock", "w", "live"), Ask("unlock", "env", "none")})
  @@ ("c3" :> {Ask("event", "w", "none"), Ask("event", "c2", "acme"),
               Ask("read", "none", "acme"), Ask("read", "none", "demo"),
               Ask("logout", "none", "none"), Ask("prefs", "none", "acme"),
               Ask("prefs", "w", "live"), Ask("archive", "env", "live"),
               Ask("read", "none", "live"), Ask("unlock", "w", "acme"),
               Ask("ingest", "env", "live")})

(* Two calls of tools, the first of any kind.                                  *)
Call(via, tool, cred, asked, args) ==
  [via |-> via, tool |-> tool, cred |-> cred, asked |-> asked, args |-> args]
MCJobs == {"t1", "t2"}
MCAsks ==
  ("t1" :> {Call(v, t, "w", "live", "good") : v \in {"http", "stdio"}, t \in MCP_WRITE_TOOLS}
           \cup {Call("http", "import_csv", "env", "none", a) : a \in {"good", "bad", "preview"}}
           \cup {Call("http", t, "w", "none", "echo") : t \in EchoTools}
           \cup {Call("stdio", t, "none", "acme", "good") : t \in {"install_sdk", "get_wbr", "annotate"}}
           \cup {Call("http", "configure_value_events", "env", "acme", "good"),
                 Call("stdio", "configure_value_events", "env", "acme", "good")})
  @@ ("t2" :> {Call("http", "annotate", "w", "none", "good"), Call("http", "get_wbr", "none", "acme", "good"),
               Call("http", "disconnect_source", "w", "acme", "good"),
               Call("http", "connect_source", "env", "acme", "bad")})

-----------------------------------------------------------------------------
Line(p, e, good) == [person |-> p, event |-> e, good |-> good]
MCFiles ==
  "users" :> [cols |-> UserCols, rows |-> {Line("ann", 0, TRUE), Line("bob", 0, TRUE)}]
  @@ "ids" :> [cols |-> {"person_id"}, rows |-> {Line("bob", 0, TRUE)}]
  @@ "events" :> [cols |-> EventCols, rows |-> {Line("ann", 1, TRUE), Line("bob", 2, TRUE)}]
  @@ "spoilt" :> [cols |-> EventCols, rows |-> {Line("ann", 1, TRUE), Line("ann", 3, FALSE)}]
Import(f, of, cols, pre) == [file |-> f, kind |-> of, mapping |-> cols, preview |-> pre]
MCUploads ==
  "i1" :> {Import("users", "none", {}, FALSE), Import("events", "events", EventCols, FALSE),
           Import("spoilt", "none", {}, TRUE)}
  @@ "i2" :> {Import("events", "none", {}, FALSE), Import("ids", "none", {}, FALSE),
              Import("spoilt", "events", {}, FALSE), Import("events", "none", {}, TRUE)}

-----------------------------------------------------------------------------
(* Ann has a country that may change; a caller of the API asks for her too.    *)
MCQuestions == {[person |-> "ann", fields |-> {<<"name", "ann">>, <<"country", "pt">>}, refresh |-> TRUE]}
MCFirstCountry == "ann" :> "pt" @@ "bob" :> "none"

MCRankings == {<<"home", "lima">>, <<"lima", "oslo">>}
MCDemoCast == <<"sf", "london">>
MCSeries == <<"a", "b", "c", "d">>

(* An open workspace with a profile, and a locked one without; the panel of a  *)
(* workspace that needs no key, and of one that does.                          *)
Profile(n, f, c) == [name |-> n, founded |-> f, city |-> c]
MCFirstStored == "open" :> Profile("acme", "d1", "lima") @@ "shut" :> Profile("default", "none", "none")
MCForms == "u" :> "users" @@ "e" :> "events" @@ "x" :> "broken"
MCSources == "demo" :> {"s"} @@ "live" :> {"s", "t"}
MCDrafts == {Profile("corp", "future", "nowhere"), Profile("corp", "none", "none")}
MCOpens == "ka" :> {"a"} @@ "kb" :> {"b"} @@ "root" :> {"a", "b"}

-----------------------------------------------------------------------------
PageParts == {"research", "drafts", "day", "url", "page", "profile", "form", "panel", "gate"}
PagePartsInit ==
  /\ ResearchInit /\ PagesInit
  /\ part = "research" \/ provider = "encyclopedia"
  /\ part = "day" \/ overview = Day!NoOverview
  /\ part = "url" \/ view = "wbr"
  /\ part = "page" \/ kind = "panel"
  /\ part = "panel" \/ panelForm.ws = "demo"
ResearchPart == part = "research" /\ ResearchNext /\ UNCHANGED pagesVars
DraftPart == part = "drafts" /\ DraftStep /\ UNCHANGED researchVars
DayPart == part = "day" /\ DayStep /\ UNCHANGED researchVars
UrlPart == part = "url" /\ UrlStep /\ UNCHANGED researchVars
LivePart == part = "page" /\ LiveStep /\ UNCHANGED researchVars
ProfilePart == part = "profile" /\ ProfileStep /\ UNCHANGED researchVars
FormPart == part = "form" /\ FormStep /\ UNCHANGED researchVars
PanelPart == part = "panel" /\ PanelStep /\ UNCHANGED researchVars
GatePart == part = "gate" /\ GateStep /\ UNCHANGED researchVars
PagePart ==
  /\ \/ ResearchPart \/ DraftPart \/ DayPart \/ UrlPart \/ LivePart \/ ProfilePart \/ FormPart \/ PanelPart \/ GatePart
  /\ UNCHANGED <<part, mcpVars, rateVars, parseVars, importVars>>

ServerInit ==
  /\ part \in {"access", "tools", "rate", "csv", "import"} \cup PageParts
  /\ PagePartsInit
  /\ McpInit /\ RateInit /\ people \in [{"ann", "bob"} -> {"none", "mail"}]
  /\ IF part = "csv" THEN ParseInit ELSE ParseInit /\ text = <<>>
  /\ IF part = "import" THEN ImportInit ELSE ImportInit /\ people = [p \in {"ann", "bob"} |-> "none"]

(* Beside tool calls, only the first request of Access.                        *)
Access1 == Expire \/ Begin("c1") \/ Step("c1")
AccessPart == part = "access" /\ Next
             /\ UNCHANGED <<part, researchVars, pagesVars, toolVars, rateVars, parseVars, importVars>>
ToolPart == part = "tools" /\ ((\E j \in MCJobs : ToolStep(j)) \/ (Access1 /\ UNCHANGED toolVars))
            /\ UNCHANGED <<part, researchVars, pagesVars, rateVars, parseVars, importVars>>
RatePart == part = "rate" /\ RateNext /\ UNCHANGED <<part, researchVars, pagesVars, mcpVars, parseVars, importVars>>
CsvPart == part = "csv" /\ ParseNext /\ UNCHANGED <<part, researchVars, pagesVars, mcpVars, rateVars, importVars>>
ImportPart == part = "import" /\ ImportNext /\ UNCHANGED <<part, researchVars, pagesVars, mcpVars, rateVars, parseVars>>
ServerNext == AccessPart \/ ToolPart \/ RatePart \/ CsvPart \/ ImportPart \/ PagePart
serverVars == <<part, mcpVars, researchVars, pagesVars, rateVars, parseVars, importVars>>
ServerSpec == ServerInit /\ [][ServerNext]_serverVars
=============================================================================

--------------------------- MODULE MCSurroundings ---------------------------
(***************************************************************************)
(* The parts around the index, which share no state with each other: the   *)
(* request limiter, clean's swap of the database file, the upgrade of its  *)
(* schema, config.toml, the MCP server, the list of files and the commands *)
(* of the CLI as a whole.  They are checked in one run: a behaviour is one *)
(* of one part, its subject, while the others rest.                        *)
(***************************************************************************)
EXTENDS RateLimiter, CleanSwap, Migrations, ConfigFile, McpServer, ListPaging,
        CommandLine, TLC

CONSTANTS cwd, notes, db1, word, note1, note2, r1, r2, open1, open2,
          term1, term2, docs, scans, plain, noise

VARIABLE subject

MCVaults == <<{note1}, {note2}>>

MCVaultOf == (note1 :> scans) @@ (note2 :> docs)
MCDirOf == (note1 :> plain) @@ (note2 :> noise)

(* No config.toml; the VLM enabled and not agreed to, a default vault; the *)
(* VLM agreed to.                                                          *)
MCBefore ==
  {Nil,
   [DefaultSettings EXCEPT !.vlm = TRUE, !.only = scans],
   [DefaultSettings EXCEPT !.vlm = TRUE, !.consent = TRUE]}

Subject == {"limiter", "clean", "schema", "config", "mcp", "list",
            "commands"}

(* The parts other than the subject start in one state of theirs.          *)
Init ==
  /\ subject \in Subject
  /\ LimiterInit /\ CleanInit
  /\ IF subject = "schema" THEN SchemaInit
     ELSE /\ schema = Created([version |-> NewestVersion, spare |-> NoCache,
                               cached |-> NoCache, columns |-> {}])
          /\ schemaCommits = 0 /\ opens = 0
          /\ opener = [p \in Opener |->
                         [stage |-> "out", draft |-> schema, seen |-> 0]]
  /\ IF subject = "config" THEN ConfigInit
     ELSE ConfigInit /\ config = None /\ thesaurus = {}
  /\ IF subject = "mcp" THEN McpInit
     ELSE McpInit /\ rows = {Row(1, note1, 0, 0), Row(2, note2, 0, 0)}
  /\ IF subject = "list" THEN ListInit
     ELSE ListInit /\ files = [v \in VaultNo |-> {}] /\ client.limit = 1
  /\ IF subject = "commands" THEN CommandInit
     ELSE CommandInit /\ settings = Nil /\ base.is = "absent" /\ tokenizer

Next ==
  \/ /\ subject = "limiter" /\ LimiterNext
     /\ UNCHANGED <<subject, cleanVars, schemaVars, configVars, mcpVars, listVars,
                   commandVars>>
  \/ /\ subject = "clean" /\ CleanNext
     /\ UNCHANGED <<subject, limiterVars, schemaVars, configVars, mcpVars, listVars,
                   commandVars>>
  \/ /\ subject = "schema" /\ SchemaNext
     /\ UNCHANGED <<subject, limiterVars, cleanVars, configVars, mcpVars, listVars,
                   commandVars>>
  \/ /\ subject = "config" /\ ConfigNext
     /\ UNCHANGED <<subject, limiterVars, cleanVars, schemaVars, mcpVars, listVars,
                   commandVars>>
  \/ /\ subject = "mcp" /\ McpNext
     /\ UNCHANGED <<subject, limiterVars, cleanVars, schemaVars, configVars, listVars,
                   commandVars>>
  \/ /\ subject = "list" /\ ListNext
     /\ UNCHANGED <<subject, limiterVars, cleanVars, schemaVars, configVars, mcpVars,
                   commandVars>>
  \/ /\ subject = "commands" /\ CommandNext
     /\ UNCHANGED <<subject, limiterVars, cleanVars, schemaVars, configVars, mcpVars,
                   listVars>>

Vars == <<subject, limiterVars, cleanVars, schemaVars, configVars, mcpVars, listVars,
          commandVars>>
Spec == Init /\ [][Next]_Vars
=============================================================================

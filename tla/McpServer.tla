----------------------------- MODULE McpServer -----------------------------
(***************************************************************************)
(* The MCP server (mcp/src/main.rs, handler/).  One loop reads requests    *)
(* line by line from stdin and answers each on stdout; rebuild_index       *)
(* starts a task that indexes in the background and writes progress        *)
(* notifications to the same stdout, which a mutex guards line by line.    *)
(*                                                                         *)
(* The index is the table of chunks; get_surrounding_context reads it in   *)
(* several statements, with commits of the tasks and of other processes in *)
(* between.  A rowid that was freed at the top of the table is given out   *)
(* again.  Empty and unreadable lines are skipped, and left out here.      *)
(* Whether a limiter admits a call is left open: RateLimiter models it.    *)
(***************************************************************************)
EXTENDS Integers, Sequences, FiniteSets

CONSTANTS
  Vaults,       \* the vaults: a sequence of sets of notes
  MaxChunks,    \* bound on the chunks of a note, for TLC
  MaxLines,     \* bound on the requests, for TLC
  MaxWrites,    \* bound on the commits, for TLC
  Nothing       \* no request, no progress token, no note

Note == UNION {Vaults[v] : v \in DOMAIN Vaults}

LineKind == {"garbage", "ping", "unknown method", "status", "unknown tool",
             "context", "rebuild"}

ChunkRow == [id : Nat, note : Note, save : Nat, index : Nat]
Request ==
  [kind : LineKind, stage : {"start", "vault", "path", "index", "rows", "write"},
   id : Nat, token : Nat \cup {Nothing}, chunk : Nat, window : 0 .. 1,
   note : Note \cup {Nothing}, index : Nat, calm : BOOLEAN,
   chunks : SUBSET ChunkRow, error : Int]

ASSUME McpAssumption ==
  /\ Vaults \in Seq(SUBSET Note)
  /\ Nothing \notin Note \cup Nat \cup Request
  /\ MaxChunks \in Nat /\ MaxLines \in Nat /\ MaxWrites \in Nat

VARIABLES
  rows,         \* the chunks table
  commits,      \* how many commits changed it
  received,     \* history: the request lines read so far
  stdout,       \* the messages written so far
  request,      \* the request being handled, or Nothing
  open,         \* stdin has not ended
  rebuilds      \* the background tasks, in the order they were spawned

mcpVars == <<rows, commits, received, stdout, request, open, rebuilds>>

Row(id, note, save, index) ==
  [id |-> id, note |-> note, save |-> save, index |-> index]
RowsNumbered(from, note, save, n) ==
  {Row(from + i, note, save, i) : i \in 0 .. n - 1}

Top(table) == IF table = {} THEN 0
              ELSE CHOOSE i \in {r.id : r \in table} : \A r \in table : r.id <= i

(* reindex_file, or delete_file_fully when n = 0 *)
Replaced(note, n) ==
  LET kept == {r \in rows : r.note # note}
  IN  kept \cup RowsNumbered(Top(kept) + 1, note, commits + 1, n)

McpInit ==
  /\ \E size \in [Note -> 1 .. MaxChunks], first \in [Note -> 1 .. MaxChunks + 1] :
       /\ rows = UNION {RowsNumbered(first[n], n, 0, size[n]) : n \in Note}
       /\ \A r, s \in rows : r.id = s.id => r = s
       /\ {r.id : r \in rows} = 1 .. Cardinality(rows)
  /\ commits = 0 /\ received = <<>> /\ request = Nothing /\ open = TRUE
  /\ stdout = <<[kind |-> "initialized"]>>
  /\ rebuilds = <<>>

-----------------------------------------------------------------------------
Index(note, n) ==
  /\ commits < MaxWrites
  /\ rows' = Replaced(note, n)
  /\ commits' = commits + 1
  /\ request' = IF request = Nothing THEN Nothing
                ELSE [request EXCEPT !.calm = FALSE]

(* Another process commits. *)
OtherCommit ==
  /\ \E note \in Note, n \in 0 .. MaxChunks : Index(note, n)
  /\ UNCHANGED <<received, stdout, open, rebuilds>>

-----------------------------------------------------------------------------
(* for line in stdin.lock().lines() *)
ReadLine ==
  /\ open /\ request = Nothing /\ Len(received) < MaxLines
  /\ \E kind \in LineKind, chunk \in {r.id : r \in rows} \cup {0},
        window \in 0 .. 1, token \in {Nothing, Len(received) + 1} :
       /\ kind # "context" => chunk = 0 /\ window = 0
       /\ kind # "rebuild" => token = Nothing
       /\ received' = Append(received, [kind |-> kind, token |-> token])
       /\ request' = [kind |-> kind, stage |-> "start", id |-> Len(received) + 1,
                      token |-> token, chunk |-> chunk, window |-> window,
                      note |-> Nothing, index |-> 0, calm |-> TRUE,
                      chunks |-> {}, error |-> 0]
  /\ UNCHANGED <<rows, commits, stdout, open, rebuilds>>

(* The codes of JSON-RPC, and the one of a tool that fails. *)
ParseError == -32700
MethodNotFound == -32601
ToolError == -32000

Handling(kinds, stage) ==
  request # Nothing /\ request.kind \in kinds /\ request.stage = stage
Advance(stage) == request' = [request EXCEPT !.stage = stage]
Fail(code) == request' = [request EXCEPT !.stage = "write", !.error = code]
OnlyRequest == UNCHANGED <<rows, commits, received, stdout, open, rebuilds>>

(* A line that does not parse, or has no id, is answered under id 0.       *)
Refuse ==
  /\ \/ Handling({"garbage"}, "start")
        /\ request' = [request EXCEPT !.stage = "write", !.error = ParseError, !.id = 0]
     \/ Handling({"unknown method"}, "start") /\ Fail(MethodNotFound)
  /\ OnlyRequest

Ping == Handling({"ping"}, "start") /\ Advance("write") /\ OnlyRequest

(* The limiter comes first, then the tool; both limits make a result.      *)
CallTool ==
  /\ Handling({"status", "unknown tool", "context"}, "start")
  /\ \/ Advance("write")
     \/ request.kind = "context" /\ Advance("vault")
     \/ request.kind = "unknown tool" /\ Fail(ToolError)
  /\ OnlyRequest

Selected == {r \in rows : r.id = request.chunk}

(* Three statements look the chunk up: its vault, which may be unknown to  *)
(* the configuration, its path, its index.                                 *)
ContextVault ==
  /\ Handling({"context"}, "vault")
  /\ \/ Selected # {} /\ Advance("path")
     \/ Fail(ToolError)
  /\ OnlyRequest

ContextPath ==
  /\ Handling({"context"}, "path")
  /\ \/ Selected = {} /\ Fail(ToolError)
     \/ \E r \in Selected :
          request' = [request EXCEPT !.stage = "index", !.note = r.note]
  /\ OnlyRequest

ContextIndex ==
  /\ Handling({"context"}, "index")
  /\ \/ Selected = {} /\ Fail(ToolError)
     \/ \E r \in Selected :
          request' = [request EXCEPT !.stage = "rows", !.index = r.index]
  /\ OnlyRequest

(* Mutant: the neighbours are those with the next rowids. *)
NeighboursById ==
  {r \in rows : r.id \in request.chunk - request.window .. request.chunk + request.window}

(* WHERE file_path = .. AND chunk_index BETWEEN index - window AND ..      *)
Neighbours ==
  {r \in rows : /\ r.note = request.note
                /\ r.index \in request.index - request.window ..
                               request.index + request.window}

ContextRows ==
  /\ Handling({"context"}, "rows")
  /\ request' = [request EXCEPT !.stage = "write", !.chunks = Neighbours]
  /\ OnlyRequest

(* Mutant: the reply is left to the task. *)
RebuildUnanswered ==
  /\ Handling({"rebuild"}, "start")
  /\ \/ Advance("write") /\ UNCHANGED rebuilds
     \/ /\ request' = Nothing
        /\ rebuilds' = Append(rebuilds,
             [stage |-> "start", token |-> request.token, vault |-> 0,
              todo |-> {}, note |-> Nothing, count |-> 0])
  /\ UNCHANGED <<rows, commits, received, stdout, open>>

(* Limited, or a task is spawned, which may run before the reply is there. *)
Rebuild ==
  /\ Handling({"rebuild"}, "start")
  /\ Advance("write")
  /\ \/ UNCHANGED rebuilds
     \/ rebuilds' = Append(rebuilds,
          [stage |-> "start", token |-> request.token, vault |-> 0,
           todo |-> {}, note |-> Nothing, count |-> 0])
  /\ UNCHANGED <<rows, commits, received, stdout, open>>

Write ==
  /\ Handling(LineKind, "write")
  /\ stdout' = Append(stdout,
       [kind |-> "response", id |-> request.id, error |-> request.error])
  /\ request' = Nothing
  /\ UNCHANGED <<rows, commits, received, open, rebuilds>>

(* stdin ends: main returns, and tasks no worker has picked up are gone.   *)
Eof ==
  /\ open /\ request = Nothing
  /\ open' = FALSE
  /\ \E dropped \in SUBSET {t \in DOMAIN rebuilds : rebuilds[t].stage = "start"} :
       rebuilds' = [t \in DOMAIN rebuilds |->
         IF t \in dropped THEN [rebuilds[t] EXCEPT !.stage = "done"] ELSE rebuilds[t]]
  /\ UNCHANGED <<rows, commits, received, stdout, request>>

-----------------------------------------------------------------------------
(* emit_progress; without a token nothing is written.                      *)
Report(t, at, total) ==
  stdout' = IF rebuilds[t].token = Nothing THEN stdout
            ELSE Append(stdout, [kind |-> "progress", token |-> rebuilds[t].token,
                                 at |-> at, total |-> total])

Task(t, task) == rebuilds' = [rebuilds EXCEPT ![t] = task]
Quiet == UNCHANGED <<rows, commits, received, request, open>>

TaskStart(t) ==
  /\ rebuilds[t].stage = "start"
  /\ Report(t, 0, FALSE)
  /\ Task(t, [rebuilds[t] EXCEPT !.stage = "open"])
  /\ Quiet

(* The database of its own, which may fail to open. *)
TaskOpen(t) ==
  /\ rebuilds[t].stage = "open"
  /\ \E stage \in {"tokenizer", "done"} :
       Task(t, [rebuilds[t] EXCEPT !.stage = stage])
  /\ UNCHANGED stdout /\ Quiet

TaskTokenizer(t) ==
  /\ rebuilds[t].stage = "tokenizer"
  /\ \/ /\ Task(t, [rebuilds[t] EXCEPT !.stage = "walk"])
        /\ UNCHANGED stdout
     \/ /\ Task(t, [rebuilds[t] EXCEPT !.stage = "done"])
        /\ Report(t, 0, TRUE)
  /\ Quiet

(* The walk lists the notes that are there. *)
TaskWalk(t) ==
  /\ rebuilds[t].stage = "walk" /\ rebuilds[t].todo = {}
  /\ rebuilds[t].vault < Len(Vaults)
  /\ \E listed \in SUBSET Vaults[rebuilds[t].vault + 1] :
       Task(t, [rebuilds[t] EXCEPT !.vault = @ + 1, !.todo = listed])
  /\ UNCHANGED stdout /\ Quiet

TaskFile(t) ==
  /\ rebuilds[t].stage = "walk"
  /\ \E note \in rebuilds[t].todo :
       Task(t, [rebuilds[t] EXCEPT !.todo = @ \ {note}, !.note = note,
                                   !.count = @ + 1, !.stage = "index"])
  /\ Report(t, rebuilds[t].count + 1, FALSE)
  /\ Quiet

(* Indexed, skipped or failed. *)
TaskIndex(t) ==
  /\ rebuilds[t].stage = "index"
  /\ Task(t, [rebuilds[t] EXCEPT !.stage = "walk", !.note = Nothing])
  /\ \/ \E n \in 1 .. MaxChunks : Index(rebuilds[t].note, n)
     \/ UNCHANGED <<rows, commits, request>>
  /\ UNCHANGED <<received, stdout, open>>

(* The last vault is done, or one cannot be resolved. *)
TaskEnd(t) ==
  /\ rebuilds[t].stage = "walk" /\ rebuilds[t].todo = {}
  /\ Task(t, [rebuilds[t] EXCEPT !.stage = "done"])
  /\ UNCHANGED stdout /\ Quiet

McpNext ==
  \/ ReadLine \/ Refuse \/ Ping \/ CallTool
  \/ ContextVault \/ ContextPath \/ ContextIndex \/ ContextRows
  \/ Rebuild \/ Write \/ Eof
  \/ \E t \in DOMAIN rebuilds :
       \/ TaskStart(t) \/ TaskOpen(t) \/ TaskTokenizer(t)
       \/ TaskWalk(t) \/ TaskFile(t) \/ TaskIndex(t) \/ TaskEnd(t)
  \/ OtherCommit

McpSpec == McpInit /\ [][McpNext]_mcpVars

-----------------------------------------------------------------------------
Responses == {k \in DOMAIN stdout : stdout[k].kind = "response"}
Place(k) == Cardinality({j \in Responses : j <= k})

(* Whatever the background tasks write in between, every request line has  *)
(* one response, in the order of the lines and under its id: a client that *)
(* pairs them up never waits for an answer that does not come.  The        *)
(* progress of a rebuild only grows, over all its vaults and whatever      *)
(* other rebuilds report, until the total that says it has given up.       *)
AnswersInOrder ==
  /\ Cardinality(Responses) = Len(received) - (IF request = Nothing THEN 0 ELSE 1)
  /\ \A k \in Responses :
       stdout[k].id = IF received[Place(k)].kind = "garbage" THEN 0 ELSE Place(k)
  /\ \A i, j \in DOMAIN stdout :
       (/\ i < j
        /\ stdout[i].kind = "progress" /\ stdout[j].kind = "progress"
        /\ stdout[i].token = stdout[j].token)
       => /\ ~ stdout[i].total
          /\ stdout[i].at < stdout[j].at \/ stdout[j].total

(* A context is one stretch of one version of one note, although it is put *)
(* together by four statements between which the index may be rewritten;   *)
(* and if it was not, the stretch is the selected chunk and all the        *)
(* neighbours in the window.                                               *)
ContextIsWhole ==
  (Handling({"context"}, "write") /\ request.chunks # {}) =>
    /\ \A r, s \in request.chunks : r.note = s.note /\ r.save = s.save
    /\ \A r, s \in request.chunks : \A i \in r.index .. s.index :
         \E q \in request.chunks : q.index = i
    /\ request.calm =>
         \E r \in request.chunks :
           /\ r.id = request.chunk
           /\ request.chunks =
                {s \in rows : /\ s.note = r.note
                              /\ s.index - r.index \in - request.window .. request.window}
=============================================================================

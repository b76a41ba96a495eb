# shiotsuchi-search: TLA+ models, checks and proofs

shiotsuchi is a local full-text and semantic search over vaults of Markdown
notes and PDFs. A SQLite file holds the index; a CLI (`chart`, `dredge`,
`clean`, `delete`, `search`, `watch`, ...), an HTTP server and an MCP server read
and write it, each in processes of its own. This directory models what those
processes do to the index and to the other files they share, and the functions
that turn files into chunks and questions into answers; it checks the models
with TLC and proves theorems about them with TLAPS.

    tlc -workers 2 -config store_two_writers.cfg MCIndexStore
    tlapm IndexStoreProofs.tla

`PROJECT.json` lists the components, the runs, the mutants that show that each
property can fail, the source lines each definition stands for, the hazards the
properties were chosen from, the findings and the theorems.

## The system

| part | state it keeps | operations | talks to |
|---|---|---|---|
| index database (`core/src/db.rs`) | chunks, `fts_chunks`, `vec_chunks`, tasks, `note_links`, `tag_counts`, `file_cache` | `reindex_file`, `delete_file_fully`, `purge_expired`, `purge_all_user_data`, `update_backlink_counts_for_vault`, queries | everybody, over SQLite in WAL mode; one write connection behind a mutex and read connections in every process |
| migrations (`core/src/migration/`) | `schema_version` | `run`, v1 to v11 | every process that opens the index |
| file indexer (`indexer.rs`, `vlm.rs`) | none of its own; reads a file and its cache row step by step | stat, stamp, read, hash, extract, describe by VLM, chunk, embed, `reindex_file` | disk, index, embedder |
| vault passes (`indexer.rs`, `purge_expired`) | the listing being worked through | `index_directory` (chart, and the rebuilds of clean, doctor and MCP), `cleanup_deleted` (dredge) | file indexer, index |
| watch daemon (`watcher.rs`) | channel of notify events | create, modify, remove, rename | file indexer, index |
| embedders (`embedder.rs`, `api_embedder.rs`) | model, HTTP client | `embed`, `embed_batch`, retries | usage limit |
| API usage limit (`usage_tracker.rs`) | `usage.json` | `check_and_increment`, `reset` | embedders, from several processes |
| text functions (`chunker.rs`, `frontmatter.rs`, `tokenizer.rs`, `pdf.rs`) | none | cutting, segmenting, layout | file indexer, search |
| search (`search.rs`, and a door each in CLI, HTTP and MCP server) | a cursor held by the client | full-text, vector and hybrid search, boosts, MMR, pages | index, read-only |
| HTTP server (`core/src/server/`) | limiter | search, list, read, config, stats | search, index |
| rate limiter (`rate_limiter.rs`) | times of the last grants | `allow` | HTTP server, MCP rebuild |
| MCP server (`mcp/src`) | background rebuilds | search, context, status, rebuild | vault passes, search |
| clean (`cli/src/commands/clean.rs`) | database, temporary database, backups as files | build aside, back up, delete, rename | vault passes, file system |
| configuration (`config.rs`, and the commands that write it) | `config.toml`, `thesaurus.toml` | init, config-migrate, config set, doctor, synonym, the wizard, consent | every program at its start |
| CLI (`cli/src`) | the configuration of its process, read once or again | commands, menu, wizard | all of the above |

What makes each hard, and what makes it correct:

* **Index database.** One transaction touches seven tables; rowids of deleted
  chunks are given out again; counts are kept incrementally; two operations
  read before their transaction begins. Correct when text index, vectors, tasks
  and cache row are those of the chunks, in whatever order any number of
  processes call it, and when the tag counts are what a recount would give.
* **Migrations.** Every process runs them, several at once, and any can die.
  Correct when the file ends up whole in one version, with the rows it had.
* **File indexer.** A file can change between any two of its reads, and another
  process can index it meanwhile; models, the consent to the VLM and the limit
  come and go between passes. Correct when no stale text is skipped for ever,
  when vectors are never of two texts or two models, when what has been paid for
  is not paid for again, and when a chart without trouble brings everything
  up to date.
* **Vault passes.** Errors, crashes, edits and other passes in between. Correct
  when one undisturbed pass repairs whatever came before it, and passes end.
* **Watch daemon.** Events are handled late, when more has happened. Correct
  when the index is the disk once the events are handled, and they get handled.
* **Usage limit.** No lock; replacing a file takes several system calls. Correct
  when no more calls than the limit are let through, and the count survives.
* **Text functions.** Boundaries: nested fences, headings, dashes, unbalanced
  marks, columns of a page. Correct when nothing is lost or read twice and what
  is written can be found.
* **Search.** Scores of two kinds and signs, ties, two queries and a cursor
  between which the index changes, three doors that should give one answer.
* **Rate limiter.** Grants at both ends of a rolling window.
* **MCP server.** One output for answers and for the progress of any number of
  rebuilds; a context that is read in several statements while rebuilds commit.
* **Clean, configuration.** File operations, any of which may be the last.
* **CLI.** Processes that hold configurations of different ages: whether a file
  may be sent to a service, and whether its cost is counted, depends on which.

The hazards, line by line, are in `PROJECT.json` under `hazards`, with the
properties that watch each one.

## Modules

    IndexStore ............ the database: what any process can do to it
      FileIndexer ......... + disk, clock and the steps of indexing one file
        BatchIndexer ...... + passes over vaults, by any number of processes
        WatchDaemon ....... + the event channel and the daemon's loop
    Migrations ............ bringing the file to the version of IndexStore

    UsageLimit ............ the promise: at most Limit calls a month
      UsageTracker ........ usage.json, inodes and system calls, implements it
      EmbeddedFile ........ extraction, VLM and vectors of one file, relies on it

    NoteText .............. lines of a note: frontmatter, chunks, tasks
    TextTokens ............ characters of a chunk: segments, words, terms, links
    PdfLayout ............. characters of a PDF: lines, columns, Markdown
    VectorPooling ......... a batch in the local model: padding, masks, means
    VaultWalk ............. which files are indexed, read, and linked to
    Places ................ where the programs look for what they need

    StableSorting ......... slice::sort_by
      Ranking ............. the order of results
        SearchDoors ....... CLI, HTTP and MCP server asking for it
    SearchPaging .......... a client turning pages over a changing index
    ListPaging ............ a client paging through the files of all vaults
    TaskList .............. which tasks a keyword finds

    RateLimiter ........... the sliding window
    CleanSwap ............. the files of clean
    ConfigFile ............ config.toml and the commands that rewrite it
    McpServer ............. request loop, rebuilds, context of a chunk
    CommandLine ........... commands, menu and wizard over one home directory

`XProofs` are theorems about X: IndexStoreProofs has those about the steps of
FileIndexer too, AlgorithmsProofs those about VaultWalk, Places, NoteText,
SearchPaging and the specification of MCAlgorithms, SearchProofs, which extends it,
those about TextTokens, Ranking, StableSorting and SearchDoors, and
SurroundingsProofs those about the parts that MCSurroundings runs. An `MC` module
gives its specification small instances; `MCAlgorithms` feeds the functions, and
`MCSurroundings` puts the small components that share no state into one run, one
subject per behaviour.

Two specifications are abstract. `StoreSpec` of IndexStore is at the same time
a component and what the two modules above it implement: every step of
`BatchSpec` and of `WatchSpec` is a step of `StoreSpec` or leaves the index alone
(the variables have the same names, so the refinement mapping is the identity).
`UsageLimit` has the months and the calls let through in each; UsageTracker
implements it with `counted` as the calls let through less those whose count
could not be written (`ImplementsLimit`), and EmbeddedFile counts its calls with
its actions; a call that is let through without being counted is an action of
EmbeddedFile's own. What is proved of the abstract specifications therefore holds of the
programs built on them.

How state and actions correspond to the code:

* **IndexStore.** A variable for each table; a chunk row is `[id, file, body,
  seq]`, where a body stands for the text of a note, for its SHA-256 and for all
  the chunker makes of it (`NumChunks`, `TagsOf`, `TasksOf`). A transaction is
  one action (`Reindex`, `CommitDelete`, `Recount`, `PurgeAll`);
  `delete_file_fully` is two, because it reads the tags on the read connection
  first (`BeginDelete`), and `purge_expired` is a selection and then a loop of
  those (`SelectExpired`, `BeginPurgeDelete`). `Abandon` is a rollback. `links`
  resolves only inside a vault; an unresolved link is not stored.
* **FileIndexer.** `work[p]` is the local state of `index_file_with_embedder`:
  `StatMtime`, `StatSize`, `CheckMtime`, `CheckSize`, `ReadFile`, `CheckHash`
  and `CommitFile` are its system calls and queries in order, each an
  interleaving point. `User` actions of the modules above edit the disk between.
* **BatchIndexer.** `job[p]` is a pass: walk or list a vault (`EnterVault`), file
  after file (`NextFile`, `ChartFile`; `CheckExists`, `DredgeFile`,
  `DredgeCommit`), recount (`LeaveVault`), next vault, end. Each failure the
  code survives is an action of its own; `Crash` is the death of the process.
  `calm[p]` is a history variable: nobody else wrote, edited or failed since the
  pass began.
* **WatchDaemon.** `events` is the channel, `agenda` what the event being handled
  still asks for. `missed` is a history variable: the files the daemon was not
  told of or failed on.
* **EmbeddedFile.** `index_file_with_embedder` once more, for one file and in
  depth: kind of file, stamp, hash, extraction, VLM with its consent and its
  cache, batches of chunks sent with retries, transaction. A version of the file
  stands for its bytes; two versions can have one text, and earlier bytes can be
  put back at any time, also between the read for the hash and the read of the VLM
  (`torn` is then the version of that hash). Models, the VLM and the file change
  between passes, a pass fails or is killed anywhere. `CountCall` has the three
  outcomes of `check_and_increment`: counted, let through uncounted (`usage.json`
  cannot be written, or the tracker is off), refused; `LoseCount` is a `usage.json`
  that was reset, cannot be read or does not parse.
* **UsageTracker.** `json` and `tmp` are directory entries that lead to inodes, so
  that a process can write to a file that another one has renamed under it.
  `admitted` and `uncounted` are history variables.
* **Migrations.** A deferred transaction: first read, first write (which fails if
  someone has committed since), the steps from the version read, commit.
* **SearchPaging.** `QueryIndex` is the full-text query, `Respond` the second
  query, the filters, boosts, sort, truncation and the response, `TurnPage` the
  client. A page is a set; what order it is in is the relation `Before`. A row can
  match the query that is searched for (tokens and synonyms) and not the one that
  is counted for `total` (the plain words), or the other way round.
* **ListPaging.** One step per statement: the counts of the vaults, then the
  slice of each vault the page overlaps, with commits in between.
* **McpServer.** Read, handle and answer of a line; a rebuild as a task that
  commits file by file and reports; `get_surrounding_context` statement by
  statement.
* **CleanSwap, ConfigFile.** Names and what is at them; an action per file
  operation, a crash between any two. Where the rename of CleanSwap fails, the copy
  that replaces it is opened, filled and followed by a removal (`OpenTarget`, `Fill`,
  `DropTemp`), with a failure of each; a copy can go on writing to a file that
  another clean has removed, and a pid can be given out again. A `config.toml` is the record of those
  settings that some command drops or moves.
* **CommandLine.** A process has the configuration it read, `settings` is the one
  on disk. Menu, wizard, commands and daemon as the code enters them, with every
  prompt's yes, no and error; the wizard is entered from the menu, after an init or
  an index, and from a search without a database. `wish` is the user's last word on
  the VLM, "back" after an init has written an earlier yes over a no. A vault is
  indexed in one step, whose inside is BatchIndexer's.
* **Functions.** An input keeps of a line, character or path what the code tells
  apart. Scores in Ranking are whole numbers in units in which every factor of
  the code is exact. Beside each function stands what it should do, defined
  without its steps (`EveryLineOnce`, `CodeStaysWhole`, `SegmentsAreExact`,
  `ReadsColumns`, `AgreementIsKept`, `WalkIsExact`, ...).

## Runs

| run | shows | instance, and why it is enough |
|---|---|---|
| `store_two_writers` | types (no negative count), text index, vectors, cache row are those of the chunks | two processes, two vaults with the same path, with and without a model, four rowids, so that freed ones are given out again; every interleaving of two-step deletes |
| `store_tag_drift` | *violation*: tag counts drift with two writers | one path |
| `batch_race` | no false skip; an undisturbed chart settles | two processes in chart or dredge (with a purge of 0 days, which drops rows written since it selected them) on one file edited three times, two bodies of equal length: only the time tells them apart |
| `batch_vault` | dredge settles, backlinks settle, tag counts are exact, passes end, refinement of `StoreSpec` | one process, two linked and tagged notes, three edits including renames, errors and crashes anywhere, a retention of 0 days (all that is older than the call); up to eight rows |
| `watch_daemon` | caught up is exact, the index follows the disk, refinement of `StoreSpec` | two notes, four edits (a file can be written, renamed away, back and overwritten while one event is handled), failures and moves out of the vault and in |
| `one_file` | no mixture of vectors, no old text taken for current, requests bounded by the calls let through, nothing embedded twice, a chart settles; and of the tracker: calls are counted, refinement of `UsageLimit` | note, PDF and scan in three versions (the second with the text of the first, the third with two batches of chunks), two changes to any version, enough to put the first one back, local and remote model, limit 1 over two months, two attempts, one pass that fails or count that is lost; the tracker as a second subject: one process, limit 2, three months (so history is carried twice), failures, crashes, resets |
| `usage_race` | *violation*: two processes exceed the limit | limit 2, one month |
| `search_boosted` | *violation*: a boosted score in the cursor shows results again | four rows of five kinds, pages of two, no change meanwhile |
| `algorithms` | functions lose nothing, find what is there, rank as promised; pages are all the hits and the cursor advances | every input up to: notes of 6 lines, texts of 6 to 8 characters, pages of 4 lines, documents of 4 font sizes, 3 chunks under every request, 3 files and patterns, 4 settings; and every table of four rows, two ranks (so ties), pages of two by cursor, by offset up to `total` and by offset until a page is short, one row replaced between any two queries |
| `fence_at_end` | *violation*: a text that ends with a closed fence is not segmented | every text of up to five pieces (marks, fences, newlines, characters) |
| `walk_nested` | *violation*: a nested directory chosen in `init` is indexed | three files, directories and patterns |
| `surroundings` | see below | one part a behaviour |

`surroundings` checks seven parts that share nothing:

| part | properties | instance |
|---|---|---|
| RateLimiter | `WindowIsExact` | two grants a second, three clock units a second, four seconds |
| CleanSwap | `IndexNeverLost` | two pids, each run again and again, four backups with three kept, two renames that fail |
| Migrations | `UpgradeIsWhole` | two processes, a file of any version, with and without rows, three opens |
| ConfigFile | `DroppedIsBackedUp`, `UpgradeKeepsMeaning`, `DoctorRepairs` | two commands that can be killed anywhere, one save in an editor while a prompt waits |
| McpServer | `AnswersInOrder`, `ContextIsWhole` | two request lines, two vaults, two chunks, one commit of another process |
| ListPaging | `ListIsWhole` | three vaults of up to three files, pages of 1, 2 and 4 with a cap of 3, one file replaced |
| CommandLine | `ImagesNeedConsent`, `WizardResumes` | two processes, one with a user at menu and wizard, two vaults, one of them with a scan, one edit of the configuration by hand, at any time |

Bounds: `MaxRowId` (rowids, small enough that they are given out again),
`MaxEdits` and `Ticks` (edits of the user and how far the clock moves with
each), `MaxChanges`, `MaxPages`, `Months`, `LastMonth`, `MaxTime`, `MaxBackups`,
`MaxRenameErrors`, `MaxStamp` and `MaxFaults` (saves of the file, and failures and
lost counts of EmbeddedFile), `MaxOpens`,
`MaxRuns`, `MaxLines`, `MaxWrites`, `MaxReplaced`, `MaxStarted`, `MaxLength` (of
an input). `TagBound` and `FewAdmitted` are TLC constraints that cut off counts
that drift without end (see Findings); no liveness property is checked under a
constraint. Real thresholds are scaled down so that inputs can cross them:
`Level2SplitThreshold`, `BatchCap`, `MaxAttempts`, `KeptBackups`, `MaxSeqLen`,
`HttpLimit`, `MaxLimit`.

Symmetry is used only where no operator tells the permuted values apart: not
over paths where `LinksOf` names one of them, and not with a liveness property.

Deadlock is checked except where the system stops by itself: when the edits are
used up and the daemon has caught up, when an input has its full length, when a
client has its last page, when a part of `surroundings` is done.

Fairness: `FairBatchSpec` assumes that a process that is in a pass keeps running
it (weak fairness of `PassStep(p)`: the code is a loop without waiting),
`FairWatchSpec` that the daemon's loop runs while there is something to do, and
`FileSpec` that chart is run again and its steps taken (weak fairness of
`IndexStep`: what `TextSettles` promises is promised of a next chart). None
assumes anything of the user, of failures or of crashes: `PassEnds`,
`IndexFollowsDisk` and `TextSettles` hold for every environment. The last two
are about a user who stops editing; `MaxEdits` and `MaxStamp` make every user one.

## Proofs

For every set of processes, vaults, paths, bodies, tags, models and stamps, and
every value of the bounds:

| module | theorem | statement |
|---|---|---|
| IndexStoreProofs | `TypeCorrect` | `StoreSpec => []TypeOK`: no tag count is ever negative |
| | `TextIndexCorrect` | the text index is the chunks, a rowid names one row |
| | `VectorsCorrect` | a vector belongs to the chunk its rowid names, under the file's model |
| | `CacheCorrect` | the rows of a file are those of the cached body |
| | `LinksCorrect` | a stored link starts at an indexed note of its vault |
| | `TagCountsCorrect` | with one writing process every tag count is exact |
| BatchIndexerProofs | `PassesImplementStore` | `BatchSpec => StoreSpec` |
| | `PassesKeepTagCounts` | one process, whatever it runs and however it dies: tag counts exact |
| | `SkippedFilesAreCurrent` | a file whose stamp is cached has the cached text |
| | `OneDredgeSettles` | after an undisturbed dredge no file is indexed that is not on disk |
| | `OneChartCounts` | after an undisturbed chart the backlink counts are the numbers of links |
| | `OneChartSettles` | after an undisturbed chart every file on disk is indexed as it is |
| WatchDaemonProofs | `DaemonImplementsStore` | `WatchSpec => StoreSpec` |
| | `DaemonKeepsUp` | the daemon alone: caught up, the index holds what it was told of as it is on disk |
| UsageTrackerProofs | `NoCallIsForgotten` | one process: `usage.json` has every admitted call whose count was written |
| | `OneProcessImplementsLimit` | one process: the tracker implements `UsageLimit` |
| EmbeddedFileProofs | `VectorsAlwaysAgree` | the vectors of a file are those of its cached text under its model, all or none |
| | `TextIsCurrent` | neither stamp nor VLM cache makes an older text pass for the present one, but for a PDF replaced under the VLM and put back |
| | `CostIsBounded` | a month costs at most `MaxAttempts` requests for each call let through, counted or not |
| | `OnlyNewTextIsSent` | a chunk is sent only if the stored text of its file is another one |
| AlgorithmsProofs | `CursorsAdvance` | without boosts a page by cursor starts behind the one before, whatever is written in between |
| | `PagesHoldAll` | over an index at rest the pages by cursor, or by offset until one is short, hold every hit once; so do those up to `total` if that is not below the number of hits |
| | `VaultsAreWalked` | the functions that find files, links, vaults and models are right about every input, of any length |
| | `NotesAreCut` | what frontmatter and chunker make of any note, under any threshold |
| | `WalksExactly` | a walk finds the files that no pattern means, and each of them once |
| | `SaysWhy` | check-ignore excludes what the walk excludes, for a pattern that matches |
| | `LinksLead` | a link leads to the nearest note of its name |
| | `ExcludesRootChoice` | what is chosen in the root of a vault in `init` is out of the index |
| | `IndexesAgree` | command line and MCP server open one database and walk the same vaults |
| | `ModelsAgree` | notes are embedded with the model that queries are embedded with, where the configuration names no file |
| SearchProofs | `NotesGoIntoTheIndex` | a note goes into the index whole, at any length; its text keeps every character where segmenting does not panic, and every link and emphasis |
| | `SegmentsHoldText` | where there is no panic, every character but a newline is in one segment of prose, code or math; plainly fenced code is code |
| | `MarksAreFound` | no two links overlap and no two emphases, and none that is closed is missed |
| | `LongestEntriesWin` | the user dictionary keeps every token and merges the longest entries |
| | `RankingsAreRight` | the properties of the ranking below, of every index of up to `MaxRank` chunks |
| | `FusionKeepsAgreement` | what no list places behind another is not behind it after the fusion |
| | `AlphaIsAChoice` | with a weight of 0 the results are those of the other list, in its order |
| | `BoostMovesUp` | title, emphasis or one more backlink never move their chunk down |
| | `RelevanceIsKept` | MMR with lambda 1 changes nothing |
| | `PagesAreFull` | a page holds nothing twice, only hits, and as many as it can |
| | `DoorsGiveOneAnswer` | CLI, HTTP and MCP server give one answer to one question |
| | `PagesAreTheAnswer` | the pages by offset, put together, are the one long answer |
| SurroundingsProofs | `LimiterIsExact` | no window of a second has more grants than allowed |
| | `IndexIsNeverLost` | a complete index stays under some name, wherever cleans are killed, if renames work or one fails and its pid is not used again |
| | `UpgradesAreWhole` | the newest version has every table and column, and the cached files it had |
| | `DroppedSettingsAreBackedUp` | what a command drops from `config.toml` is in a backup |
| | `UpgradesKeepMeaning` | a migrated configuration names the vaults and the database it named |
| | `DoctorsRepair` | a doctor answered with yes leaves a file that loads, in the present format |
| | `ContextsAreWhole` | a context is a stretch of one version of one note |
| | `AnswersAreInOrder` | one response a line, in order; progress grows up to its total |
| | `ListsAreWhole` | pages of files are in order; over a list at rest they hold every file once |
| | `ImagesAreAgreedTo` | page images leave only a process whose user agreed, or one that read a consent an init had written back |
| | `WizardsResume` | the menu's Onboarding does not refuse the `config.toml` it wrote itself, and another's no more than once |

The arguments.

*IndexStore.* `TypeOK` alone is not inductive: a tally is a number only of a
finite set of rows. `TypeInv` adds `FiniteTables`. The four agreement properties
are not inductive one by one: that vectors are of the right chunk after a reindex
needs that rowids are unique, that every vector's rowid is a chunk's, and that
rows belong to cached files; `TablesAgree` is their conjunction with what they
need of each other, and `StoreInv == TypeInv /\ TablesAgree` the invariant. Tag
counts need `PendingTagsFresh` (`TagInv`): what a delete has read is still what
is in the table. That is false as soon as a second process can write in between,
which is what `store_tag_drift` shows; so the theorem assumes `Proc = {w}`.

*Passes and daemon.* IndexStoreProofs has what both share: each step keeps
types, and to the index is `Reindex` with arguments of the right type, or nothing.
The invariants of the refinements say that the operations do not overlap in a
process, as `StoreNext` demands: who is in no vault holds nothing, a chart has no
delete in progress and a dredge no purge (`PassInv`, in `StepInv`); the daemon
never purges, and deletes nothing while it indexes (`CallInv`, in `DaemonInv`).
The theorems of IndexStore then hold of the programs; `PassesKeepTagCounts` is
such a corollary.

*SkippedFilesAreCurrent.* The invariant `FreshInv` has two halves. No time on disk,
in the cache or in the hands of a process is later than the clock; and what
was read with time `ms` is right for as long as the file's time is `ms`
(`ReadAfter`): the stamp is taken before the text, so a later edit has another
time, if edits are apart. This is where the order of the two reads in
`indexer.rs` matters.

*What a pass settles.* `calm` says only that nobody interfered; what such a pass
has done so far is in three invariants. `DredgeInv`: what is behind it in the
listing is on disk or not in the index, and at most one file is on its way out.
`CountsInv`: the vaults it has left have exact counts, and the one it is in was
walked as it is on disk; its hard case is the file that is skipped, whose links
are in the table already. `NoScoring` covers the configuration in which no link is
stored at all. `ChartInv`: what is behind it is indexed as it is on disk, and
what it knows of the file in hand is still true (`WorkCurrent`). The last needs
`NoFalseSkip`, since the fast path believes the stamps; so `OneChartSettles`
assumes what `SkippedFilesAreCurrent` does, and the other two do not. Any number
of processes run: one that commits is seen to disturb the others (`OthersStep`).

*DaemonKeepsUp.* `AccountInv` is kept file by file, for the files the daemon was
told of. A file on disk is queued to be indexed, or is being indexed with nothing
false in hand, or is in the index as it is (`Present`); one that is gone is due to
be deleted, or is neither in the index nor about to be (`Absent`). The two halves
of a rename arrive in one event, and a call can have read the stamp of one version
and the text of another; but then the older was moved away, and its deletion is
still in the channel (`WorkTimes`, `RowTimes`). That is where the order of the
channel matters, and where a stamp must name one write (`TimesInv`): the theorem
assumes `0 \notin Ticks`, edits at least a millisecond apart, and one process.

*UsageTracker.* `TrackerInv`: no file is ahead of the clock or the limit, and
what it knows of a month (its count or its history) covers the calls let through.
`CallInv`: what a call in flight will write is such a file too and has its own
call besides, and where its bytes have got to. `OneInv` is both; so a rename adds
one call in the eyes of `UsageLimit`, a reset takes all back, and the other steps
are no steps.

*CleanSwap.* `CleanInv` has a part for each half of the property. While no rename
has failed (`Renamed`) what is at `db_path` is never half written, and when nothing
is there some complete temporary file will not be written to again (`Safe`). After
one that failed (`Copied`) the only process that can be copying keeps its whole
temporary file, until its copy is whole or there is another index that it will not
remove (`Covered`). With a second failure two copies write to one file, and with a pid
that is given out again the new clean removes the file that was left: both are in the
run, and nothing is promised of them.

*RateLimiter.* The deque is the end of the list of all grants, and what was
popped is too old (`GrantsEndAt`); it stays too old because the clock does not
run back. A window that a new grant closes therefore holds grants of the deque only.

*Migrations.* A schema is sound if it has the tables and columns of its version
(`Historic`), but for those of the frontmatter, which a version 6 may lack until
v7 adds them; each step of a migration keeps it so (`HistoricStep`). An open
transaction works on a draft; a draft that has been written to holds the lock,
so nobody has committed since, and its cached files contain those of the
database (`SoundOpener`).

*ConfigFile.* `StageInv` says at each stage of a command what `config.toml` is by
then: copied before it is truncated, `Default` once truncated, and no poorer than
what is about to be saved. The properties are about steps, and each follows from
the invariant at the stage the step starts from (`Dropping`, `Upgrading`,
`Repairing`).

*McpServer.* `ContextInv`: in the table a note has the rows of one save, without
a gap; a request that nothing has disturbed still finds its chunk where it looked
it up. When something has, `Stretch` rests on the last of its statements alone.
`AnswerInv` adds the output: responses are as many as finished lines
(`AnswersRight`), and the request in hand is the last line (`LastLine`). A
rebuild is known by its token, which is the number of the line that started it, so
no two have the same (`TokensRight`); what it has reported is no more than it
has counted, and nothing if it has not started (`ProgressRight`).

*CommandLine.* A configuration in memory that lets images out goes with a wish of
that process's user, or with a consent that an init has written back; the terminal
that wrote `config.toml` in its onboarding, or was refused by one, has seen the file
before it is at the first step again (`SoundSession`, for each session).

*SearchPaging.* Results are ordered by score and then by id, a total order, so
that `First(n, s)`, the least n of a finite set, is a set of n elements before all
others; the lemmas about it (how two of them nest, what is left when one is taken
away) are by counting. `AdvanceInv`: what was shown comes up to the cursor and
what is found comes after it. `PagesInv`: in an index at rest what was shown is
all but what is still to be shown from the cursor or offset on; a page that is short
is the last, and so is the one that reaches a total that counts all hits; the extra
result asked for (`limit + 1`) is what tells whether that is nothing.

*VaultWalk.* The matcher of the code goes through pattern and path position by
position (`Reach`); what it should do is said by cutting the path into pieces
that match. The two agree because a run of the matcher is a cut and a cut is a
run; a run is a sequence, and exists by the least number at which it could not go
on (`RunsExist`). The same lemma gives the loops of `PathMap` their invariant: of
the notes of one name it keeps the first of the shortest. That a directory chosen
in the root is excluded assumes that its name is no pattern, as
`VaultAssumption` says of the runs' names.

*NoteText.* Which lines are code is a function of the line (`code`): it changes at
every fence. The loop over the headings has the invariant `AreSections`: the sections
so far, the open one included, hold all lines but the headings, are apart and in
order, a section with text is parted from the next one with text by a heading and has
none inside, its text begins outside of code, and the path of the open one is
`OpenAt`, the headings above it that no heading of the same or a higher rank follows.
The part about text is what makes it inductive: a heading before any text throws no
section away but continues the one it finds. A blank line outside of code parts
paragraphs as a heading parts sections, so that one lemma on cuts (`IsNoteCut`) is the
invariant of both loops. What `trim` takes off the ends of a piece has no text. The
chunks are those of the sections, one list after the other (`FlattenIs`), and the
five properties follow from their order, what they hold, and that code never is the
first text of one. The loop over the tags of a frontmatter knows whether the list it
is in goes back to a `tags:` without a gap.

*TextTokens.* The loops over a text are scans: recursive functions that go on to a
position further on. A scan has a value at each position (`ScanExists`), and what
holds of a position if it holds of the next one visited holds of all
(`ScanInduction`). What a scan returns are ranges of positions one behind the other
(`AreRanges`), and each loop has an invariant on them: no mark of its kind from here on is missed
(`MeetMarks`), what is fenced from here on is code (`FencedIsCode`). The last is about
two parsers of the same fences, one by lines and one by characters; the scan by
characters is never inside a fence when it looks for the next (`Outside`), because it
takes fences in pairs. Display math may swallow a fence, one of another mark closes a
block for the chunker only, and an indented one counts for the chunker only, so that
part assumes that there are none (`PlainFences`), as the property says. Both are
stated of the texts at which the code does not panic.

*Places.* Both programs look at environment and file in an order of their own; the
proofs go through the kinds of both and compare what is found in each.

*Ranking.* A list of results is known by the set it lists, the place of each member
and its score (`IsList`, `Place`, `ScoreOf`), and every stage of the search has a
lemma that says what it does to these three: sorting, cutting, boosting, filtering,
fusing. They rest on one about `InKeyOrder`: the place of a row is one more than the
number of rows before it (`PlaceCounts`), so a row moves up when fewer come before it. The
factor 1/(k + rank) is a whole number because `FusionUnit` is a multiple of every
`K + rank` up to `MaxRank`, and a better rank gives strictly more
(`EarlierGivesMore`); that is why the theorems about the fusion are of an index of up
to `MaxRank` chunks, whatever `MaxRank` is, and the two about the doors are of any
index. Re-ranking is a recursive function; its runs exist (`RunsExist`) and their
invariant is that what was picked is that many different candidates. With lambda 1
the pick is the first of the most similar, which is the next of the list.
`BoostsHelp` excepts hybrid search with boosts of other chunks: there the theorem would be
false. A better rank in one of the two lists pushes one chunk off the fused page and
brings another one onto it, and a boost of that other one outweighs any rank.

*ListPaging.* `FilesUpTo(v)` numbers the files of all vaults in one row; a page is
the stretch from the offset of the request to where the counting has got
(`ListInv`), and `remaining_offset` is how far into the next vault that is. Sums
over vaults are a recursive function (`Sums`), whose equations are proved once, by
the least number at which they could fail (`SumsAre`). Without the assumption that the list is at
rest only the order within a page is left.

*EmbeddedFile.* `FileInv` is the conjunction of types and one part a theorem:
`TextInv`, `VectorInv`, `CostInv`, `NewInv`, each of which says for the stages
of a pass what is already known of the file in hand. `TextInv` follows a text that
is not of the version whose hash it is stored under (`torn`) through the cache and
back. What `CostInv` counts with is the calls let through: a lost count moves from
`counted` to `unwritten`, and a refused call sends nothing.

The assumptions. `ConstantsAssumption`: every body has at least one chunk, as
`split_into_chunks` returns. `SentinelsAssumption`, `IndexerAssumption`,
`BatchAssumption`, `WatchAssumption`, `TrackerAssumption`, `LimitAssumption`,
`EmbeddedAssumption`, `PagingAssumption`, `ListAssumption`, `LimiterAssumption`,
`CleanAssumption`, `MigrationAssumption`, `ConfigAssumption`, `McpAssumption`,
`CommandAssumption`, `WalkAssumption`, `PlacesAssumption`, `VaultAssumption`,
`SettingAssumption`, `RankingAssumption` (the re-ranking looks at one page or
more), `DoorsAssumption`, `DirectionAssumption`, `LengthAssumption`,
`RequestAssumption`, `AskAssumption`, `ThresholdAssumption`, `LayoutAssumption`,
`PoolingAssumption`: sorts of the constants, and that the no-value values are
not values (in CommandLine also that a file is in one vault). Rowids and the
files of a vault are finite sets of numbers, ranks are integers of any sign.
`StampAssumption`: a stamp can have the time of one and the size of another,
because the two are read one after the other. Beyond these, and in the
statements of the theorems themselves: `AnyTime` (any time can be the time of a
note) for those of the passes, `DistinctTimes` (edits are a millisecond apart
and no rename brings an old stamp) for `SkippedFilesAreCurrent` and
`OneChartSettles`, `0 \notin Ticks` and `Proc = {w}` for `DaemonKeepsUp`,
`OneProcess` for the tracker, `Proc = {w}` for tag counts. The
instances of `batch_race` and `watch_daemon` have such edits, those of
`batch_vault`, `watch_daemon` and `one_file` one process; `AnyTime` is about an
unbounded clock, of which a run sees the part up to `MaxEdits`. The theorems of
AlgorithmsProofs, SearchProofs and SurroundingsProofs have no hypotheses of their
own but the sorts of their arguments, and that an index that is fused has at most
`MaxRank` chunks, which is the bound up to which `FusionUnit` makes ranks whole.

Only model-checked: the liveness properties (`PassEnds`, `IndexFollowsDisk`,
`TextSettles`), since the prover has no rule for fairness; and of the functions
`TextIsSearchable`, which is about what identifiers, queries, tasks, snippets, the
pooling and the layout are for every input, and at which texts the segmenting
panics: their proofs are left to the plan. Every other
property of a passing run is stated by a theorem.

## Findings

The five violation runs:

* `store_tag_drift` - `delete_file_fully` reads the tags outside its transaction.
* `usage_race` - `check_and_increment` is not atomic between processes.
* `search_boosted` - `next_cursor` holds a boosted score, the query compares ranks.
* `fence_at_end` - `split_code_math_segments` cuts a fenced block at the newline behind
  its closing fence (`chunker.rs` 296). Where the text ends with that line there is
  none, and the index into `chars` panics. The chunks are trimmed before
  (`chunker.rs` 65, 81), so every chunk that ends with a closed fence is such a text,
  and the process that indexes it ends there, as with the crashes of the indexers.
* `walk_nested` - `init` turns a nested directory into a pattern that excludes
  nothing in it.

## Known limits of the code

Disagreements and surprises seen while modelling that no run is spent on. Where a
property leaves one out, the property says so.

Indexing:

* The CHANGELOG says search results are "boosted based on how many other notes
  link to them" (line 313). A note whose stamp or hash is unchanged is skipped
  with its links (`indexer.rs` 426, 533), so a wikilink to a note written later
  is not stored until the linking note changes. This is the hazard no property
  covers: the code has no step that would resolve the link.
* "Uses millisecond-precision mtime + file_size for two-stage check to handle rapid
  successive writes" (`indexer.rs` 425): two writes of equal length within one
  millisecond, the first of them indexed, leave the first text for good.
  `NoFalseSkip` is checked with `Ticks = {1}`: edits are a millisecond apart.
* `purge_expired` ("files older than retention_days", `db.rs` 464) deletes what it
  selected earlier without looking again (`db.rs` 490), so a file another process
  indexed in between is dropped. That is in the model and no property forbids it;
  purged notes that are still on disk come back with the next chart
  (`ChartSettles`).
* A PDF that is replaced between the read for its hash and the read of the VLM
  (`indexer.rs` 470, 514) is stored with the text of the replacement under the hash of
  the original. When the original is put back, the cache gives that text for it
  (`indexer.rs` 477), and `--force-vlm-reprocess` does not help while the stamp is the
  one stored. `CachedIsCurrent` and `TextSettles` except this case (`TornHere`), and no
  other.
* A call is let through uncounted when `usage.json` cannot be written
  (`usage_tracker.rs` 89), and a read that fails or a file that does not parse resets
  the count (`usage_tracker.rs` 53), so that the month can cost more than its limit.
  `RequestsBounded` is about the calls let through; a read that fails is in
  EmbeddedFile (`LoseCount`) and not in UsageTracker.
* The fast path ignores `model_id` (`indexer.rs` 426): after a change of model an
  untouched file keeps the vectors of the old one; a failed embedding is recorded
  under the model and not tried again.
* `--force-vlm-reprocess` clears `vlm_hash` (`db.rs` 428, CHANGELOG 151), but the
  fast path is taken before `vlm_hash` is looked at.
* A chart without the consent to the VLM, or an MCP rebuild, of a scan that was
  touched erases the text and the vectors the VLM had given it. A failed VLM
  extraction is cached as an empty text; a cache hit joins the chunks again
  without their headings; an unchanged text is skipped without storing `vlm_hash`.
* API: `ureq` turns answers from 400 on into errors, so the branch that retries a 5xx
  answer is not reached (`api_embedder.rs` 128); retries are not counted; the
  `index` field of an answer is ignored; a limit reached between two batches wastes
  the calls of the first. A text without a token is an error alone and a zero
  vector in a batch.
* `dredge --dry-run` says it does not really delete (`dredge.rs` 12), and calls the
  same `cleanup_deleted` (`dredge.rs` 98).
* `clean`, `doctor` and `search` use the local model whatever embedder is
  configured; the MCP server ignores `[indexing]`.

Watching:

* "Watcher (incremental indexing) updates backlinks on modify/create/rename/remove
  events" (CHANGELOG 320): only remove recounts (`watcher.rs` 193); the others
  store links and leave `backlink_count` as it was.
* "Watch vault directories for changes and incrementally re-index" (`watcher.rs`
  15): a file moved out of the vault comes as a rename with one path, which falls
  to the empty default case (`watcher.rs` 255); the note stays in the index.
  `CaughtUpIsExact` leaves out such files, by way of `missed`. A directory that is
  renamed is not followed either, and the old path of a rename stays indexed if its
  directory is gone (`watcher.rs` 115).
* The daemon indexes what is touched, whatever is excluded, hidden or of another
  extension.

Notes, words, PDFs:

* The chunker takes a line for a fence that is indented, or has another mark than the
  one that opened the block (`chunker.rs` 150, 215, and the tests 836 to 858); the
  segments want the same mark at the start of a line. `SegmentsAreExact` compares the
  two where fences are plain (`PlainFences`).
* An indented closing `---` leaves dashes in the text (`frontmatter.rs` 41), unless it
  is the first thing after the opener, whose indentation is trimmed
  (`frontmatter.rs` 28). The tests at `chunker.rs` 595 to 620 assert that the frontmatter is in
  the text of a chunk; `split_into_chunks` strips it, so with a tokenizer they would
  fail, and without one they return before. `FrontmatterIsExact` is what the code does.
* A link and an emphasis are found by two scans that know nothing of each other, so
  that `**[[Note]]**` is both. `[[Note^block#heading]]` keeps `^block` in the name: the
  block anchor is looked for only if there is no `#` (`indexer.rs` 176).
* The titles of sections that have only a heading are in no chunk.
* Identifiers in camel case or with digits inside code are not found by their parts
  (CHANGELOG 457, 474); overlapping dictionary entries can hide a term; the index
  merges dictionary terms before it normalizes and `--fuzzy` normalizes first.
* PDF: columns with the same baselines merge into lines; a tall line across a gap is
  lost to its band (`pdf.rs` 127); a page that starts with a heading has no blank
  line before it; below 3 pt the rounding to half points can make body text a heading;
  ties of the commonest font size go by the order of a `HashMap`.
* An excerpt takes the byte position of a match in the lowercased text, and
  `max_chars` may cut the match.

Search:

* Filters run after `LIMIT` (`search.rs` 427), so a page can lose its hits and its
  `next_cursor`, and vector search takes the nearest of all vaults before it keeps
  one vault. Without a tokenizer `/search` truncates to `limit` and then skips
  `offset` (`handlers.rs` 166, 197), so pages after the first are empty, and mode, tag
  and since are ignored. Offsets above 10000 all give one page. `PagesAreAll` is
  stated for the queries these do not touch (`PlainPaging`).
* `total` counts the matches of the plain words, without tokens, synonyms, tags and
  dates (`handlers.rs` 175), so it can be more or less than what the search finds, and
  a client that turns pages by offset up to `total` can miss hits. `PagesAreAll`
  promises such a client every hit only if the total is not below their number. (Where
  the count fails there is no total.)
* The backlink boost sorts again and undoes the order of MMR (`search.rs` 359); one
  backlink (0.05) outweighs every difference of fused ranks (1/61); hybrid search
  truncates to `limit` before MMR, so lambda 1 is not the order of relevance there;
  above 1000 candidates MMR returns all of them. When the vector part fails hybrid
  search falls back to full text.
* The HTTP server does not check the name of a vault where CLI and MCP server refuse an
  unknown one; the MCP server knows no synonyms, dictionary or alpha; the CLI's search
  ignores `vault_default`, and `list` shows the vault "default" only.
* `%` and `_` in the keyword of `tasks` are wildcards. `tag_stats` lists a tag of two
  vaults twice, and statistics are read statement by statement.

Which files:

* `init` (see Findings) also offers a directory by its name alone when it is in the
  root, which then excludes every directory of that name. Its candidates are cut to
  1000 in the order of a `HashMap`, and not pre-selected as `init.rs` 171 says.
  A vault whose own directory name begins with a dot yields none.
* The examples `*.tmp` and `draft_*` (`docs/CLI-USE.md` 98, `indexer.rs` 19) exclude
  directories only. "matched against the full relative path" (`ref/cli.md` 139):
  patterns match anywhere. `check-ignore` does not know hidden directories nor
  extensions.
* A symbolic link to a file outside the vault is indexed with
  `follow_links = false` and not with `true`; `/read` gives it from the index only.

Configuration and places:

* `clean` "is now atomic" (CHANGELOG 739): the old database is deleted before the
  new one is renamed (`clean.rs` 187), so for a moment, or for good after a crash,
  nothing is at `db_path`. Where the rename fails - a file mounted at `db_path`, a
  directory that is read-only by now - `fs::copy` fills the target in place
  (`clean.rs` 194), and a kill leaves half an index there and the whole one under the
  temporary name, which the next clean of that pid removes. What does hold is
  `IndexNeverLost`. A daemon or MCP
  server keeps the database that was unlinked (`clean.rs` 192) and writes to it;
  CommandLine follows such a process as an orphan. `clean --purge-all` empties the
  tables before it knows that the tokenizer loads.
* `stats`, `list`, and without a tokenizer `chart` and `doctor` create an empty
  database. `doctor` may take a locked database for a damaged one, and deletes it
  even if its backup failed.
* config-migrate and `doctor` reset named vaults, synonyms, server, sensitive data and
  usage sections, which are then in the backup only (`DroppedIsBackedUp`);
  `init --force` loses the legacy `vault.db_path`, replaces `vaults.default`, and
  makes its backup before the prompts, so what is saved in between is in none. It
  can write back a consent that was revoked meanwhile (`init.rs` 63, 115):
  `ImagesNeedConsent` knows such a consent by "back". A thesaurus that does not
  parse is replaced by the next word. Names of backups have a resolution of seconds.
* `main` copies `[embedding_usage]` to where the embedder looks (`main.rs` 160); the
  menu, which loads its configuration again after a wizard (`welcome.rs` 208), and the
  limit the wizard writes (`welcome.rs` 305) do not. So what is indexed from that menu
  afterwards is not counted, although "monthly_limit" is said to be enforced
  (`ref/architecture.md` 74). A consent given in the menu is asked for again.
* `init` from the menu, and the wizard that a search without a database offers
  (`welcome.rs` 469), write `config.toml` and leave what the menu knows of it
  (`config_exists`) as it was, so the next Onboarding is refused at a file of its own
  session (`init.rs` 27), once: then the file is looked for again. `WizardResumes` says
  so.
* A legacy `[vault] notes_dir` together with `[vaults.default]` or `--notes-dir` gives
  two vaults named "default"; `SHIOTSUCHI_NOTES_DIR` adds a vault in the CLI and
  replaces the directory of an arbitrary one in the MCP server; an unknown field makes
  the CLI fall back to the defaults where the MCP server loads the file. Without HOME,
  `setup` names another directory than the lookup; `usage.json` is in another one for
  `tide` than for the embedder on macOS. A configured model path is returned even if
  nothing is there (`config.rs` 88).

Migrations and MCP:

* v4 drops `vec_chunks` while the cache keeps hash and model, so the vectors are not
  built again; "accurate values on the next re-index" (`v10.rs` 14) needs a changed
  note; the self-healing of `v07.rs` 5 stops at version 7; v3 does not re-key the cache
  when `chunks.vault_name` is there already.
* The rebuild limiter bounds the rate of rebuilds and not their number; progress 0 may
  come before the answer that the rebuild has started; a total is only sent when the
  tokenizer fails (`ref/mcp.md` 65); a chunk id of an earlier search may name another
  note after a reindex; "delete all chunks and reindex" skips unchanged files.

## Not modelled, and abstractions

* The walk of a vault is one step in BatchIndexer: files that come and go during
  `WalkDir` are those of an edit just before or after it. Vaults are walked in any
  order. Which files it lists is VaultWalk's.
* A rename that swaps in a file with the mtime and length of the one it replaces
  is outside `batch_race` (`Renames = FALSE` there): it defeats the stamp by
  design.
* The daemon starts on an empty vault and an empty index; events are not lost by
  notify (its own queue limit is the kernel's).
* The morphological analysis (vaporetto), BM25, the ONNX model, the decoding of a PDF
  and SQLite itself are libraries: their results are inputs of the models. Floats
  are not rounded. Dates and path globs of a search are one filter of a chunk.
* `-wal` and `-shm` files are not told apart from their database in CleanSwap;
  names of backups (to the second) do not collide there. Two commands never share
  `config.toml.tmp` in ConfigFile, where one command runs at a time.
* The sensitive-data scan (patterns over a text), routing, authentication and the UI
  of the HTTP server, messages and wording, the path checks of `delete`, and what
  `log`, `support`, `tide` and `stats` read and print: input and output without
  state.
* `insert_chunks`, `insert_embeddings`, `upsert_file_cache`, `delete_file_cache`,
  `delete_orphaned_embeddings` and `decrement_tag_count` have no caller outside
  tests, nor has `resolve_vault_for_path`.

## Plan

What is left, in this order:

1. Theorems about identifiers, tasks, snippets, the pooling and the layout of a page
   (`TextIsSearchable`): their loops as scans (`ScanExists`, `ScanInduction`), as those
   of the segments and marks are.
2. The index under CommandLine as an instance of `StoreSpec`, so that its one-step
   chart is the passes of BatchIndexer by refinement and not by reading.
3. Two processes in EmbeddedFile.
4. The statistics as statements over a changing index, like ListPaging.

\* Every part around the index on its own: two grants a second for four
\* seconds; two cleans; two processes that open a database of any version;
\* two commands on config.toml; two request lines to the MCP server over two
\* vaults; a client that lists three vaults of up to three files;
\* two processes of the CLI, one of them with a user, over two vaults.
CONSTANTS
  cwd = cwd   notes = notes   db1 = db1   word = word
  note1 = note1   note2 = note2   r1 = r1   r2 = r2
  open1 = open1   open2 = open2
  term1 = term1   term2 = term2   docs = docs   scans = scans
  plain = plain   noise = noise
  MaxPerSecond = 2
  Second = 3
  MaxTime = 12
  Pid = {1, 2}
  KeptBackups = 3
  MaxBackups = 4
  MaxRenameErrors = 2
  Opener = {open1, open2}
  Rows = {r1, r2}
  NoCache = NoCache
  MaxOpens = 3
  Dir = {cwd, notes}
  Cwd = cwd
  Db = {db1}
  Word = {word}
  None = None
  MaxEdits = 1
  MaxRuns = 2
  Vaults <- MCVaults
  MaxChunks = 2
  MaxLines = 2
  MaxWrites = 1
  Nothing = Nothing
  VaultCount = 3
  MaxFiles = 3
  MaxLimit = 3
  Asked = {1, 2, 4}
  MaxReplaced = 1
  Terminal = {term1, term2}
  Interactive = {term1}
  NoteFile = {note1, note2}
  Vault = {scans, docs}
  VaultOf <- MCVaultOf
  DirOf <- MCDirOf
  NoiseDir = {noise}
  Scan = {note1}
  Nil = Nil
  Before <- MCBefore
  MaxStarted = 2
  MaxChanges = 1
SPECIFICATION Spec
CHECK_DEADLOCK FALSE
INVARIANTS WindowIsExact IndexNeverLost AnswersInOrder ImagesNeedConsent ContextIsWhole ListIsWhole
PROPERTIES UpgradeIsWhole DroppedIsBackedUp UpgradeKeepsMeaning DoctorRepairs WizardResumes

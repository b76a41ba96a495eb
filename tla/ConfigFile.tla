----------------------------- MODULE ConfigFile -----------------------------
(***************************************************************************)
(* config.toml and thesaurus.toml, and the commands that rewrite them:     *)
(* init, config-migrate, doctor, config set, the consent chart asks for,   *)
(* the onboarding wizard and synonym (cli/src/commands, core/src/config.rs). *)
(* One command runs at a time; it may be killed anywhere, and the user may *)
(* save config.toml in an editor while it waits for an answer.             *)
(*                                                                         *)
(* config.toml is a record of its settings; None is a setting that is not  *)
(* there, and None for the whole is no file.  Sections that every command  *)
(* carries over unchanged are left out.  init, config set and save_to      *)
(* replace the file by a rename; the others truncate it and write it anew. *)
(***************************************************************************)
EXTENDS Naturals, FiniteSets

CONSTANTS
  Dir,          \* directories of notes
  Cwd,          \* the current directory, "."
  Db,           \* paths of databases
  Word,         \* words with synonyms
  None,         \* no file, no setting
  MaxEdits,     \* bound on the saves of the user, for TLC
  MaxRuns       \* bound on the commands run, for TLC

Name == {"default", "work"}
ConfigType ==
  [vault : Dir \cup {None}, vaultDb : Db \cup {None},
   database : Db \cup {None}, vaults : [Name -> Dir \cup {None}],
   synonyms : SUBSET Word, usage : {None, "off", "on"}, consent : BOOLEAN,
   unknown : BOOLEAN]

(* A command: which, where in it, the answers and --notes-dir it will get, *)
(* the configuration it holds in memory.                                   *)
CommandName == {"init", "onboard", "migrate", "doctor", "set", "consent", "add",
                "remove"}
Underway ==
  [name : CommandName,
   stage : {"start", "answer", "limit", "save", "copyUnknown", "reread",
            "truncateFixed", "writeFixed", "reload", "copyOld", "truncateOld",
            "writeOld", "empty", "fill"},
   yes : BOOLEAN, given : Dir \cup {None}, cfg : ConfigType]

ASSUME ConfigAssumption ==
  /\ Cwd \in Dir
  /\ None \notin Dir \cup Db \cup {"off", "on"} \cup ConfigType \cup Underway
  /\ MaxEdits \in Nat /\ MaxRuns \in Nat

NoVaults == [n \in Name |-> None]
Default ==
  [vault |-> None, vaultDb |-> None, database |-> None, vaults |-> NoVaults,
   synonyms |-> {}, usage |-> None, consent |-> FALSE, unknown |-> FALSE]

VARIABLES
  config,       \* config.toml
  thesaurus,    \* thesaurus.toml
  copies,       \* the contents of the copies of config.toml
  cmd,          \* the command that runs, or None
  disturbed,    \* the user saved config.toml after the command began
  edits, runs   \* bounded counters

configVars == <<config, thesaurus, copies, cmd, disturbed, edits, runs>>

-----------------------------------------------------------------------------
(* load_from: [indexing] denies unknown fields; a missing file is an error. *)
Loads(c) == c # None /\ ~ c.unknown
OldFormat(c) == c.vault # None \/ c.vaultDb # None

(* The legacy vault comes first, then the named ones in the order of a     *)
(* HashMap.                                                                *)
ResolvedVaults(c) ==
  LET found == {<<"default", c.vault>>} \cup {<<n, c.vaults[n]>> : n \in Name}
      set == {v \in found : v[2] # None}
  IN  IF set = {} THEN {<<"default", Cwd>>} ELSE set

ResolvedDb(c) == IF c.database # None THEN c.database ELSE c.vaultDb

(* ShiotsuchiConfig::load, at the start of every command. *)
Loaded ==
  LET c == IF Loads(config) THEN config ELSE Default
  IN  [c EXCEPT !.synonyms = @ \cup thesaurus]

(* What serde writes for a section that was not in the file. *)
Serialized(c) == [c EXCEPT !.usage = IF @ = None THEN "off" ELSE @]

(* Mutant: the database of the old section is forgotten. *)
MigratedWithoutDb(c) ==
  Serialized([c EXCEPT
    !.vault = None, !.vaultDb = None,
    !.vaults = [NoVaults EXCEPT !["default"] = c.vault],
    !.synonyms = {}, !.usage = None])

(* run_config_migrate and fix_config_old_vault_format: other named vaults, *)
(* [synonyms], [server], [sensitive_data] and [embedding_usage] are not    *)
(* carried over.                                                           *)
Migrated(c) ==
  Serialized([c EXCEPT
    !.vault = None, !.vaultDb = None, !.database = ResolvedDb(c),
    !.vaults = [NoVaults EXCEPT !["default"] = c.vault],
    !.synonyms = {}, !.usage = None])

ConfigInit ==
  /\ config \in {None} \cup
       [vault : {None, Cwd}, vaultDb : {None} \cup Db, database : {None},
        vaults : [Name -> Dir \cup {None}], synonyms : {{}},
        usage : {None, "on"}, consent : {FALSE}, unknown : BOOLEAN]
  /\ thesaurus \in SUBSET Word
  /\ copies = {} /\ cmd = None /\ disturbed = FALSE
  /\ edits = 0 /\ runs = 0

-----------------------------------------------------------------------------
Edit ==
  /\ edits < MaxEdits /\ config # None
  /\ config' \in {[config EXCEPT !.usage = "on"],
                  [config EXCEPT !.unknown = TRUE],
                  [config EXCEPT !.consent = FALSE]}
                 \cup {[config EXCEPT !.vault = d] : d \in Dir \ {Cwd}}
  /\ config' # config
  /\ edits' = edits + 1
  /\ disturbed' = (cmd # None)
  /\ UNCHANGED <<thesaurus, copies, cmd, runs>>

At(name, stage) == cmd # None /\ cmd.name \in name /\ cmd.stage = stage
Goto(stage) == cmd' = [cmd EXCEPT !.stage = stage]
GotoWith(stage, c) == cmd' = [cmd EXCEPT !.stage = stage, !.cfg = c]
Files == <<config, thesaurus, copies>>
Others == UNCHANGED <<disturbed, edits, runs>>

(* Every command is run by main after load().  Chosen here: --notes-dir of *)
(* init, and whether every prompt of doctor will be answered with yes.     *)
Begin ==
  /\ cmd = None /\ runs < MaxRuns
  /\ \E name \in CommandName, yes \in BOOLEAN, given \in Dir \cup {None} :
       /\ (yes \/ name = "doctor") /\ (given = None \/ name = "init")
       /\ cmd' = [name |-> name, stage |-> "start", yes |-> yes, given |-> given,
                  cfg |-> IF given = None THEN Loaded
                          ELSE [Loaded EXCEPT !.vaults["default"] = given]]
  /\ disturbed' = FALSE
  /\ runs' = runs + 1
  /\ UNCHANGED <<config, thesaurus, copies, edits>>

End == cmd' = None

(* An error, a refused prompt or a kill. *)
Stop ==
  /\ cmd # None
  /\ End
  /\ UNCHANGED Files /\ Others

-----------------------------------------------------------------------------
(* backup_config: a copy under a name that no other copy has. *)
BackupConfig == copies' = copies \cup {config} /\ UNCHANGED <<config, thesaurus>>

(* init: without --force, and in the onboarding wizard, only if there is   *)
(* no file; with it, after a backup.                                       *)
InitStart ==
  \/ /\ At({"init"}, "start") /\ config # None
     /\ BackupConfig
     /\ Goto("answer")
     /\ Others
  \/ /\ At({"init", "onboard"}, "start") /\ config = None
     /\ Goto("answer")
     /\ UNCHANGED Files /\ Others

(* The directory of --notes-dir, or of the first vault of what was loaded. *)
NotesDirs(c) ==
  IF cmd.given # None THEN {cmd.given}
  ELSE IF c.vault # None THEN {c.vault}
  ELSE {v[2] : v \in ResolvedVaults(c)}

InitConfig(c, dir) ==
  Serialized([c EXCEPT !.vault = None, !.vaultDb = None,
                       !.vaults["default"] = dir])

(* After the prompts, the loaded configuration is written: with the words  *)
(* of thesaurus.toml among its synonyms.                                   *)
InitWrite ==
  /\ At({"init", "onboard"}, "answer")
  /\ \E dir \in NotesDirs(cmd.cfg) : config' = InitConfig(cmd.cfg, dir)
  /\ IF cmd.name = "init" THEN End ELSE Goto("limit")
  /\ UNCHANGED <<thesaurus, copies>> /\ Others

(* The wizard goes on with the limit of the embedding API.                 *)
LimitLoad ==
  /\ At({"onboard"}, "limit") /\ Loads(config)
  /\ GotoWith("save", [config EXCEPT !.usage = "on"])
  /\ UNCHANGED Files /\ Others

(* chart, with the VLM enabled and no consent yet. *)
ConsentLoad ==
  /\ At({"consent"}, "start") /\ ~ cmd.cfg.consent /\ Loads(config)
  /\ GotoWith("save", [config EXCEPT !.consent = TRUE])
  /\ UNCHANGED Files /\ Others

(* config set: TOML is enough, but the section must be there.              *)
SetLoad ==
  /\ At({"set"}, "start") /\ config # None /\ config.usage # None
  /\ \E usage \in {"on", "off"} : GotoWith("save", [config EXCEPT !.usage = usage])
  /\ UNCHANGED Files /\ Others

Save ==
  /\ At({"onboard", "consent", "set"}, "save")
  /\ config' = IF cmd.name = "set" THEN cmd.cfg ELSE Serialized(cmd.cfg)
  /\ End
  /\ UNCHANGED <<thesaurus, copies>> /\ Others

-----------------------------------------------------------------------------
(* find_unknown_indexing_fields: whatever is wrong with the file besides.  *)
HasUnknownFields == config # None /\ config.unknown

(* doctor, first half: unknown fields of [indexing]. *)
DoctorStart ==
  /\ At({"doctor"}, "start") /\ config # None
  /\ \/ HasUnknownFields /\ Goto("copyUnknown")
     \/ ~ (HasUnknownFields /\ cmd.yes) /\ Goto("reload")
  /\ UNCHANGED Files /\ Others

CopyUnknown ==
  /\ At({"doctor"}, "copyUnknown")
  /\ copies' = copies \cup {config}
  /\ Goto("reread")
  /\ UNCHANGED <<config, thesaurus>> /\ Others

Reread ==
  /\ At({"doctor"}, "reread")
  /\ GotoWith("truncateFixed", [config EXCEPT !.unknown = FALSE])
  /\ UNCHANGED Files /\ Others

(* Second half of doctor, and config-migrate: the old format.              *)
LoadOld ==
  /\ \/ At({"migrate"}, "start") /\ Loads(config)
     \/ At({"doctor"}, "reload") /\ Loads(config)
  /\ \/ OldFormat(config) /\ GotoWith("copyOld", config)
     \/ ~ (OldFormat(config) /\ cmd.yes) /\ End
  /\ UNCHANGED Files /\ Others

(* Mutant: the new file is opened before the old one is copied. *)
CopyOldLate ==
  /\ At({"migrate", "doctor"}, "copyOld")
  /\ copies' = copies \cup {Default}
  /\ Goto("truncateOld")
  /\ UNCHANGED <<config, thesaurus>> /\ Others

CopyOld ==
  /\ At({"migrate", "doctor"}, "copyOld")
  /\ copies' = copies \cup {config}
  /\ Goto("truncateOld")
  /\ UNCHANGED <<config, thesaurus>> /\ Others

(* fs::write opens the file, which empties it, and then writes.            *)
Truncate ==
  /\ \/ At({"doctor"}, "truncateFixed") /\ Goto("writeFixed")
     \/ At({"migrate", "doctor"}, "truncateOld") /\ Goto("writeOld")
  /\ config' = Default
  /\ UNCHANGED <<thesaurus, copies>> /\ Others

(* Mutant: the command is over once the unknown fields are gone. *)
WriteFixedAndEnd ==
  /\ At({"doctor"}, "writeFixed")
  /\ config' = cmd.cfg
  /\ End
  /\ UNCHANGED <<thesaurus, copies>> /\ Others

WriteFixed ==
  /\ At({"doctor"}, "writeFixed")
  /\ config' = cmd.cfg
  /\ Goto("reload")
  /\ UNCHANGED <<thesaurus, copies>> /\ Others

WriteOld ==
  /\ At({"migrate", "doctor"}, "writeOld")
  /\ config' = Migrated(cmd.cfg)
  /\ End
  /\ UNCHANGED <<thesaurus, copies>> /\ Others

-----------------------------------------------------------------------------
(* synonym add and remove: the file is read, emptied and written.          *)
SynonymLoad ==
  /\ At({"add", "remove"}, "start")
  /\ \E word \in Word :
       /\ cmd.name = "remove" => word \in thesaurus
       /\ GotoWith("empty", [Default EXCEPT !.synonyms =
            IF cmd.name = "add" THEN thesaurus \cup {word} ELSE thesaurus \ {word}])
  /\ UNCHANGED Files /\ Others

SynonymEmpty ==
  /\ At({"add", "remove"}, "empty")
  /\ thesaurus' = {}
  /\ Goto("fill")
  /\ UNCHANGED <<config, copies>> /\ Others

SynonymFill ==
  /\ At({"add", "remove"}, "fill")
  /\ thesaurus' = cmd.cfg.synonyms
  /\ End
  /\ UNCHANGED <<config, copies>> /\ Others

ConfigNext ==
  \/ Edit \/ Begin \/ Stop
  \/ InitStart \/ InitWrite \/ LimitLoad \/ ConsentLoad \/ SetLoad \/ Save
  \/ DoctorStart \/ CopyUnknown \/ Reread \/ LoadOld \/ CopyOld \/ Truncate
  \/ WriteFixed \/ WriteOld
  \/ SynonymLoad \/ SynonymEmpty \/ SynonymFill

ConfigSpec == ConfigInit /\ [][ConfigNext]_configVars

-----------------------------------------------------------------------------
(* Type invariant, a part of DoctorRepairs. *)
ConfigTypeOK ==
  /\ config \in ConfigType \cup {None}
  /\ thesaurus \subseteq Word
  /\ copies \subseteq ConfigType
  /\ cmd # None => cmd.cfg \in ConfigType
  /\ edits \in 0 .. MaxEdits /\ runs \in 0 .. MaxRuns

(* The settings a file holds that the program does not take by itself.     *)
Settings(c) ==
  {<<"vault", d>> : d \in {c.vault} \ {None}}
  \cup {<<"db", d>> : d \in {ResolvedDb(c)} \ {None}}
  \cup {<<n, c.vaults[n]>> : n \in {m \in Name : c.vaults[m] # None}}
  \cup {<<"synonym", w>> : w \in c.synonyms}
  \cup {<<"usage", u>> : u \in {c.usage} \cap {"on"}}
  \cup {<<"consent", b>> : b \in {c.consent} \cap {TRUE}}

(* What a command overwrites is not lost: a setting that disappears from   *)
(* config.toml while no one else saves it is in a backup, at whatever      *)
(* point the command is killed.  Only config set changes a setting without *)
(* one.                                                                    *)
DroppedIsBackedUp ==
  [][(config # None /\ config' # config /\ cmd # None /\ ~ disturbed
      /\ edits' = edits /\ cmd.name # "set") =>
        \A s \in Settings(config) \ Settings(config') :
          \E b \in copies : s \in Settings(b)]_configVars

(* An upgrade keeps its meaning: the file that config-migrate or doctor    *)
(* writes for one that has no vaults but the old one resolves to the same  *)
(* vaults and the same database.                                           *)
UpgradeKeepsMeaning ==
  [][(WriteOld /\ cmd.cfg.vaults = NoVaults) =>
       /\ ResolvedVaults(config') = ResolvedVaults(cmd.cfg)
       /\ ResolvedDb(config') = ResolvedDb(cmd.cfg)]_configVars

(* A doctor whose prompts are all answered with yes, and that no edit and  *)
(* no kill disturbs, leaves a file that loads and has no old section.      *)
DoctorRepairs ==
  /\ [](ConfigTypeOK)
  /\ [][((LoadOld \/ WriteOld \/ WriteFixed) /\ At({"doctor"}, cmd.stage) /\ cmd' = None
         /\ cmd.yes /\ ~ disturbed) =>
          Loads(config') /\ ~ OldFormat(config')]_configVars
=============================================================================

------------------------------- MODULE Places -------------------------------
(***************************************************************************)
(* Where the programs of one user look for things: configuration, vaults,  *)
(* database, model and usage file.  Most of these lookups are written      *)
(* twice (core/src/config.rs, core/src/embedder.rs, core/src/paths.rs,     *)
(* cli/src/commands/setup.rs, mcp/src/main.rs), so that core does not      *)
(* depend on itself in a circle or because the MCP server reads the file   *)
(* in its own way.  A path is a sequence of names, a relative one begins   *)
(* with the current directory.                                             *)
(*                                                                         *)
(* env: home, and the variables; present: the model files that exist;      *)
(* macos: which directories the system has.  file: what config.toml says.  *)
(***************************************************************************)
EXTENDS Integers, SequencesExt, FiniteSetsExt

CONSTANTS
  Unset,        \* of a variable or a field: nothing
  PathName      \* names of files, directories and vaults

OwnName == {".", "default", "shiotsuchi", "config.toml", "db.sqlite3", "model.onnx", "usage.json",
            ".config", ".local", "share", "Library", "Application Support"}

ASSUME PlacesAssumption == OwnName \subseteq PathName /\ Unset \notin Seq(PathName)

Cwd  == <<".">>
Own(dir, name) == dir \o <<"shiotsuchi", name>>
Else(value, default) == IF value # Unset THEN value ELSE default
Absolute(path) == path # Unset /\ Head(path) # "."

NoFile == [database |-> Unset, legacyNotes |-> Unset, legacyDb |-> Unset,
           vaults |-> {}, flatNotes |-> Unset, flatDb |-> Unset,
           unknown |-> FALSE, onnx |-> Unset]

(* dirs::data_dir and dirs::config_dir, or the current directory.          *)
OsDir(env, xdg, below) ==
  IF ~ env.macos /\ Absolute(xdg) THEN xdg
  ELSE IF env.home = Unset THEN Cwd
  ELSE env.home \o (IF env.macos THEN <<"Library", "Application Support">> ELSE below)

-----------------------------------------------------------------------------
(* Configuration, vaults and database, as the CLI sees them.               *)
DefaultConfigPath(env) ==
  Own(Else(env.xdgConfig, Else(env.home, Cwd) \o <<".config">>), "config.toml")

DefaultDbPath(env) == Own(OsDir(env, env.xdgData, <<".local", "share">>), "db.sqlite3")

(* A field [indexing] does not know of, and all of the file is dropped.    *)
Loaded(file) == IF file.unknown THEN NoFile ELSE file

ResolvedVaults(cfg) ==
  LET legacy == {<<"default", cfg.legacyNotes>>} \ {<<"default", Unset>>}
      all    == legacy \cup cfg.vaults
  IN  IF all = {} THEN {<<"default", Cwd>>} ELSE all

ResolvedDbPath(env, cfg) ==
  Else(cfg.database, Else(cfg.legacyDb, DefaultDbPath(env)))

(* main: --notes-dir and --db-path, or their variables, over the file.     *)
CliConfig(env, file) ==
  LET cfg == Loaded(file)
      others == {v \in cfg.vaults : v[1] # "default"}
  IN  [cfg EXCEPT
         !.vaults   = IF env.notesDir = Unset THEN @
                      ELSE others \cup {<<"default", env.notesDir>>},
         !.database = Else(env.dbPath, @)]

-----------------------------------------------------------------------------
(* The same, as the MCP server sees them.                                  *)
McpConfigPath(env) ==
  Own(IF env.xdgConfig # Unset THEN env.xdgConfig
      ELSE IF env.home # Unset THEN env.home \o <<".config">>
      ELSE Cwd \o <<".config">>, "config.toml")

(* to_core_config: the flat fields of old. *)
ToCoreConfig(env, file) ==
  LET named == \E v \in file.vaults : v[1] = "default"
  IN  [file EXCEPT
         !.vaults   = IF file.flatNotes \in {Unset, Cwd} \/ named THEN @
                      ELSE @ \cup {<<"default", file.flatNotes>>},
         !.database = IF @ = Unset /\ file.flatDb # DefaultDbPath(env)
                      THEN file.flatDb ELSE @]

(* resolve_path_env *)
PathFromEnv(value, default) ==
  IF value = Unset \/ ".." \in ToSet(value) THEN default ELSE value

(* main: the variable replaces the directory of the first vault; the       *)
(* vaults of a HashMap have no order.                                      *)
McpVaults(env, file) ==
  LET cfg   == ToCoreConfig(env, file)
      all   == ResolvedVaults(cfg)
      first == IF cfg.legacyNotes # Unset THEN {<<"default", cfg.legacyNotes>>} ELSE all
      notes == PathFromEnv(env.notesDir, Unset)
  IN  IF notes = Unset THEN {all}
      ELSE {(all \ {v}) \cup {<<v[1], notes>>} : v \in first}

McpDbPath(env, file) ==
  PathFromEnv(env.dbPath, ResolvedDbPath(env, ToCoreConfig(env, file)))

-----------------------------------------------------------------------------
(* The model.  default_data_dir and resolve_model_path of the embedder:    *)
DefaultDataDir(env) ==
  Else(env.xdgData, IF env.home = Unset THEN Cwd ELSE env.home \o <<".local", "share">>)

FirstPresent(env, candidates) ==
  LET found == {k \in DOMAIN candidates : candidates[k] \in env.present}
  IN  IF found = {} THEN Unset ELSE candidates[Min(found)]

ResolveModelPath(env, explicit) ==
  FirstPresent(env, <<explicit, env.embedModel, Own(DefaultDataDir(env), "model.onnx")>>)

(* the copy of it in the configuration, for the embedder of chart and scan *)
BuiltInModelPath(env) ==
  LET data == IF env.xdgData # Unset THEN env.xdgData
              ELSE IF env.home # Unset THEN env.home \o <<".local", "share">> ELSE Cwd
  IN  FirstPresent(env, <<env.embedModel, Own(data, "model.onnx")>>)

ConfiguredModel(env, file) ==
  IF file.onnx = Unset THEN BuiltInModelPath(env)
  ELSE FirstPresent(env, <<file.onnx>>)

(* default_model_dir of setup *)
SetupModelPath(env) ==
  Own(Else(env.xdgData, Else(env.home, Cwd) \o <<".local", "share">>), "model.onnx")

(* setup tells the user to put the model there, unless it finds one.       *)
AfterSetup(env) ==
  IF ResolveModelPath(env, Unset) # Unset THEN env
  ELSE [env EXCEPT !.present = @ \cup {SetupModelPath(env)}]

(* usage.json: where create_embedder counts, and where `tide` looks.       *)
UsagePath(env) == Own(OsDir(env, env.xdgConfig, <<".config">>), "usage.json")
UsageShown(env) == Front(DefaultConfigPath(env)) \o <<"usage.json">>

-----------------------------------------------------------------------------
(* The CLI and the MCP server of one user work on one index of the same    *)
(* vaults: with a valid file without the flat fields only the server has,  *)
(* and SHIOTSUCHI_NOTES_DIR, if set, instead of vaults in the file.  Apart *)
(* from the old [vault], which is a second "default", a name is one vault.  *)
OneIndex(env, file) ==
  LET cli == CliConfig(env, file)
      plain(path) == path = Unset \/ ".." \notin ToSet(path)
      distinct(vaults) == \A v, w \in vaults : v[1] = w[1] => v = w
  IN  /\ DefaultConfigPath(env) = McpConfigPath(env)
      /\ file.legacyNotes = Unset =>
           \A vaults \in McpVaults(env, file) \cup {ResolvedVaults(cli)} :
             distinct(vaults)
      /\ (/\ ~ file.unknown /\ plain(env.dbPath) /\ plain(env.notesDir)
          /\ file.flatNotes = Unset /\ file.flatDb = Unset)
         => /\ McpDbPath(env, file) = ResolvedDbPath(env, cli)
            /\ (env.notesDir = Unset \/ (file.vaults = {} /\ file.legacyNotes = Unset))
               => McpVaults(env, file) = {ResolvedVaults(cli)}

(* "Backward-compat": the flat fields of an old file count where nothing   *)
(* newer is said.                                                          *)
FlatFieldsCount(env, file) ==
  LET only == [NoFile EXCEPT !.flatNotes = file.flatNotes, !.flatDb = file.flatDb]
  IN  (env.notesDir = Unset /\ env.dbPath = Unset) =>
        /\ McpVaults(env, only) = {{<<"default", Else(file.flatNotes, Cwd)>>}}
        /\ McpDbPath(env, only) = Else(file.flatDb, DefaultDbPath(env))

(* Without a model file in the configuration, notes are embedded with the  *)
(* model that queries are embedded with; the model that was put where      *)
(* `setup` says is that model; and `tide` shows the file the calls are     *)
(* counted in (on macOS, and below a relative XDG_CONFIG_HOME, it does     *)
(* not).                                                                   *)
OneModel(env, file) ==
  /\ file.onnx = Unset =>
       ConfiguredModel(env, file) = ResolveModelPath(env, Unset)
  /\ env.home # Unset => ResolveModelPath(AfterSetup(env), Unset) # Unset
  /\ (/\ ~ env.macos
      /\ IF env.xdgConfig = Unset THEN env.home # Unset ELSE Absolute(env.xdgConfig))
     => UsagePath(env) = UsageShown(env)
=============================================================================

---------------------------- MODULE CommandLine ----------------------------
(***************************************************************************)
(* The commands of the CLI as processes over one home directory: what each *)
(* does to config.toml and to the index, under the configuration it holds  *)
(* in memory (cli/src/main.rs, cli/src/commands).  A process is a command  *)
(* given in a shell, the menu and the onboarding wizard that `shiotsuchi`  *)
(* without a command opens (welcome.rs), or the watch daemon.              *)
(*                                                                         *)
(* An answer of the user is a step, and so is the indexing of a vault: the *)
(* steps of those are in BatchIndexer, CleanSwap and ConfigFile.  A note   *)
(* of the index has its current text unless it is in stale.                *)
(***************************************************************************)
EXTENDS Naturals, FiniteSets

CONSTANTS
  Terminal,     \* where a process can run
  Interactive,  \* those with a user at them, not a service or a pipe
  NoteFile, Vault,  \* files with an indexed extension, their vaults
  VaultOf,      \* note -> vault
  DirOf,        \* note -> directory
  NoiseDir,     \* directories init takes for noise
  Scan,         \* the notes that are PDFs without a text
  Nil,          \* no process, no config.toml, no vault_default
  Before,       \* what config.toml may be at first: settings, or Nil
  MaxStarted,   \* bound on the processes started, for TLC
  MaxChanges    \* bound on what the user edits, for TLC

(* only is vault_default. *)
SettingsType ==
  [vlm : BOOLEAN, consent : BOOLEAN, exclude : SUBSET NoiseDir,
   only : Vault \cup {Nil}]
DefaultSettings ==
  [vlm |-> FALSE, consent |-> FALSE, exclude |-> {}, only |-> Nil]

(* What the user last said of the VLM; "back" after a no, when an init     *)
(* that had read the yes before it wrote that to config.toml again.        *)
Answer == {"none", "yes", "no", "back"}

Command == {"welcome", "chart", "watch", "doctor", "clean", "purge", "init"}

(* A process: its command and where in it, the configuration in memory,    *)
(* whether it is the menu, or the wizard there, and where an index pass    *)
(* leads to, what was shown; whether its database was replaced; history:   *)
(* the user's word on its configuration, whether the wizard was refused.   *)
SessionType ==
  [command : Command, cfg : SettingsType,
   stage : {"menu", "run", "over", "chart", "consent", "index", "index agreed",
            "index without", "watching", "select", "ask", "step 1",
            "select in step 1", "limit", "step 2", "step 3"},
   menu : BOOLEAN, wizard : BOOLEAN, then : {"ask", "step 3"},
   shown : [config : BOOLEAN, base : BOOLEAN], indexed : BOOLEAN,
   orphan : BOOLEAN, wish : Answer, refused : BOOLEAN]

ASSUME CommandAssumption ==
  /\ VaultOf \in [NoteFile -> Vault] /\ DOMAIN DirOf = NoteFile
  /\ Interactive \subseteq Terminal
  /\ Scan \subseteq NoteFile
  /\ Nil \notin Vault \cup Terminal \cup SettingsType \cup SessionType
  /\ Before \subseteq SettingsType \cup {Nil}
  /\ MaxStarted \in Nat /\ MaxChanges \in Nat

VARIABLES
  settings,     \* config.toml, or Nil
  base,         \* the database: [is, notes]
  disk,         \* the notes in the vaults
  stale,        \* those written since they were indexed
  tokenizer,    \* whether the tokenizer can be loaded
  session,      \* terminal -> its process, or Nil
  wish,         \* history: the user's last word on the VLM
  author,       \* history: the terminal at which the menu's Onboarding wrote
                \* config.toml, or Nil
  effect,       \* history: what the last step sent out
  started, changes

homeVars == <<settings, base, disk, stale, tokenizer>>
commandVars == <<homeVars, session, wish, author, effect, started, changes>>

Silence == [images |-> FALSE, wish |-> "none"]

CommandInit ==
  /\ settings \in Before
  /\ base \in {[is |-> "absent", notes |-> {}], [is |-> "damaged", notes |-> {}]}
  /\ disk = NoteFile /\ stale = {} /\ tokenizer \in BOOLEAN
  /\ session = [t \in Terminal |-> Nil]
  /\ wish = IF settings # Nil /\ settings.consent THEN "yes" ELSE "none"
  /\ author = Nil /\ effect = Silence /\ started = 0 /\ changes = 0

-----------------------------------------------------------------------------
(* ShiotsuchiConfig::load. *)
LoadedSettings == IF settings = Nil THEN DefaultSettings ELSE settings

(* Mutant: what was enabled is taken for agreed to. *)
EnabledIsEnough(c) == c.vlm

(* index_file_with_embedder sends pages only with the user's consent. *)
MaySend(c) == c.vlm /\ c.consent

VaultsFor(c) == IF c.only = Nil THEN Vault ELSE {c.only}

(* The notes index_directory walks to. *)
Walked(c, vaults) ==
  {n \in disk : VaultOf[n] \in vaults /\ DirOf[n] \notin c.exclude}

InStage(t, stage) == session[t] # Nil /\ session[t].stage = stage
Running(t, command) == InStage(t, "run") /\ session[t].command = command
Become(t, s) == session' = [session EXCEPT ![t] = s]
GoTo(t, stage) == Become(t, [session[t] EXCEPT !.stage = stage])
Ended(s) == IF s.menu THEN [s EXCEPT !.stage = "over"] ELSE Nil
Finish(t) == Become(t, Ended(session[t]))
Bounds == UNCHANGED <<started, changes>>
NothingSent == effect' = Silence

(* What is sent out when t reads the notes of `text`: page images.         *)
Sends(t, c, text) ==
  effect' = [images |-> MaySend(c) /\ text \cap Scan # {},
             wish   |-> session[t].wish]

(* An indexing pass: what is not in the index, or stale, is read; other    *)
(* entries stay, those of excluded or missing notes too.  A process whose  *)
(* database was replaced writes to the old one, whatever is in that.       *)
IndexPass(t, c, walked) ==
  IF session[t].orphan
  THEN /\ \E text \in SUBSET walked : Sends(t, c, text)
       /\ UNCHANGED <<base, stale>>
  ELSE LET text == {n \in walked : n \notin base.notes \/ n \in stale}
       IN  /\ base' = [is |-> "open", notes |-> base.notes \cup walked]
           /\ stale' = stale \ text
           /\ Sends(t, c, text)

(* NoteDatabase::open creates the database, and fails on a damaged one.    *)
Opened == IF base.is = "absent" THEN [is |-> "open", notes |-> {}] ELSE base
Openable == base.is # "damaged"

-----------------------------------------------------------------------------
(* What run_welcome looks at before it shows the menu. *)
Shown == [config |-> settings # Nil, base |-> base.is # "absent"]

(* main: the configuration is loaded once. *)
StartCommand(t) ==
  /\ session[t] = Nil /\ started < MaxStarted
  /\ started' = started + 1
  /\ \E command \in Command :
       /\ command = "welcome" => t \in Interactive
       /\ Become(t,
            [command |-> command, cfg |-> LoadedSettings,
             stage |-> CASE command = "chart" -> "chart"
                         [] command = "welcome" -> "menu"
                         [] OTHER -> "run",
             menu |-> command = "welcome", wizard |-> FALSE, then |-> "ask",
             shown |-> Shown,
             indexed |-> FALSE, orphan |-> FALSE, wish |-> wish,
             refused |-> FALSE])
  /\ NothingSent
  /\ UNCHANGED <<homeVars, wish, author, changes>>

(* Mutant: the wizard reloads only when all went well. *)
OverWithoutReload(t) ==
  /\ InStage(t, "over")
  /\ GoTo(t, "menu")
  /\ NothingSent
  /\ UNCHANGED <<homeVars, wish, author>> /\ Bounds

(* Back in the menu after a command, also after an error; after the        *)
(* onboarding, with the configuration and what is shown read again.        *)
Over(t) ==
  /\ InStage(t, "over")
  /\ LET s == [session[t] EXCEPT !.command = "welcome", !.then = "ask",
                                 !.indexed = FALSE]
     IN  Become(t,
           IF ~ s.wizard THEN [s EXCEPT !.stage = "menu"]
           ELSE [s EXCEPT !.stage = "menu", !.wizard = FALSE,
                   !.cfg = LoadedSettings, !.wish = wish, !.shown = Shown])
  /\ NothingSent
  /\ UNCHANGED <<homeVars, wish, author>> /\ Bounds

(* Exit, Ctrl-C at a prompt, a signal. *)
Quit(t) ==
  /\ session[t] # Nil /\ session[t].stage # "over"
  /\ Become(t, Nil)
  /\ NothingSent
  /\ UNCHANGED <<homeVars, wish, author>> /\ Bounds

-----------------------------------------------------------------------------
(* run_chart: the database is opened before the tokenizer is loaded; the   *)
(* VLM needs a consent, which only a terminal can ask for.                 *)
ChartStart(t) ==
  /\ InStage(t, "chart")
  /\ LET s == session[t]
         asks == s.cfg.vlm /\ ~ s.cfg.consent
     IN  IF ~ (Openable /\ tokenizer) THEN Finish(t)
         ELSE IF asks /\ t \in Interactive THEN GoTo(t, "consent")
         ELSE Become(t, [s EXCEPT !.stage = IF asks THEN "index without" ELSE "index"])
  /\ base' = Opened
  /\ NothingSent
  /\ UNCHANGED <<settings, disk, stale, tokenizer, wish, author>> /\ Bounds

(* Yes is saved in config.toml as that is by now; it does not reach the    *)
(* configuration of the process.                                           *)
ConsentYes(t) ==
  /\ InStage(t, "consent")
  /\ settings' = IF settings = Nil THEN Nil ELSE [settings EXCEPT !.consent = TRUE]
  /\ wish' = "yes"
  /\ Become(t, [session[t] EXCEPT !.stage = "index agreed", !.wish = "yes"])
  /\ NothingSent
  /\ UNCHANGED <<base, disk, stale, tokenizer, author>> /\ Bounds

ConsentNo(t) ==
  /\ InStage(t, "consent")
  /\ Become(t, [session[t] EXCEPT !.stage = "index without", !.wish = "no"])
  /\ NothingSent
  /\ UNCHANGED <<homeVars, wish, author>> /\ Bounds

EffectiveSettings(s) ==
  CASE s.stage = "index agreed"  -> [s.cfg EXCEPT !.consent = TRUE]
    [] s.stage = "index without" -> [s.cfg EXCEPT !.vlm = FALSE, !.consent = FALSE]
    [] OTHER -> s.cfg

(* A chart from the menu takes every vault, one from the shell the default *)
(* one.                                                                    *)
ChartIndex(t) ==
  /\ session[t] # Nil
  /\ session[t].stage \in {"index", "index agreed", "index without"}
  /\ LET s == session[t]
         c == EffectiveSettings(s)
     IN  /\ IndexPass(t, c, Walked(c, IF s.menu THEN Vault ELSE VaultsFor(c)))
         /\ Become(t, IF ~ s.menu THEN Nil
                      ELSE [s EXCEPT !.stage = s.then, !.orphan = FALSE])
  /\ UNCHANGED <<settings, disk, tokenizer, wish, author>> /\ Bounds

(* run_scan asks nobody, and the daemon keeps what it was started with.    *)
Watch(t) ==
  /\ Running(t, "watch")
  /\ IF Openable /\ tokenizer THEN GoTo(t, "watching") ELSE Finish(t)
  /\ base' = Opened
  /\ NothingSent
  /\ UNCHANGED <<settings, disk, stale, tokenizer, wish, author>> /\ Bounds

(* The daemon is told of a file and indexes it, excluded or not.           *)
Watched(t) ==
  /\ InStage(t, "watching")
  /\ LET c == session[t].cfg
     IN  \E n \in stale \cap disk :
           /\ VaultOf[n] \in VaultsFor(c)
           /\ IndexPass(t, c, {n})
  /\ UNCHANGED <<settings, disk, tokenizer, session, wish, author>> /\ Bounds

-----------------------------------------------------------------------------
Holds(t) ==
  session[t] # Nil /\ session[t].stage \in
    {"consent", "index", "index agreed", "index without", "watching"}

(* The index is built anew under its name, with the notes walked to.       *)
BuildAnew(t, walked) ==
  /\ base' = [is |-> "open", notes |-> walked]
  /\ stale' = stale \ walked
  /\ Sends(t, session[t].cfg, walked)
  /\ session' = [u \in Terminal |->
       IF u = t THEN Ended(session[t])
       ELSE IF Holds(u) THEN [session[u] EXCEPT !.orphan = TRUE]
       ELSE session[u]]

BuildNothing(t) == Finish(t) /\ NothingSent /\ UNCHANGED <<base, stale>>

(* doctor: a missing or damaged database is built if the user says so;     *)
(* without a tokenizer an empty one is what is left.                       *)
Doctor(t) ==
  /\ Running(t, "doctor")
  /\ \/ /\ base.is # "open" /\ t \in Interactive
        /\ BuildAnew(t, IF tokenizer THEN Walked(session[t].cfg, Vault) ELSE {})
     \/ BuildNothing(t)
  /\ UNCHANGED <<settings, disk, tokenizer, wish, author>> /\ Bounds

(* clean: aside first, so that a failure leaves the old database.          *)
Clean(t) ==
  /\ Running(t, "clean")
  /\ IF base.is # "absent" /\ tokenizer
     THEN BuildAnew(t, Walked(session[t].cfg, Vault))
     ELSE BuildNothing(t)
  /\ UNCHANGED <<settings, disk, tokenizer, wish, author>> /\ Bounds

(* clean --purge-all: a terminal and a yes; the tables are emptied first.  *)
Purge(t) ==
  /\ Running(t, "purge")
  /\ IF ~ (t \in Interactive /\ base.is = "open") THEN BuildNothing(t)
     ELSE IF tokenizer THEN BuildAnew(t, Walked(session[t].cfg, Vault))
     ELSE /\ base' = [is |-> "open", notes |-> {}]
          /\ Finish(t) /\ NothingSent /\ UNCHANGED stale
  /\ UNCHANGED <<settings, disk, tokenizer, wish, author>> /\ Bounds

(* The commands that need of the configuration only where things are, each *)
(* one step of a process of its own.                                       *)
OneShot ==
  /\ started < MaxStarted /\ started' = started + 1
  /\ NothingSent
  /\ UNCHANGED <<settings, disk, stale, tokenizer, session, wish, author, changes>>

(* dredge, whose dry run deletes as well: notes that are gone; with        *)
(* --expired, old ones; with --force-vlm-reprocess, none.                  *)
Dredge ==
  /\ base.is = "open"
  /\ \E kept \in {base.notes \cap disk} \cup SUBSET base.notes :
       base' = [base EXCEPT !.notes = kept]
  /\ OneShot

(* delete: a note that is not on disk is taken for one of the first vault. *)
DeleteNote ==
  /\ Openable
  /\ \E n \in NoteFile, first \in BOOLEAN :
       /\ n \in disk => first
       /\ base' = [Opened EXCEPT !.notes = IF first THEN @ \ {n} ELSE @]
  /\ OneShot

(* stats and list create a missing database.  search, tasks and serve end  *)
(* with an error then, and setup, support, check-ignore and completion do  *)
(* not look at it.                                                         *)
Read ==
  /\ base' \in {Opened, base}
  /\ OneShot

-----------------------------------------------------------------------------
(* init: the noise directories with notes in them are candidates; a        *)
(* terminal selects some, --yes takes all, without either it is an error.  *)
Selections(t) ==
  LET candidates == {DirOf[n] : n \in disk} \cap NoiseDir
  IN  IF t \in Interactive THEN SUBSET candidates ELSE {candidates}

(* The configuration in memory is written, whatever config.toml is by now; *)
(* the process itself goes on with the one it had.                         *)
InitWrites(t) ==
  /\ \E chosen \in Selections(t) :
       settings' = [session[t].cfg EXCEPT !.exclude = @ \cup chosen]
  /\ author' = IF session[t].wizard THEN t ELSE Nil
  /\ wish' = IF session[t].cfg.consent /\ wish = "no" THEN "back" ELSE wish
  /\ NothingSent
  /\ UNCHANGED <<base, disk, stale, tokenizer>> /\ Bounds

(* config.toml is looked for first; from the shell, --force allows for it. *)
Initialise(t) ==
  /\ Running(t, "init")
  /\ \/ (settings = Nil \/ ~ session[t].menu) /\ GoTo(t, "select")
     \/ Finish(t)
  /\ NothingSent
  /\ UNCHANGED <<homeVars, wish, author>> /\ Bounds

(* Then the user selects, or leaves the prompt. *)
Select(t) ==
  /\ InStage(t, "select")
  /\ \/ /\ InitWrites(t)
        /\ IF session[t].menu THEN GoTo(t, "ask") ELSE Finish(t)
     \/ /\ Finish(t) /\ NothingSent
        /\ UNCHANGED <<homeVars, wish, author>> /\ Bounds

-----------------------------------------------------------------------------
(* The menu.  The onboarding skips the steps that what is shown is past.   *)
ChooseOnboarding(t) ==
  /\ InStage(t, "menu")
  /\ LET s == session[t]
     IN  Become(t, [s EXCEPT !.wizard = TRUE, !.then = "step 3",
                      !.indexed = s.shown.base,
                      !.stage = IF s.shown.config THEN "step 2" ELSE "step 1"])
  /\ NothingSent
  /\ UNCHANGED <<homeVars, wish, author>> /\ Bounds

(* Another choice.  Search without a database offers the wizard; with one, *)
(* and setup and stats, come back to the menu.                             *)
Choose(t) ==
  /\ InStage(t, "menu")
  /\ LET s == session[t]
     IN  \/ \E command \in {"init", "doctor"} :
              Become(t, [s EXCEPT !.stage = "run", !.command = command,
                                  !.indexed = FALSE])
         \/ Become(t, [s EXCEPT !.stage = "chart", !.then = "ask",
                                !.indexed = TRUE])
         \/ /\ base.is = "absent"
            /\ Become(t, [s EXCEPT !.indexed = FALSE, !.then = "step 3",
                            !.stage = IF settings # Nil THEN "step 2" ELSE "step 1"])
  /\ NothingSent
  /\ UNCHANGED <<homeVars, wish, author>> /\ Bounds

(* After init or index: on to the wizard, past its first step.             *)
AskOnboarding(t) ==
  /\ InStage(t, "ask")
  /\ \/ Become(t, [session[t] EXCEPT !.stage = "step 2", !.then = "step 3"])
     \/ Finish(t)
  /\ NothingSent
  /\ UNCHANGED <<homeVars, wish, author>> /\ Bounds

(* Step 1: init if the user says so, refused when there is a file.         *)
StepOne(t) ==
  /\ InStage(t, "step 1")
  /\ \/ settings = Nil /\ GoTo(t, "select in step 1")
     \/ Finish(t)
  /\ NothingSent
  /\ UNCHANGED <<homeVars, wish, author>> /\ Bounds

StepOneRefused(t) ==
  /\ InStage(t, "step 1") /\ settings # Nil
  /\ Become(t, Ended([session[t] EXCEPT !.refused = @ \/ session[t].wizard]))
  /\ NothingSent
  /\ UNCHANGED <<homeVars, wish, author>> /\ Bounds

StepOneSelect(t) ==
  /\ InStage(t, "select in step 1")
  /\ \/ InitWrites(t) /\ GoTo(t, "limit")
     \/ /\ Finish(t) /\ NothingSent
        /\ UNCHANGED <<homeVars, wish, author>> /\ Bounds

(* A monthly limit, which goes into config.toml, or none; then the user    *)
(* goes on or stops.                                                       *)
StepLimit(t) ==
  /\ InStage(t, "limit")
  /\ GoTo(t, "step 2") \/ Finish(t)
  /\ NothingSent
  /\ UNCHANGED <<homeVars, wish, author>> /\ Bounds

(* Step 2: index; one that is there need not be indexed again.             *)
StepTwo(t) ==
  /\ InStage(t, "step 2")
  /\ \/ GoTo(t, "chart")
     \/ GoTo(t, IF session[t].indexed THEN "step 3" ELSE "over")
  /\ NothingSent
  /\ UNCHANGED <<homeVars, wish, author>> /\ Bounds

(* Step 3: a search, which creates a database that is not there.           *)
StepThree(t) ==
  /\ InStage(t, "step 3")
  /\ base' \in {Opened, base}
  /\ Finish(t) /\ NothingSent
  /\ UNCHANGED <<settings, disk, stale, tokenizer, wish, author>> /\ Bounds

-----------------------------------------------------------------------------
(* The user: another word on the VLM in config.toml, a note written or     *)
(* removed, a tokenizer installed.                                         *)
EditSettings ==
  /\ \E agreed \in BOOLEAN :
       LET s == [LoadedSettings EXCEPT !.vlm = TRUE, !.consent = agreed]
       IN  /\ s # settings
           /\ settings' = s
           /\ wish' = IF agreed THEN "yes"
                      ELSE IF wish = "none" THEN "none" ELSE "no"
  /\ UNCHANGED <<base, disk, stale, tokenizer, author>>

EditNotes ==
  /\ \/ \E n \in disk : stale' = stale \cup {n} /\ UNCHANGED disk
     \/ \E n \in disk : disk' = disk \ {n} /\ stale' = stale \ {n}
  /\ UNCHANGED <<settings, base, tokenizer, wish, author>>

InstallTokenizer ==
  /\ ~ tokenizer /\ tokenizer' = TRUE
  /\ UNCHANGED <<settings, base, disk, stale, wish, author>>

User ==
  /\ changes < MaxChanges /\ changes' = changes + 1
  /\ EditSettings \/ EditNotes \/ InstallTokenizer
  /\ NothingSent
  /\ UNCHANGED <<session, started>>

CommandNext ==
  \/ User \/ Dredge \/ DeleteNote \/ Read
  \/ \E t \in Terminal :
       \/ StartCommand(t) \/ Over(t) \/ Quit(t)
       \/ ChartStart(t) \/ ConsentYes(t) \/ ConsentNo(t) \/ ChartIndex(t)
       \/ Watch(t) \/ Watched(t)
       \/ Doctor(t) \/ Clean(t) \/ Purge(t)
       \/ Initialise(t) \/ Select(t)
       \/ ChooseOnboarding(t) \/ Choose(t) \/ AskOnboarding(t)
       \/ StepOne(t) \/ StepOneRefused(t) \/ StepOneSelect(t)
       \/ StepLimit(t) \/ StepTwo(t) \/ StepThree(t)

CommandSpec == CommandInit /\ [][CommandNext]_commandVars

-----------------------------------------------------------------------------
(* Type invariant. *)
CommandTypeOK ==
  /\ settings \in SettingsType \cup {Nil}
  /\ base.notes \subseteq NoteFile /\ (base.is # "open" => base.notes = {})
  /\ stale \subseteq disk
  /\ \A t \in Terminal : session[t] # Nil => session[t].cfg \in SettingsType
  /\ wish \in Answer
  /\ started \in 0 .. MaxStarted /\ changes \in 0 .. MaxChanges

(* Page images are sent to the VLM only by a process whose user agreed: in *)
(* its own prompt, or in config.toml at the time it read that.  A no in    *)
(* the prompt holds for that chart, whatever was agreed to elsewhere.  A   *)
(* revoked consent holds for every process started later, until an init    *)
(* that read config.toml before writes the yes of that time back.          *)
ImagesNeedConsent ==
  CommandTypeOK /\ (effect.images => effect.wish \in {"yes", "back"})

(* An onboarding that stopped half-way can be taken up again: the menu's   *)
(* Onboarding never refuses the config.toml that it wrote itself, and      *)
(* refuses one of another origin no more than once, since what is shown is *)
(* read again then.                                                        *)
WizardResumes ==
  [][\A t \in Terminal :
       StepOneRefused(t) => author # t /\ ~ session[t].refused]_commandVars
=============================================================================

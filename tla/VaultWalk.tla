----------------------------- MODULE VaultWalk ------------------------------
(***************************************************************************)
(* Which files of a vault are indexed (index_directory and its exclusion   *)
(* patterns, core/src/indexer.rs), which directories `init` offers to      *)
(* exclude (cli/src/commands/noise.rs, init.rs), and where a wikilink      *)
(* leads.                                                                  *)
(*                                                                         *)
(* A path is a sequence of names, the last of which is the file's; so is a *)
(* pattern, after trim_matches('/'), with "**", the names that end in a    *)
(* star (Starting) and those that begin with one (Ending).  The star of    *)
(* globset also stands for what has a slash in it.                         *)
(***************************************************************************)
EXTENDS Integers, SequencesExt, FiniteSetsExt

CONSTANTS
  Starting,     \* a star or `draft_*` -> the names it fits
  Ending,       \* `*.tmp` -> the names it fits
  Unclosed,     \* a name glob::new refuses
  DotName,      \* names that begin with a dot
  NoiseName,    \* KNOWN_NOISE_PATTERNS
  Stem,         \* file name -> its stem, if its extension is md
  Included,     \* file names with an included extension
  Threshold     \* dynamic_threshold

ASSUME WalkAssumption ==
  /\ Threshold \in Nat
  /\ DOMAIN Starting \cap DOMAIN Ending = {}
  /\ "**" \notin DOMAIN Starting \cup DOMAIN Ending

(* A file is its path, via: what is a symbolic link, the "file", a         *)
(* "directory" above, or "nothing", and outside: is it outside the vault?  *)

-----------------------------------------------------------------------------
(* Mutant: a pattern with a slash is left where it is. *)
WrappedAtRoot(pattern) ==
  IF Len(pattern) > 1 \/ pattern[Len(pattern)] = "**" THEN pattern
  ELSE <<"**">> \o pattern \o <<"**">>

(* build_exclude_globset, check_ignore: a path pattern fits anywhere, a    *)
(* bare name what is below a directory of that name.                       *)
Wrapped(pattern) ==
  IF Len(pattern) > 1 \/ pattern[Len(pattern)] = "**" THEN <<"**">> \o pattern
  ELSE <<"**">> \o pattern \o <<"**">>

(* The positions of the path that can follow those in `from` by this part. *)
After(path, from, part) ==
  CASE part = "**" -> {j \in 0 .. Len(path) : \E i \in from : i <= j}
    [] part \in DOMAIN Starting ->
         {j \in 1 .. Len(path) : \E i \in from : i < j /\ path[i + 1] \in Starting[part]}
    [] part \in DOMAIN Ending ->
         {j \in 1 .. Len(path) : path[j] \in Ending[part] /\ \E i \in from : i < j}
    [] OTHER -> {j \in 1 .. Len(path) : path[j] = part /\ j - 1 \in from}

(* The positions of the path up to which the first k parts can stand for   *)
(* it.                                                                     *)
Reach(parts, path) ==
  LET reach[k \in 0 .. Len(parts)] ==
        IF k = 0 THEN {0} ELSE After(path, reach[k - 1], parts[k])
  IN  reach

(* Glob::is_match; a `/**` at the end stands for something.                *)
GlobMatches(pattern, path) ==
  IF pattern[Len(pattern)] = "**"
  THEN \E i \in Reach(pattern, path)[Len(pattern) - 1] : i < Len(path)
  ELSE Len(path) \in Reach(pattern, path)[Len(pattern)]

(* The patterns that count: neither empty nor refused.                     *)
Compiled(patterns) ==
  {p \in patterns : p # <<>> /\ Unclosed \notin ToSet(p)}

(* check_ignore, and the GlobSet.                                          *)
Excluding(patterns, path) ==
  {p \in Compiled(patterns) : GlobMatches(Wrapped(p), path)}

(* run_check_ignore: of the vault named, or of the first; the first        *)
(* pattern that fits is the reason, and if it is in both places, the       *)
(* .shiotsuchiignore of the vault is.                                      *)
CheckIgnore(vaults, named, config, path) ==
  LET asked    == {i \in DOMAIN vaults : named \in {vaults[i].name, "first"}}
      ignore   == vaults[Min(asked)].ignore
      patterns == config \o ignore
      fits     == {k \in DOMAIN patterns : Excluding({patterns[k]}, path) # {}}
  IN  IF asked = {} THEN "no vault"
      ELSE IF fits = {} THEN "indexed"
      ELSE IF patterns[Min(fits)] \in ToSet(ignore) THEN "ignore file"
      ELSE "config"

Directories(path) == Front(path)
Concealed(path) == ToSet(Directories(path)) \cap DotName # {}

(* index_directory: WalkDir, filter_entry and filter, for one vault.       *)
Walked(files, patterns, hide, follow) ==
  {f \in files : /\ hide => ~ Concealed(f.path)
                 /\ IF follow THEN ~ f.outside ELSE f.via # "directory"
                 /\ f.path[Len(f.path)] \in Included
                 /\ Excluding(patterns, f.path) = {}}

-----------------------------------------------------------------------------
(* scan_vault: the directories with indexable files right in them that are *)
(* known for noise or hold many.  A vault in a hidden directory is not     *)
(* walked at all.                                                          *)
Candidates(files, hide, vaultHidden) ==
  LET scanned == {f \in files : /\ ~ (hide /\ (vaultHidden \/ Concealed(f.path)))
                                /\ f.via = "nothing"
                                /\ f.path[Len(f.path)] \in Included}
      within(d) == {f \in scanned : Directories(f.path) = d}
  IN  {d \in {Directories(f.path) : f \in scanned} \ {<<>>} :
         d[Len(d)] \in NoiseName \/ Cardinality(within(d)) >= Threshold}

(* select_exclusions_interactive: the answer is a set of candidates, with  *)
(* --yes all of them; a relative path becomes a pattern.                   *)
PatternsOfInit(patterns, chosen) == patterns \cup chosen

-----------------------------------------------------------------------------
(* build_path_map, for the paths in the order of the walk: the first of    *)
(* the shortest.                                                           *)
WithPath(map, p, size) ==
  LET name == p[Len(p)] IN
  IF /\ name \in DOMAIN Stem
     /\ Stem[name] \in DOMAIN map => size[p] < size[map[Stem[name]]]
  THEN [s \in DOMAIN map \cup {Stem[name]} |-> IF s = Stem[name] THEN p ELSE map[s]]
  ELSE map

PathMap(paths, size) ==
  LET map[k \in 0 .. Len(paths)] ==
        IF k = 0 THEN <<>> ELSE WithPath(map[k - 1], paths[k], size)
  IN  map[Len(paths)]

-----------------------------------------------------------------------------
(* resolve_vault_dir and resolve_file_in_vault: a file that is there and,  *)
(* links followed, inside the directory of the vault named.                *)
Resolves(vaults, name, f, disk) ==
  name \in DOMAIN vaults /\ f \in vaults[name] \cap disk /\ ~ f.outside

(* handle_read: the file as it is on disk, else its chunks (rows: the      *)
(* files that have some in this vault), put together in their order.       *)
HandleRead(vaults, name, f, disk, rows) ==
  IF Resolves(vaults, name, f, disk) THEN "disk"
  ELSE IF name \in DOMAIN vaults /\ f \in rows THEN "index"
  ELSE "not found"

-----------------------------------------------------------------------------
(* What the documentation says of patterns: a bare name fits directories   *)
(* at any depth, a pattern with a slash a path, star by star.              *)
PartFits(part, names) ==
  \/ part = "**"
  \/ part \in DOMAIN Starting /\ names # <<>> /\ Head(names) \in Starting[part]
  \/ part \in DOMAIN Ending /\ names # <<>> /\ names[Len(names)] \in Ending[part]
  \/ part \notin DOMAIN Starting \cup DOMAIN Ending /\ names = <<part>>

PathFits(pattern, path) ==
  \E cut \in [0 .. Len(pattern) -> 0 .. Len(path)] :
    /\ cut[Len(pattern)] = Len(path)
    /\ \A k \in 1 .. Len(pattern) :
         /\ cut[k - 1] <= cut[k]
         /\ PartFits(pattern[k], SubSeq(path, cut[k - 1] + 1, cut[k]))
    /\ pattern[Len(pattern)] = "**" => cut[Len(pattern) - 1] < Len(path)

Means(pattern, path) ==
  IF Len(pattern) = 1 /\ pattern # <<"**">>
  THEN \E i \in 1 .. Len(path) - 1 : PartFits(pattern[1], <<path[i]>>)
  ELSE PathFits(pattern, path)

(* "Bare names match directories at any depth", patterns with a slash a    *)
(* path, and "vault boundary protection" (ref/cli.md): a note is indexed   *)
(* unless a pattern means it, it is hidden, or it lies outside the vault   *)
(* and links are followed.                                                 *)
WalkIsExact(files, patterns, hide, follow) ==
  \A f \in files :
    LET meant == {p \in patterns : p # <<>> /\ Unclosed \notin ToSet(p)
                                   /\ Means(p, f.path)}
    IN  f \in Walked(files, patterns, hide, follow) <=>
          /\ meant = {}
          /\ ~ (hide /\ \E i \in 1 .. Len(f.path) - 1 : f.path[i] \in DotName)
          /\ f.via = "directory" => follow
          /\ ~ (follow /\ f.outside)
          /\ f.path[Len(f.path)] \in Included

(* What check-ignore says of a note is what the walk does with it, in the  *)
(* vault it is asked of, and the place it names has a pattern that means   *)
(* the note.                                                               *)
CheckSaysWhy(files, config, ignore) ==
  LET vaults == <<[name |-> "work", ignore |-> ignore], [name |-> "other", ignore |-> <<>>]>>
      says(named, f) == CheckIgnore(vaults, named, config, f.path)
      meant(patterns, f) == \E p \in Compiled(ToSet(patterns)) : Means(p, f.path)
  IN  \A f \in files :
        /\ f \in Walked({f}, ToSet(config \o ignore), FALSE, TRUE) =>
             says("first", f) = "indexed"
        /\ says("work", f) = says("first", f)
        /\ says("first", f) = "ignore file" => meant(ignore, f)
        /\ says("first", f) = "config" => meant(config, f)
        /\ says("other", f) = "indexed" <=> ~ meant(config, f)
        /\ says("first", f) = "indexed" <=> ~ meant(config \o ignore, f)

(* A wikilink leads to a note of that name, and to a shortest such path.   *)
LinksLeadToNotes(paths, size) ==
  LET map == PathMap(paths, size)
      named(s) == {p \in ToSet(paths) : /\ p[Len(p)] \in DOMAIN Stem
                                        /\ Stem[p[Len(p)]] = s}
  IN  /\ DOMAIN map = {Stem[n] : n \in {p[Len(p)] : p \in ToSet(paths)} \cap DOMAIN Stem}
      /\ \A s \in DOMAIN map :
           map[s] \in named(s) /\ \A p \in named(s) : size[map[s]] <= size[p]

(* What is found can be read: a note that was walked, whether it is a link *)
(* to a file elsewhere or has been deleted since; from the disk as long as *)
(* it is there and inside the vault; and only under the name of its vault. *)
FoundIsRead(files, patterns, hide, follow) ==
  \A rows \in {Walked(files, patterns, hide, follow)}, gone \in SUBSET files :
    \A f \in files :
      LET read(name) == HandleRead([work |-> files], name, f, files \ gone, rows)
      IN  /\ f \in rows => read("work") # "not found"
          /\ read("work") = "disk" <=> f \notin gone /\ ~ f.outside
          /\ read("default") = "not found"

(* A directory in the vault's root that is chosen in `init` is not indexed *)
(* any more, nor is anything below it.                                     *)
RootChoiceIsExcluded(files, patterns, hide) ==
  \A d \in Candidates(files, hide, FALSE) : Len(d) = 1 =>
    \A f \in Walked(files, PatternsOfInit(patterns, {d}), hide, FALSE) :
      f.path[1] # d[1]

(* "{} directories excluded from the index" (INIT_EXCLUDED_DIRS): what is  *)
(* chosen in `init` is not indexed any more.                               *)
ChoiceIsExcluded(files, patterns, hide) ==
  \A d \in Candidates(files, hide, FALSE) :
    \A f \in Walked(files, PatternsOfInit(patterns, {d}), hide, FALSE) :
      Directories(f.path) # d
=============================================================================

--------------------------- MODULE LanguageRegistry ---------------------------
(***************************************************************************)
(* Which language servers there are: main.go, which reads the command line *)
(* (parseCLI), finds the config file (runtimeConfigPath) and puts together *)
(* the built-in catalog, that file, the commands found on PATH and the     *)
(* -lsp override; pkg/lsp/registry.go, which indexes the languages by      *)
(* name, alias, extension and shebang; and pkg/mcp/language_resolver.go,   *)
(* which looks a tool call's language up.                                  *)
(*                                                                         *)
(* The config and the specs are Go maps: their loops take the elements in  *)
(* any order, and stop at the first that is wrong.  Words are normalized:  *)
(* names and aliases, ".ext" extensions, "#!" shebangs, or blank.          *)
(* Server arguments matter by being there; LSP language IDs are left out.  *)
(***************************************************************************)
EXTENDS Naturals, Sequences, Functions, SequencesExt

CONSTANTS
  Names,        \* words that may name a language
  Extensions,
  Shebangs,     \* shebangs a language may declare, the longer ones first
  Catalog,      \* built-in languages: [language -> [keys, commands]]
  Layouts,      \* what is in the places of config files: [flag, workspace, environment,
                \* home] are -config, .mcp-lsp.json, MCP_LSP_CONFIG, XDG_CONFIG_HOME
  CommandLines, \* [lsp, language, args]
  NoWord,       \* no language, no -lsp command, no command
  Blank,        \* a word that is given and blank
  Unset,        \* no config file: the place is not named, or nothing is there
  Broken        \* it cannot be read or parsed, or is named and not there

VARIABLES
  flags,     \* the command line
  layout,    \* what is in each place; a config file is a function [name -> [keys, command]]
  config,    \* the config file in use
  onPath,    \* catalog commands that are on PATH
  discover,  \* -discover
  override,  \* the language of -lsp, canonical for the catalog
  stage,     \* "flags", "search", "config", "override", "index", "ready", "failed"
  todo,      \* what the loop of the stage has still to take
  specs,     \* keys of each language
  owner,     \* aliases, extensions and shebangs: which language has a key
  servers    \* active servers: [language -> [from, command]]

inputVars    == <<flags, layout, config, onPath, discover, override>>
registryVars == <<inputVars, stage, todo, specs, owner, servers>>

\* Words that are blank or not given name nothing, and no extension or shebang looks
\* like a name; a command is a candidate of one built-in language; a config file has
\* a language once, though the language may be blank.
ASSUME RegistryAssumption ==
  /\ {NoWord, Blank} \cap Names = {} /\ Unset # Broken
  /\ DOMAIN Catalog \subseteq Names
  /\ \A l \in DOMAIN Catalog : Catalog[l].commands \in Seq(Range(Catalog[l].commands) \ {NoWord})
  /\ \A l, m \in DOMAIN Catalog :
       l # m => Range(Catalog[l].commands) \cap Range(Catalog[m].commands) = {}
  /\ \A y \in Layouts : \A place \in {"flag", "workspace", "environment", "home"} :
       y[place] \in {Unset, Broken} \/ DOMAIN y[place] \subseteq Names \cup {Blank}
  /\ \A f \in CommandLines : f.language \in Names \cup {NoWord, Blank}
  /\ Shebangs \in Seq(Range(Shebangs))
  /\ Names \cap (Extensions \cup Range(Shebangs)) = {}

Commands == UNION {Range(Catalog[l].commands) : l \in DOMAIN Catalog}
Sources == {"config", "discovery", "cli"}
Empty == [x \in {} |-> {}]

RegistryTypeOK ==
  /\ stage \in {"flags", "search", "config", "override", "index", "ready", "failed"}
  /\ override \in Names \cup {NoWord}
  /\ todo \subseteq Names \cup {Blank}
  /\ DOMAIN specs \subseteq Names
  /\ \A k \in DOMAIN owner : owner[k] \in DOMAIN specs
  /\ \A l \in DOMAIN servers : l \in DOMAIN specs /\ servers[l].from \in Sources

RegistryInit ==
  /\ flags \in CommandLines
  /\ layout \in Layouts
  /\ config = Empty
  /\ onPath \in SUBSET Commands
  /\ discover \in BOOLEAN
  /\ override = NoWord
  /\ stage = "flags"
  /\ todo = {}
  /\ specs = [l \in DOMAIN Catalog |-> Catalog[l].keys]
  /\ owner = Empty
  /\ servers = Empty

-----------------------------------------------------------------------------
\* lsp.CanonicalLanguage: what the built-in catalog calls a language.
CatalogName(n) ==
  IF \E l \in DOMAIN Catalog : n \in Catalog[l].keys
  THEN CHOOSE l \in DOMAIN Catalog : n \in Catalog[l].keys ELSE n

\* f, and what g has besides.
Over(f, g) == [z \in DOMAIN f \cup DOMAIN g |-> IF z \in DOMAIN f THEN f[z] ELSE g[z]]

\* f with x mapped to y as well.
With(f, x, y) == Over([z \in {x} |-> y], f)

\* addSpec: a language that is there already gets more keys.
AddSpec(l, keys) ==
  specs' = With(specs, l, keys \cup (IF l \in DOMAIN specs THEN specs[l] ELSE {}))

Give(l, from, command) == servers' = With(servers, l, [from |-> from, command |-> command])

Reject == stage' = "failed" /\ UNCHANGED <<inputVars, todo, specs, owner, servers>>

\* InferLanguageFromCommand: the catalog language that has the command, none or one.
Inferred(command) == {l \in DOMAIN Catalog : command \in Range(Catalog[l].commands)}

\* The language of -lsp, if one is given or can be inferred.
Languages(f) ==
  IF f.language = NoWord THEN Inferred(f.lsp) ELSE {CatalogName(f.language)} \ {Blank}

\* parseCLI: a language alone is accepted and not used.
ParseCLI ==
  /\ stage = "flags"
  /\ Blank \notin {flags.lsp, flags.language}
  /\ IF flags.lsp = NoWord THEN ~flags.args /\ UNCHANGED override
                           ELSE override' \in Languages(flags)
  /\ stage' = "search"
  /\ UNCHANGED <<flags, layout, config, onPath, discover, todo, specs, owner, servers>>

RejectCLI ==
  /\ stage = "flags"
  /\ \/ Blank \in {flags.lsp, flags.language}
     \/ flags.lsp = NoWord /\ flags.args
     \/ flags.lsp # NoWord /\ Languages(flags) = {}
  /\ Reject

Named(place) == layout[place] # Unset

\* (mutant) MCP_LSP_CONFIG is looked at before the workspace.
RuntimeConfigPathGlobal ==
  CASE Named("flag") -> "flag"
    [] ~Named("flag") /\ Named("environment") -> "environment"
    [] ~Named("flag") /\ ~Named("environment") /\ Named("workspace") -> "workspace"
    [] OTHER -> "home"

\* runtimeConfigPath: the place whose config file is read, if there is one there.
RuntimeConfigPath ==
  CASE Named("flag") -> "flag"
    [] ~Named("flag") /\ Named("workspace") -> "workspace"
    [] ~Named("flag") /\ ~Named("workspace") /\ Named("environment") -> "environment"
    [] OTHER -> "home"

\* The others do not matter, even if it is broken.
ReadConfig ==
  LET place == RuntimeConfigPath
      file == IF Named(place) THEN layout[place] ELSE Empty IN
  /\ stage = "search"
  /\ file # Broken
  /\ config' = file
  /\ todo' = DOMAIN file
  /\ stage' = "config"
  /\ UNCHANGED <<flags, layout, onPath, discover, override, specs, owner, servers>>

RejectConfig ==
  /\ stage = "search"
  /\ layout[RuntimeConfigPath] = Broken
  /\ Reject

\* An entry is for no language, or has a key that is none: loadRuntimeConfigFile or
\* addSpec refuses it.
BlankIn(n) == Blank \in {n} \cup config[n].keys

\* (mutant) A second entry for a language replaces the first.
TakeEntryAgain(n) ==
  LET l == CatalogName(n) IN
  /\ stage = "config" /\ n \in todo
  /\ ~BlankIn(n)
  /\ todo' = todo \ {n}
  /\ AddSpec(l, config[n].keys)
  /\ Give(l, "config", config[n].command)
  /\ UNCHANGED <<inputVars, stage, owner>>

\* loadRuntimeConfigFile: one entry, in the order of the map; the languages seen
\* are those given a server.
TakeEntry(n) ==
  LET l == CatalogName(n) IN
  /\ stage = "config" /\ n \in todo
  /\ ~BlankIn(n) /\ l \notin DOMAIN servers
  /\ todo' = todo \ {n}
  /\ AddSpec(l, config[n].keys)
  /\ Give(l, "config", config[n].command)
  /\ UNCHANGED <<inputVars, stage, owner>>

RejectEntry(n) ==
  /\ stage = "config" /\ n \in todo
  /\ BlankIn(n) \/ CatalogName(n) \in DOMAIN servers
  /\ Reject

\* The index of the first candidate of a language that is on PATH, 0 if none is.
Found(l) == SelectInSeq(Catalog[l].commands, LAMBDA c : c \in onPath)

\* What discovery comes up with.
Discovered ==
  [l \in {m \in DOMAIN Catalog : discover /\ Found(m) # 0} |->
     [from |-> "discovery", command |-> Catalog[l].commands[Found(l)]]]

\* The languages are about to be indexed.
StartIndex(next) ==
  /\ stage' = next
  /\ todo' = DOMAIN specs'
  /\ owner' = Empty

\* (mutant) What is found on PATH replaces the config.
DiscoverOver ==
  /\ stage = "config" /\ todo = {}
  /\ servers' = Over(Discovered, servers)
  /\ UNCHANGED <<inputVars, specs>>
  /\ StartIndex(IF override = NoWord THEN "index" ELSE "override")

\* DiscoverServerConfigs, for the languages the config leaves without a server.
Discover ==
  /\ stage = "config" /\ todo = {}
  /\ servers' = Over(servers, Discovered)
  /\ UNCHANGED <<inputVars, specs>>
  /\ StartIndex(IF override = NoWord THEN "index" ELSE "override")

\* (mutant) The language indexed last gets a key that two claim.
IndexOver(l) ==
  /\ stage \in {"override", "index"} /\ l \in todo
  /\ owner' = Over([k \in specs[l] \cup {l} |-> l], owner)
  /\ todo' = todo \ {l}
  /\ UNCHANGED <<inputVars, stage, specs, servers>>

\* rebuildIndexes: the keys of one language, in the order of the map ...
Index(l) ==
  /\ stage \in {"override", "index"} /\ l \in todo
  /\ \A k \in (specs[l] \cup {l}) \cap DOMAIN owner : owner[k] = l
  /\ owner' = Over([k \in specs[l] \cup {l} |-> l], owner)
  /\ todo' = todo \ {l}
  /\ UNCHANGED <<inputVars, stage, specs, servers>>

\* ... one of which another language has.
RejectKey(l) ==
  /\ stage \in {"override", "index"} /\ l \in todo
  /\ \E k \in (specs[l] \cup {l}) \cap DOMAIN owner : owner[k] # l
  /\ Reject

\* CanonicalLanguage of the registry: none or one.
CanonicalLanguage(n) == {owner[k] : k \in {n} \cap Names \cap DOMAIN owner}

\* (mutant) The override's language is not added to the specs.
OverrideUnlisted ==
  LET known == CanonicalLanguage(override) IN
  /\ stage = "override" /\ todo = {}
  /\ Give(IF known = {} THEN override ELSE owner[override], "cli", flags.lsp)
  /\ UNCHANGED <<inputVars, specs>>
  /\ StartIndex("index")

\* resolveCLIOverrideLanguage: the language as the specs have it, or a new one.
Override ==
  LET known == CanonicalLanguage(override) IN
  /\ stage = "override" /\ todo = {}
  /\ Give(IF known = {} THEN override ELSE owner[override], "cli", flags.lsp)
  /\ IF known = {} THEN AddSpec(override, {}) ELSE UNCHANGED specs
  /\ UNCHANGED inputVars
  /\ StartIndex("index")

\* NewRegistry's loop over the servers, whose languages all have specs by now ...
Activate ==
  /\ stage = "index" /\ todo = {}
  /\ \A l \in DOMAIN servers : servers[l].command # NoWord
  /\ stage' = "ready"
  /\ UNCHANGED <<inputVars, todo, specs, owner, servers>>

\* ... needs a command for each.
RejectServer ==
  /\ stage = "index" /\ todo = {}
  /\ \E l \in DOMAIN servers : servers[l].command = NoWord
  /\ Reject

RegistryNext ==
  \/ ParseCLI \/ RejectCLI \/ ReadConfig \/ RejectConfig
  \/ \E n \in Names \cup {Blank} : TakeEntry(n) \/ RejectEntry(n)
  \/ \E l \in Names : Index(l) \/ RejectKey(l)
  \/ Discover \/ Override \/ Activate \/ RejectServer

RegistrySpec == RegistryInit /\ [][RegistryNext]_registryVars

-----------------------------------------------------------------------------
(* LanguageResolver: none or one language                                  *)

\* (mutant) The name is looked up among the servers, aliases are not.
ResolveByName(n) == {n} \cap DOMAIN servers

ResolveConfigured(n) == CanonicalLanguage(n) \cap DOMAIN servers

\* LanguageForFile: extension e, or the longest shebang in the first line.
LanguageForFile(e, line) ==
  LET match == SelectInSeq(Shebangs, LAMBDA b : b \in line \cap DOMAIN owner) IN
  IF e \in DOMAIN owner THEN {owner[e]}
  ELSE IF match # 0 THEN {owner[Shebangs[match]]} ELSE {}

ResolveFileLanguage(e, line, explicit) ==
  IF explicit # NoWord THEN ResolveConfigured(explicit)
                       ELSE LanguageForFile(e, line) \cap DOMAIN servers

ResolveToolLanguage(explicit) ==
  IF explicit # NoWord THEN ResolveConfigured(explicit)
  ELSE {l \in DOMAIN servers : DOMAIN servers = {l}}

-----------------------------------------------------------------------------
(* What the input asks for, whatever the order of the maps                 *)

Places == <<"flag", "workspace", "environment", "home">>

\* The file in use: "1. -config <path>, 2. <workspace>/.mcp-lsp.json,
\* 3. MCP_LSP_CONFIG, 4. $XDG_CONFIG_HOME/mcp-lsp/config.json" (README.md:47-52).
File ==
  LET there == {i \in DOMAIN Places : layout[Places[i]] # Unset} IN
  IF there = {} THEN Empty
  ELSE layout[Places[CHOOSE i \in there : \A j \in there : i <= j]]

Entries(l) == {n \in DOMAIN File : CatalogName(n) = l}

\* The keys by which l is known.
KeysOf(l) ==
  {l} \cup (UNION {File[n].keys : n \in Entries(l)})
      \cup (IF l \in DOMAIN Catalog THEN Catalog[l].keys ELSE {})

Declared == DOMAIN Catalog \cup {CatalogName(n) : n \in DOMAIN File}

\* The language -lsp is for, none or one; a name the config introduces stands
\* for the language it is an alias of.
Overridden ==
  LET given == IF flags.lsp = NoWord THEN {} ELSE Languages(flags)
      known == {l \in Declared : given \cap KeysOf(l) # {}}
  IN IF known # {} THEN known ELSE given

\* Flags that are blank, or miss what they are for.
Unusable ==
  \/ Blank \in {flags.lsp, flags.language}
  \/ flags.args /\ flags.lsp = NoWord
  \/ flags.lsp # NoWord /\ Languages(flags) = {}

\* A blank language or key, two entries for a language, two languages with a key, or
\* an entry without a command that no -lsp replaces.
Contradictory ==
  \/ \E n \in DOMAIN File : Blank \in {n} \cup File[n].keys
  \/ \E l \in Declared : \E m, n \in Entries(l) : m # n
  \/ \E l, m \in Declared : l # m /\ KeysOf(l) \cap KeysOf(m) # {}
  \/ \E n \in DOMAIN File : File[n].command = NoWord /\ CatalogName(n) \notin Overridden

\* Whether the program starts depends on what the flags and the config say, not
\* on the order in which its maps are gone through: it stops if and only if the
\* flags are unusable or the config file that counts is broken or contradictory,
\* whatever the files that do not count (main.go:128-182, 250-343,
\* registry.go:209-239 and 246-268).
RejectedIffContradictory ==
  /\ stage = "ready" => ~Unusable /\ File # Broken /\ ~Contradictory
  /\ stage = "failed" => Unusable \/ File = Broken \/ Contradictory

\* "an explicit one-off -lsp CLI override, a runtime JSON config file, PATH
\* discovery for known language-server commands" (README.md:15-22), in that
\* order, language by language, an alias of the config included.
Precedence ==
  stage = "ready" =>
    LET configured == {CatalogName(n) : n \in DOMAIN File}
        found == {l \in DOMAIN Catalog : discover /\ Range(Catalog[l].commands) \cap onPath # {}}
    IN /\ DOMAIN servers = Overridden \cup configured \cup found
       /\ \A l \in DOMAIN servers : servers[l].from =
            IF l \in Overridden THEN "cli" ELSE IF l \in configured THEN "config" ELSE "discovery"

\* What a file without a known extension may have in its first line.
Lines == {Range(SubSeq(Shebangs, i, Len(Shebangs))) : i \in 1..(Len(Shebangs) + 1)}

\* A tool call ends up, by whatever alias or file it names the language, at the
\* one active server of the language that declares it, and nowhere if there is
\* none; of the shebangs a line has in it, the longest declared one counts
\* (language_resolver.go:44-109, registry.go:168-187, 273-284).
ResolvesToDeclared ==
  stage = "ready" =>
    LET serving(k) == {l \in DOMAIN servers : k \in KeysOf(l)}
        declared(k) == \E l \in Declared : k \in KeysOf(l)
        longest(line) == SelectInSeq(Shebangs, LAMBDA b : b \in line /\ declared(b)) IN
    /\ \A n \in Names : ResolveToolLanguage(n) = serving(n)
    /\ \A n \in Names, e \in Extensions : ResolveFileLanguage(e, {}, n) = serving(n)
    /\ \A e \in Extensions, line \in Lines :
         ResolveFileLanguage(e, line, NoWord) =
           IF declared(e) THEN serving(e)
           ELSE IF longest(line) # 0 THEN serving(Shebangs[longest(line)]) ELSE {}
    /\ ResolveToolLanguage(NoWord) # {} => \A n \in Names : serving(n) \subseteq ResolveToolLanguage(NoWord)
=============================================================================

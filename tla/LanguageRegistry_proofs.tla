------------------------ MODULE LanguageRegistry_proofs ------------------------
(***************************************************************************)
(* Proofs about LanguageRegistry, for any catalog, command line, config    *)
(* files and commands on PATH.  At every stage the specs, the servers and  *)
(* the index are those the input asks for, of what the loop of the stage   *)
(* has taken so far; in which order it was taken does not show.            *)
(***************************************************************************)
EXTENDS LanguageRegistry, TLAPS, WellFoundedInduction

\* Stages at which the flags have been parsed, the config file has been read, and
\* the override has been given its server.
Parsed  == {"search", "config", "override", "index", "ready"}
Loaded  == {"config", "override", "index", "ready"}
Indexed == {"override", "index", "ready"}
Settled == {"index", "ready"}

InputInv == flags \in CommandLines /\ layout \in Layouts

FlagsInv ==
  /\ stage = "flags" => override = NoWord
  /\ stage \in Parsed =>
       /\ ~Unusable
       /\ IF flags.lsp = NoWord THEN override = NoWord
                                ELSE override \in Names /\ Languages(flags) = {override}
  /\ stage \in Loaded => config = File /\ File # Broken

\* Before the config file is read.
BuiltIn ==
  /\ DOMAIN specs = DOMAIN Catalog
  /\ \A l \in DOMAIN Catalog : specs[l] = Catalog[l].keys
  /\ DOMAIN servers = {}

\* The keys l has from the catalog and from the entries in S.
KeysFrom(l, S) ==
  {l} \cup (UNION {File[n].keys : n \in Entries(l) \cap S})
      \cup (IF l \in DOMAIN Catalog THEN Catalog[l].keys ELSE {})

\* The entries in S of the config file have been taken.
TakenFrom(S) ==
  /\ DOMAIN specs = DOMAIN Catalog \cup {CatalogName(n) : n \in S}
  /\ \A l \in DOMAIN specs : specs[l] \cup {l} = KeysFrom(l, S)
  /\ DOMAIN servers = {CatalogName(n) : n \in S}
  /\ \A n \in S : servers[CatalogName(n)] = [from |-> "config", command |-> File[n].command]
  /\ \A m, n \in S : CatalogName(m) = CatalogName(n) => m = n
  /\ \A n \in S : Blank \notin {n} \cup File[n].keys

Configured == {CatalogName(n) : n \in DOMAIN File}
Available == {l \in DOMAIN Catalog : discover /\ Range(Catalog[l].commands) \cap onPath # {}}

\* The servers, when those in S have been overridden.
ServedFor(S) ==
  /\ DOMAIN servers = S \cup Configured \cup Available
  /\ \A l \in DOMAIN servers :
       /\ servers[l].from = IF l \in S THEN "cli" ELSE IF l \in Configured THEN "config" ELSE "discovery"
       /\ l \in S \/ l \notin Configured => servers[l].command # NoWord
  /\ \A n \in DOMAIN File :
       CatalogName(n) \notin S => servers[CatalogName(n)].command = File[n].command

\* The languages in S have been indexed.
IndexedFor(S) ==
  /\ DOMAIN owner = UNION {KeysOf(l) : l \in S}
  /\ \A l \in S : \A k \in KeysOf(l) : owner[k] = l

Chosen == IF stage \in Settled THEN Overridden ELSE {}

IndexInv ==
  /\ DOMAIN specs = Declared \cup Chosen
  /\ \A l \in DOMAIN specs : specs[l] \cup {l} = KeysOf(l)
  /\ \A m, n \in DOMAIN File : CatalogName(m) = CatalogName(n) => m = n
  /\ \A n \in DOMAIN File : Blank \notin {n} \cup File[n].keys
  /\ todo \subseteq DOMAIN specs
  /\ IndexedFor(DOMAIN specs \ todo)
  /\ ServedFor(Chosen)
  /\ stage = "override" => override # NoWord
  /\ stage = "ready" => todo = {} /\ \A l \in DOMAIN servers : servers[l].command # NoWord

RegistryInv ==
  /\ RegistryTypeOK
  /\ RejectedIffContradictory
  /\ InputInv
  /\ FlagsInv
  /\ stage \in {"flags", "search"} => BuiltIn
  /\ stage = "config" => todo \subseteq DOMAIN File /\ TakenFrom(DOMAIN File \ todo)
  /\ stage \in Indexed => IndexInv

-----------------------------------------------------------------------------
(* First of a list                                                         *)

LEMMA MinIsIn ==
  ASSUME NEW T \in SUBSET Nat, T # {}
  PROVE  Min(T) \in T /\ \A k \in T : Min(T) <= k
<1>1. PICK m \in T : \A k \in T : <<k, m>> \notin OpToRel(<, Nat)
  BY NatLessThanWellFounded, WFMin
<1>2. ASSUME NEW k \in T PROVE m <= k
  <2>1. k \in Nat /\ m \in Nat
    OBVIOUS
  <2>2. <<k, m>> \in Nat \X Nat /\ <<k, m>>[1] = k /\ <<k, m>>[2] = m
    BY <2>1
  <2>3. ~(k < m)
    BY <1>1, <2>2 DEF OpToRel
  <2> QED BY <2>1, <2>3
<1> QED BY <1>2 DEF Min

\* What discovery finds for a language is a command, if a candidate is on PATH.
LEMMA FoundOnPath ==
  ASSUME NEW l \in DOMAIN Catalog
  PROVE  /\ Found(l) # 0 <=> Range(Catalog[l].commands) \cap onPath # {}
         /\ Found(l) # 0 => Catalog[l].commands[Found(l)] # NoWord
<1> DEFINE cs == Catalog[l].commands
           I == {i \in 1..Len(cs) : cs[i] \in onPath}
<1>1. cs \in Seq(Range(cs) \ {NoWord})
  BY RegistryAssumption
<1>2. DOMAIN cs = 1..Len(cs) /\ \A i \in 1..Len(cs) : cs[i] \in Range(cs) \ {NoWord}
  <2> HIDE DEF cs
  <2> QED BY <1>1
<1>3. Found(l) = IF I # {} THEN Min(I) ELSE 0
  BY DEF Found, SelectInSeq
<1>4. I \in SUBSET Nat /\ 0 \notin I
  <2> HIDE DEF cs
  <2> QED OBVIOUS
<1>5. I # {} => Min(I) \in I
  <2> HIDE DEF I
  <2> QED BY <1>4, MinIsIn
<1>6. I # {} <=> Range(cs) \cap onPath # {}
  <2> HIDE DEF cs
  <2> QED BY <1>2 DEF Range
<1> HIDE DEF cs, I
<1>7. Found(l) # 0 <=> I # {}
  BY <1>3, <1>4, <1>5
<1>8. Found(l) # 0 => Found(l) \in I
  BY <1>3, <1>5, <1>7
<1> USE DEF I, cs
<1> QED BY <1>2, <1>6, <1>7, <1>8

-----------------------------------------------------------------------------
(* The input                                                               *)

LEMMA CatalogNames == ASSUME NEW n \in Names PROVE CatalogName(n) \in Names
  BY RegistryAssumption DEF CatalogName

\* The place that is read is the first of the list in which there is a file.
LEMMA FileInUse == File = IF Named(RuntimeConfigPath) THEN layout[RuntimeConfigPath] ELSE Empty
<1> DEFINE there == {i \in DOMAIN Places : layout[Places[i]] # Unset}
           first == CHOOSE i \in there : \A j \in there : i <= j
<1>1. DOMAIN Places = 1..4 /\ Places[1] = "flag" /\ Places[2] = "workspace"
      /\ Places[3] = "environment" /\ Places[4] = "home"
  BY DEF Places
<1>2. CASE there = {}
  <2>1. ~Named(RuntimeConfigPath)
    BY <1>1, <1>2 DEF RuntimeConfigPath, Named
  <2> QED BY <1>2, <2>1 DEF File
<1>3. CASE there # {}
  <2>1. first \in there /\ \A j \in there : first <= j
    <3>1. there \in SUBSET Nat
      BY <1>1
    <3>2. first = Min(there)
      BY DEF Min
    <3> HIDE DEF there, first
    <3> QED BY <1>3, <3>1, <3>2, MinIsIn
  <2>2. RuntimeConfigPath = Places[first] /\ Named(Places[first])
    <3> HIDE DEF first
    <3>a. \A j \in 1..4 : j \in there <=> Named(Places[j])
      BY <1>1 DEF Named
    <3>b. first \in 1..4
      BY <1>1, <2>1
    <3> HIDE DEF there
    <3>1. Named(Places[first]) /\ \A j \in 1..4 : j < first => ~Named(Places[j])
      BY <2>1, <3>a, <3>b
    <3>2. CASE first = 1
      <4>1. Named("flag")
        BY <1>1, <3>1, <3>2
      <4>2. RuntimeConfigPath = "flag"
        BY <4>1 DEF RuntimeConfigPath
      <4> QED BY <1>1, <3>2, <4>1, <4>2
    <3>3. CASE first = 2
      <4>1. ~Named("flag") /\ Named("workspace")
        BY <1>1, <3>1, <3>3
      <4>2. RuntimeConfigPath = "workspace"
        BY <4>1 DEF RuntimeConfigPath
      <4> QED BY <1>1, <3>3, <4>1, <4>2
    <3>4. CASE first = 3
      <4>1. ~Named("flag") /\ ~Named("workspace") /\ Named("environment")
        BY <1>1, <3>1, <3>4
      <4>2. RuntimeConfigPath = "environment"
        BY <4>1 DEF RuntimeConfigPath
      <4> QED BY <1>1, <3>4, <4>1, <4>2
    <3>5. CASE first = 4
      <4>1. ~Named("flag") /\ ~Named("workspace") /\ ~Named("environment") /\ Named("home")
        BY <1>1, <3>1, <3>5
      <4>2. RuntimeConfigPath = "home"
        BY <4>1 DEF RuntimeConfigPath
      <4> QED BY <1>1, <3>5, <4>1, <4>2
    <3> QED BY <3>b, <3>2, <3>3, <3>4, <3>5
  <2>3. File = layout[Places[first]]
    BY <1>3 DEF File
  <2> HIDE DEF first, there
  <2> QED BY <2>2, <2>3
<1> QED BY <1>2, <1>3

\* What is read is a config file over names, blank or not.
LEMMA FileNames ==
  ASSUME InputInv, File # Broken
  PROVE  DOMAIN File \subseteq Names \cup {Blank}
<1>1. RuntimeConfigPath \in {"flag", "workspace", "environment", "home"}
  BY DEF RuntimeConfigPath
<1> QED BY <1>1, FileInUse, RegistryAssumption DEF InputInv, Named, Empty

\* The flags name one language at most.
LEMMA OneLanguage ==
  ASSUME InputInv, Blank \notin {flags.lsp, flags.language}, NEW l \in Languages(flags)
  PROVE  l \in Names /\ Languages(flags) = {l}
<1>1. CASE flags.language = NoWord
  BY <1>1, RegistryAssumption DEF Languages, Inferred
<1>2. CASE flags.language # NoWord
  <2>1. flags.language \in Names
    BY <1>2, RegistryAssumption DEF InputInv
  <2> QED BY <1>2, <2>1, CatalogNames DEF Languages
<1> QED BY <1>1, <1>2

\* The input stays what it is, and all that is computed from it.
LEMMA InputStays ==
  ASSUME [RegistryNext]_registryVars
  PROVE  /\ UNCHANGED <<flags, layout, onPath, discover>>
         /\ File' = File /\ Declared' = Declared /\ Configured' = Configured
         /\ Overridden' = Overridden /\ Available' = Available
         /\ Unusable' = Unusable /\ Contradictory' = Contradictory
         /\ \A l : Entries(l)' = Entries(l) /\ KeysOf(l)' = KeysOf(l)
<1>1. UNCHANGED <<flags, layout, onPath, discover>>
  BY DEF RegistryNext, ParseCLI, RejectCLI, ReadConfig, RejectConfig, TakeEntry, RejectEntry, Index, RejectKey,
         Discover, Override, Activate, RejectServer, Reject, inputVars, registryVars
<1>2. File' = File
  BY <1>1 DEF File
<1>3. \A l : Entries(l)' = Entries(l) /\ KeysOf(l)' = KeysOf(l)
  BY <1>2 DEF Entries, KeysOf
<1>4. Declared' = Declared /\ Configured' = Configured
  BY <1>2 DEF Declared, Configured
<1>5. Overridden' = Overridden
  BY <1>1, <1>3, <1>4 DEF Overridden
<1>6. Available' = Available /\ Unusable' = Unusable
  BY <1>1 DEF Available, Unusable
<1>7. Contradictory' = Contradictory
  BY <1>2, <1>3, <1>4, <1>5 DEF Contradictory
<1> QED BY <1>1, <1>2, <1>3, <1>4, <1>5, <1>6, <1>7

\* A language only the flags name has one key, which is nobody else's.
LEMMA NewLanguage ==
  ASSUME NEW m \in Overridden \ Declared
  PROVE  /\ KeysOf(m) = {m}
         /\ \A l \in Declared : m \notin KeysOf(l)
         /\ flags.lsp # NoWord /\ Overridden = Languages(flags)
<1>1. Entries(m) = {} /\ m \notin DOMAIN Catalog
  BY DEF Declared, Entries
<1> QED BY <1>1 DEF KeysOf, Overridden

-----------------------------------------------------------------------------
(* The invariant                                                           *)

LEMMA RegistryInvInit == RegistryInit => RegistryInv
<1> SUFFICES ASSUME RegistryInit PROVE RegistryInv
  OBVIOUS
<1> USE DEF RegistryInit, Empty
<1>1. RegistryTypeOK
  BY RegistryAssumption DEF RegistryTypeOK
<1>2. RejectedIffContradictory /\ InputInv
  BY DEF RejectedIffContradictory, InputInv
<1>3. FlagsInv /\ BuiltIn
  BY DEF FlagsInv, BuiltIn, Parsed, Loaded
<1> QED BY <1>1, <1>2, <1>3 DEF RegistryInv, Indexed

\* The program stops only for a reason.
LEMMA RejectStep ==
  ASSUME RegistryInv, RegistryNext, Reject, Unusable \/ File = Broken \/ Contradictory
  PROVE  RegistryInv'
<1>1. stage' = "failed" /\ UNCHANGED <<flags, layout, override, todo, specs, owner, servers>>
  BY DEF Reject, inputVars
<1>2. RegistryTypeOK'
  BY <1>1 DEF RegistryInv, RegistryTypeOK
<1>3. RejectedIffContradictory'
  BY <1>1, InputStays DEF RejectedIffContradictory
<1>4. InputInv' /\ FlagsInv'
  BY <1>1 DEF RegistryInv, InputInv, FlagsInv, Parsed, Loaded
<1> QED BY <1>1, <1>2, <1>3, <1>4 DEF RegistryInv, Indexed

LEMMA ParseStep ==
  ASSUME RegistryInv, RegistryNext, ParseCLI
  PROVE  RegistryInv'
<1>1. stage = "flags" /\ stage' = "search" /\ UNCHANGED <<flags, layout, todo, specs, owner, servers>>
  BY DEF ParseCLI
<1>2. IF flags.lsp = NoWord THEN override' = NoWord
                            ELSE override' \in Names /\ Languages(flags) = {override'}
  <2>1. CASE flags.lsp = NoWord
    BY <1>1, <2>1 DEF ParseCLI, RegistryInv, FlagsInv
  <2>2. CASE flags.lsp # NoWord
    BY <2>2, OneLanguage DEF ParseCLI, RegistryInv
  <2> QED BY <2>1, <2>2
<1>3. RegistryTypeOK'
  BY <1>1, <1>2 DEF RegistryInv, RegistryTypeOK
<1>4. ~Unusable'
  BY <1>2, InputStays DEF ParseCLI, Unusable
<1>5. FlagsInv'
  BY <1>1, <1>2, <1>4, InputStays DEF FlagsInv, Loaded
<1>6. InputInv' /\ RejectedIffContradictory'
  BY <1>1 DEF RegistryInv, InputInv, RejectedIffContradictory
<1>7. BuiltIn'
  BY <1>1 DEF RegistryInv, BuiltIn
<1> QED BY <1>1, <1>3, <1>5, <1>6, <1>7 DEF RegistryInv, Indexed

LEMMA ReadStep ==
  ASSUME RegistryInv, RegistryNext, ReadConfig
  PROVE  RegistryInv'
<1>1. /\ stage = "search" /\ stage' = "config" /\ UNCHANGED <<flags, layout, override, specs, owner, servers>>
      /\ config' = File /\ File # Broken /\ todo' = DOMAIN File
  BY FileInUse DEF ReadConfig
<1>2. RegistryTypeOK'
  BY <1>1, FileNames DEF RegistryInv, RegistryTypeOK
<1>3. FlagsInv'
  BY <1>1, InputStays DEF RegistryInv, FlagsInv, Parsed
<1>4. InputInv' /\ RejectedIffContradictory'
  BY <1>1 DEF RegistryInv, InputInv, RejectedIffContradictory
<1>5. (todo \subseteq DOMAIN File /\ DOMAIN File \ todo = {})'
  BY <1>1, InputStays
<1>6. TakenFrom(DOMAIN File \ todo)'
  <2>1. DOMAIN specs = DOMAIN Catalog /\ DOMAIN servers = {} /\ \A l \in DOMAIN Catalog : specs[l] = Catalog[l].keys
    BY <1>1 DEF RegistryInv, BuiltIn
  <2>2. \A l : KeysFrom(l, DOMAIN File \ todo)' = {l} \cup (IF l \in DOMAIN Catalog THEN Catalog[l].keys ELSE {})
    BY <1>5 DEF KeysFrom
  <2> QED BY <1>1, <1>5, <2>1, <2>2 DEF TakenFrom
<1> QED BY <1>1, <1>2, <1>3, <1>4, <1>5, <1>6 DEF RegistryInv, Indexed

LEMMA TakeStep ==
  ASSUME RegistryInv, RegistryNext, NEW n \in Names \cup {Blank}, TakeEntry(n)
  PROVE  RegistryInv'
<1> DEFINE c == CatalogName(n)
           S == DOMAIN File \ todo
           T == S \cup {n}
           more == File[n].keys \cup (IF c \in DOMAIN specs THEN specs[c] ELSE {})
           server == [from |-> "config", command |-> File[n].command]
<1>1. /\ stage = "config" /\ stage' = "config" /\ n \in todo /\ todo' = todo \ {n}
      /\ UNCHANGED <<flags, layout, config, override, owner>>
      /\ c \notin DOMAIN servers /\ Blank \notin {n} \cup File[n].keys
      /\ specs' = With(specs, c, more)
      /\ servers' = With(servers, c, server)
  BY DEF TakeEntry, BlankIn, RegistryInv, FlagsInv, Loaded, inputVars, AddSpec, Give
<1>2. TakenFrom(S) /\ todo \subseteq DOMAIN File /\ RegistryTypeOK /\ n \in Names /\ c \in Names
  BY <1>1, CatalogNames DEF RegistryInv
<1> HIDE DEF c, more, server
<1>3. /\ DOMAIN specs' = DOMAIN specs \cup {c} /\ DOMAIN servers' = DOMAIN servers \cup {c}
      /\ specs'[c] = more /\ servers'[c] = server
      /\ \A l \in DOMAIN specs \ {c} : specs'[l] = specs[l]
      /\ \A l \in DOMAIN servers \ {c} : servers'[l] = servers[l]
  <2>1. specs' = With(specs, c, more) /\ servers' = With(servers, c, server)
    BY <1>1
  <2> QED BY <2>1 DEF With, Over
<1>4. RegistryTypeOK'
  <2>1. \A l \in DOMAIN servers' : servers'[l].from \in Sources
    BY <1>2, <1>3 DEF RegistryTypeOK, Sources, server
  <2>2. DOMAIN servers \subseteq DOMAIN specs
    BY <1>2 DEF RegistryTypeOK
  <2> QED BY <1>1, <1>2, <1>3, <2>1, <2>2 DEF RegistryTypeOK
<1>5. FlagsInv' /\ InputInv' /\ RejectedIffContradictory'
  BY <1>1, InputStays DEF RegistryInv, FlagsInv, InputInv, RejectedIffContradictory, Parsed, Loaded
<1>6. TakenFrom(DOMAIN File \ todo)'
  <2>1. DOMAIN specs' = DOMAIN Catalog \cup {CatalogName(m) : m \in T}
    BY <1>2, <1>3 DEF TakenFrom, c
  <2>2. DOMAIN servers' = {CatalogName(m) : m \in T}
    BY <1>2, <1>3 DEF TakenFrom, c
  <2>3. ASSUME NEW m \in T
        PROVE  servers'[CatalogName(m)] = [from |-> "config", command |-> File[m].command]
    <3>1. CASE m = n
      BY <1>3, <3>1 DEF c, server
    <3>2. CASE m # n
      <4>1. m \in S /\ CatalogName(m) \in DOMAIN servers \ {c}
        BY <1>1, <1>2, <3>2 DEF TakenFrom
      <4> QED BY <1>2, <1>3, <4>1 DEF TakenFrom
    <3> QED BY <3>1, <3>2
  <2>4. ASSUME NEW m \in T, NEW k \in T, CatalogName(m) = CatalogName(k)
        PROVE  m = k
    BY <1>1, <1>2, <2>4 DEF TakenFrom, c
  <2>5. ASSUME NEW l \in DOMAIN specs'
        PROVE  specs'[l] \cup {l} = KeysFrom(l, T)
    <3>1. CASE l = c
      <4>1. specs'[l] = File[n].keys \cup (IF c \in DOMAIN specs THEN specs[c] ELSE {})
        BY <1>3, <3>1 DEF more
      <4>2. Entries(c) \cap T = {n} /\ Entries(c) \cap S = {}
        BY <1>1, <1>2 DEF TakenFrom, Entries, c
      <4>3. c \notin DOMAIN specs => c \notin DOMAIN Catalog
        BY <1>2 DEF TakenFrom
      <4>4. c \in DOMAIN specs => specs[c] \cup {c} = KeysFrom(c, S)
        BY <1>2 DEF TakenFrom
      <4>5. KeysFrom(c, T) = {c} \cup File[n].keys \cup (IF c \in DOMAIN Catalog THEN Catalog[c].keys ELSE {})
        BY <4>2 DEF KeysFrom
      <4>6. KeysFrom(c, S) = {c} \cup (IF c \in DOMAIN Catalog THEN Catalog[c].keys ELSE {})
        BY <4>2 DEF KeysFrom
      <4> QED BY <3>1, <4>1, <4>3, <4>4, <4>5, <4>6
    <3>2. CASE l # c
      <4>1. specs'[l] = specs[l] /\ l \in DOMAIN specs
        BY <1>3, <3>2
      <4>2. Entries(l) \cap T = Entries(l) \cap S
        BY <3>2 DEF Entries, c
      <4> QED BY <1>2, <4>1, <4>2 DEF TakenFrom, KeysFrom
    <3> QED BY <3>1, <3>2
  <2>8. \A m \in T : Blank \notin {m} \cup File[m].keys
    BY <1>1, <1>2 DEF TakenFrom
  <2>6. (DOMAIN File \ todo)' = T
    BY <1>1, <1>2, InputStays
  <2>7. \A l : KeysFrom(l, DOMAIN File \ todo)' = KeysFrom(l, T)
    BY <2>6, InputStays DEF KeysFrom
  <2> HIDE DEF T
  <2> QED BY <2>1, <2>2, <2>3, <2>4, <2>5, <2>6, <2>7, <2>8, InputStays DEF TakenFrom
<1> QED BY <1>1, <1>4, <1>5, <1>6, InputStays DEF RegistryInv, Indexed

\* Without -lsp nothing is overridden.
LEMMA NothingChosen ==
  ASSUME RegistryInv, stage \in Parsed, override = NoWord
  PROVE  Overridden = {}
<1>1. flags.lsp = NoWord
  BY RegistryAssumption DEF RegistryInv, FlagsInv
<1> QED BY <1>1 DEF Overridden

LEMMA DiscoverStep ==
  ASSUME RegistryInv, RegistryNext, Discover
  PROVE  RegistryInv'
<1>1. /\ stage = "config" /\ todo = {} /\ owner' = Empty /\ todo' = DOMAIN specs
      /\ stage' = IF override = NoWord THEN "index" ELSE "override"
      /\ UNCHANGED <<flags, layout, config, override, specs>>
      /\ servers' = Over(servers, Discovered)
  BY DEF Discover, StartIndex, inputVars
<1>2. TakenFrom(DOMAIN File) /\ RegistryTypeOK
  <2>1. DOMAIN File \ todo = DOMAIN File
    BY <1>1
  <2> QED BY <1>1, <2>1 DEF RegistryInv
<1>3. DOMAIN Discovered = Available
  BY FoundOnPath DEF Discovered, Available
<1>4. /\ DOMAIN servers' = Configured \cup Available
      /\ \A l \in Configured : servers'[l] = servers[l]
      /\ \A l \in Available \ Configured :
           servers'[l].from = "discovery" /\ servers'[l].command # NoWord
  <2>1. DOMAIN servers = Configured
    BY <1>2 DEF TakenFrom, Configured
  <2>2. \A l \in Available : Discovered[l].from = "discovery" /\ Discovered[l].command # NoWord
    BY <1>3, FoundOnPath DEF Discovered
  <2>3. /\ DOMAIN servers' = DOMAIN servers \cup DOMAIN Discovered
        /\ \A l \in DOMAIN servers : servers'[l] = servers[l]
        /\ \A l \in DOMAIN Discovered \ DOMAIN servers : servers'[l] = Discovered[l]
    BY <1>1 DEF Over
  <2> QED BY <1>3, <2>1, <2>2, <2>3
<1>5. ASSUME NEW n \in DOMAIN File
      PROVE  servers'[CatalogName(n)].from = "config" /\ servers'[CatalogName(n)].command = File[n].command
  <2>1. servers'[CatalogName(n)] = servers[CatalogName(n)]
    BY <1>4 DEF Configured
  <2>2. servers[CatalogName(n)] = [from |-> "config", command |-> File[n].command]
    BY <1>2 DEF TakenFrom
  <2> QED BY <2>1, <2>2
<1>6. \A l \in Configured : servers'[l].from = "config"
  BY <1>5 DEF Configured
<1>7. DOMAIN specs = Declared /\ Chosen' = {}
  <2>1. DOMAIN specs = Declared
    BY <1>2 DEF TakenFrom, Declared
  <2> QED BY <1>1, <2>1, NothingChosen, InputStays DEF Chosen, Settled, Parsed
<1>8. RegistryTypeOK'
  <2>1. \A l \in DOMAIN servers' : l \in DOMAIN specs' /\ servers'[l].from \in Sources
    BY <1>1, <1>4, <1>6, <1>7 DEF Declared, Configured, Available, Sources
  <2> QED BY <1>1, <1>2, <2>1 DEF RegistryTypeOK, Empty
<1>9. FlagsInv' /\ InputInv' /\ RejectedIffContradictory'
  BY <1>1, InputStays DEF RegistryInv, FlagsInv, InputInv, RejectedIffContradictory, Parsed, Loaded
<1>10. IndexInv'
  <2>1. \A l \in DOMAIN specs' : specs'[l] \cup {l} = KeysOf(l)
    <3>1. \A l : KeysFrom(l, DOMAIN File) = KeysOf(l)
      <4>1. \A l : Entries(l) \cap DOMAIN File = Entries(l)
        BY DEF Entries
      <4> QED BY <4>1 DEF KeysFrom, KeysOf
    <3> QED BY <1>1, <1>2, <3>1 DEF TakenFrom
  <2>2. IndexedFor(DOMAIN specs \ todo)'
    BY <1>1 DEF IndexedFor, Empty
  <2>3. ServedFor(Chosen)'
    <3>1. \A n \in DOMAIN File : servers'[CatalogName(n)].command = File[n].command
      BY <1>5
    <3>2. \A l \in DOMAIN servers' : l \notin Configured => servers'[l].from = "discovery" /\ servers'[l].command # NoWord
      BY <1>4
    <3> QED BY <1>4, <1>6, <1>7, <3>1, <3>2, InputStays DEF ServedFor
  <2>4. /\ \A m, n \in DOMAIN File : CatalogName(m) = CatalogName(n) => m = n
        /\ \A n \in DOMAIN File : Blank \notin {n} \cup File[n].keys
    BY <1>2 DEF TakenFrom
  <2> QED BY <1>1, <1>7, <2>1, <2>2, <2>3, <2>4, InputStays DEF IndexInv
<1> QED BY <1>1, <1>8, <1>9, <1>10 DEF RegistryInv

LEMMA IndexStep ==
  ASSUME RegistryInv, RegistryNext, NEW l \in Names, Index(l)
  PROVE  RegistryInv'
<1>1. /\ stage \in {"override", "index"} /\ stage' = stage /\ l \in todo /\ todo' = todo \ {l}
      /\ \A k \in (specs[l] \cup {l}) \cap DOMAIN owner : owner[k] = l
      /\ owner' = Over([k \in specs[l] \cup {l} |-> l], owner)
      /\ UNCHANGED <<flags, layout, config, override, specs, servers>>
  BY DEF Index, inputVars
<1>2. IndexInv /\ RegistryTypeOK
  BY <1>1 DEF RegistryInv, Indexed
<1>3. l \in DOMAIN specs /\ specs[l] \cup {l} = KeysOf(l)
  BY <1>1, <1>2 DEF IndexInv
<1>4. /\ DOMAIN owner' = KeysOf(l) \cup DOMAIN owner
      /\ \A k \in KeysOf(l) : owner'[k] = l
      /\ \A k \in DOMAIN owner : owner'[k] = owner[k]
  BY <1>1, <1>3 DEF Over
<1>5. RegistryTypeOK'
  BY <1>1, <1>2, <1>3, <1>4 DEF RegistryTypeOK
<1>6. FlagsInv' /\ InputInv' /\ RejectedIffContradictory'
  BY <1>1, InputStays DEF RegistryInv, FlagsInv, InputInv, RejectedIffContradictory, Parsed, Loaded
<1>7. IndexedFor(DOMAIN specs \ todo)'
  <2>1. (DOMAIN specs \ todo)' = (DOMAIN specs \ todo) \cup {l}
    BY <1>1, <1>3
  <2>2. IndexedFor(DOMAIN specs \ todo)
    BY <1>2 DEF IndexInv
  <2>3. \A m \in DOMAIN specs \ todo : \A k \in KeysOf(m) : owner'[k] = m
    BY <1>4, <2>2 DEF IndexedFor
  <2>4. DOMAIN owner' = UNION {KeysOf(m) : m \in (DOMAIN specs \ todo) \cup {l}}
    BY <1>4, <2>2 DEF IndexedFor
  <2> QED BY <1>4, <2>1, <2>3, <2>4, InputStays DEF IndexedFor
<1>8. IndexInv'
  <2>1. ServedFor(Chosen)'
    <3>1. Chosen' = Chosen
      BY <1>1, InputStays DEF Chosen
    <3> QED BY <1>1, <1>2, <3>1, InputStays DEF IndexInv, ServedFor
  <2>2. Chosen' = Chosen
    BY <1>1, InputStays DEF Chosen
  <2> QED BY <1>1, <1>2, <1>7, <2>1, <2>2, InputStays DEF IndexInv
<1> QED BY <1>1, <1>5, <1>6, <1>8 DEF RegistryInv

\* Once all languages are indexed, the override's is found in the index, or new.
LEMMA OverriddenIs ==
  ASSUME RegistryInv, stage = "override", todo = {}
  PROVE  /\ flags.lsp # NoWord /\ override \in Names
         /\ override \in DOMAIN owner => owner[override] \in Declared /\ Overridden = {owner[override]}
         /\ override \notin DOMAIN owner => override \notin Declared /\ Overridden = {override}
<1>1. IndexInv /\ Chosen = {}
  BY DEF RegistryInv, Indexed, Chosen, Settled
<1>2. /\ flags.lsp # NoWord /\ override \in Names /\ Languages(flags) = {override}
  <2>1. override # NoWord
    BY <1>1 DEF IndexInv
  <2> QED BY <2>1 DEF RegistryInv, FlagsInv, Parsed
<1>3. /\ DOMAIN owner = UNION {KeysOf(l) : l \in Declared}
      /\ \A l \in Declared : \A k \in KeysOf(l) : owner[k] = l
  BY <1>1 DEF IndexInv, IndexedFor
<1>4. \A l : l \in KeysOf(l)
  BY DEF KeysOf
<1> DEFINE known == {l \in Declared : Languages(flags) \cap KeysOf(l) # {}}
<1>5. Overridden = IF known # {} THEN known ELSE {override}
  BY <1>2 DEF Overridden
<1>6. known = {l \in Declared : override \in KeysOf(l)}
  BY <1>2
<1> HIDE DEF known
<1>7. CASE override \in DOMAIN owner
  <2>1. known = {owner[override]}
    BY <1>3, <1>6, <1>7
  <2> QED BY <1>2, <1>5, <1>6, <1>7, <2>1
<1>8. CASE override \notin DOMAIN owner
  <2>1. known = {} /\ override \notin Declared
    BY <1>3, <1>4, <1>6, <1>8
  <2> QED BY <1>2, <1>5, <1>8, <2>1
<1> QED BY <1>7, <1>8

LEMMA OverrideStep ==
  ASSUME RegistryInv, RegistryNext, Override
  PROVE  RegistryInv'
<1> DEFINE L == IF override \in DOMAIN owner THEN owner[override] ELSE override
           server == [from |-> "cli", command |-> flags.lsp]
<1>1. /\ stage = "override" /\ todo = {} /\ stage' = "index" /\ owner' = Empty /\ todo' = DOMAIN specs'
      /\ UNCHANGED <<flags, layout, config, override>>
  BY DEF Override, StartIndex, inputVars
<1>2. IndexInv /\ RegistryTypeOK /\ Chosen = {}
  BY <1>1 DEF RegistryInv, Indexed, Chosen, Settled
<1>3. /\ Overridden = {L} /\ L \in Names
      /\ L \in Declared <=> override \in DOMAIN owner
      /\ flags.lsp # NoWord
  BY <1>1, <1>2, OverriddenIs DEF IndexInv, RegistryTypeOK
<1>4. CanonicalLanguage(override) = IF override \in DOMAIN owner THEN {owner[override]} ELSE {}
  BY <1>1, OverriddenIs DEF CanonicalLanguage
<1>5. servers' = With(servers, L, server)
  BY <1>4 DEF Override, Give
<1>6. IF L \in Declared THEN UNCHANGED specs ELSE specs' = With(specs, L, {})
  <2>1. CASE override \in DOMAIN owner
    BY <1>3, <1>4, <2>1 DEF Override
  <2>2. CASE override \notin DOMAIN owner
    <3>1. L \notin DOMAIN specs
      BY <1>2, <1>3, <2>2 DEF IndexInv
    <3>2. specs' = With(specs, L, {} \cup (IF L \in DOMAIN specs THEN specs[L] ELSE {}))
      BY <1>4, <2>2 DEF Override, AddSpec
    <3> QED BY <1>3, <2>2, <3>1, <3>2
  <2> QED BY <2>1, <2>2
<1> HIDE DEF L
<1>7. DOMAIN specs = Declared /\ \A l \in Declared : specs[l] \cup {l} = KeysOf(l)
  BY <1>2 DEF IndexInv
<1>8. DOMAIN specs' = Declared \cup {L} /\ \A l \in DOMAIN specs' : specs'[l] \cup {l} = KeysOf(l)
  <2>1. CASE L \in Declared
    BY <1>6, <1>7, <2>1
  <2>2. CASE L \notin Declared
    <3>1. KeysOf(L) = {L}
      BY <1>3, <2>2, NewLanguage
    <3> QED BY <1>6, <1>7, <2>2, <3>1 DEF With, Over
  <2> QED BY <2>1, <2>2
<1>9. /\ DOMAIN servers' = DOMAIN servers \cup {L}
      /\ servers'[L] = server
      /\ \A l \in DOMAIN servers \ {L} : servers'[l] = servers[l]
  BY <1>5 DEF With, Over
<1>10. servers'[L].from = "cli" /\ servers'[L].command # NoWord
  BY <1>3, <1>9
<1> HIDE DEF server
<1>11. ServedFor({})
  BY <1>2 DEF IndexInv
<1>12. ServedFor(Chosen)'
  <2>1. Chosen' = {L}
    BY <1>1, <1>3, InputStays DEF Chosen, Settled
  <2>2. DOMAIN servers' = {L} \cup Configured \cup Available
    BY <1>9, <1>11 DEF ServedFor
  <2>3. ASSUME NEW l \in DOMAIN servers'
        PROVE  /\ servers'[l].from = IF l \in {L} THEN "cli" ELSE IF l \in Configured THEN "config" ELSE "discovery"
               /\ l \in {L} \/ l \notin Configured => servers'[l].command # NoWord
    <3>1. CASE l = L
      BY <1>10, <3>1
    <3>2. CASE l # L
      BY <1>9, <1>11, <3>2 DEF ServedFor
    <3> QED BY <3>1, <3>2
  <2>4. ASSUME NEW n \in DOMAIN File, CatalogName(n) \notin {L}
        PROVE  servers'[CatalogName(n)].command = File[n].command
    <3>1. CatalogName(n) \in DOMAIN servers \ {L}
      BY <1>11, <2>4 DEF ServedFor, Configured
    <3> QED BY <1>9, <1>11, <3>1 DEF ServedFor
  <2> QED BY <2>1, <2>2, <2>3, <2>4, InputStays DEF ServedFor
<1>13. RegistryTypeOK'
  <2>1. \A l \in DOMAIN servers' : l \in DOMAIN specs'
    BY <1>2, <1>7, <1>8, <1>9 DEF RegistryTypeOK
  <2>2. \A l \in DOMAIN servers' : servers'[l].from \in Sources
    BY <1>2, <1>9, <1>10 DEF RegistryTypeOK, Sources
  <2> QED BY <1>1, <1>2, <1>3, <1>7, <1>8, <2>1, <2>2 DEF RegistryTypeOK, Empty
<1>14. FlagsInv' /\ InputInv' /\ RejectedIffContradictory'
  BY <1>1, InputStays DEF RegistryInv, FlagsInv, InputInv, RejectedIffContradictory, Parsed, Loaded
<1>15. IndexInv'
  <2>1. Chosen' = {L}
    BY <1>1, <1>3, InputStays DEF Chosen, Settled
  <2>2. IndexedFor(DOMAIN specs \ todo)'
    BY <1>1 DEF IndexedFor, Empty
  <2>3. /\ \A m, n \in DOMAIN File : CatalogName(m) = CatalogName(n) => m = n
        /\ \A n \in DOMAIN File : Blank \notin {n} \cup File[n].keys
    BY <1>2 DEF IndexInv
  <2> QED BY <1>1, <1>8, <1>12, <2>1, <2>2, <2>3, InputStays DEF IndexInv
<1> QED BY <1>1, <1>13, <1>14, <1>15 DEF RegistryInv

\* A config that has been gone through to the end does not contradict itself.
LEMMA NotContradictory ==
  ASSUME RegistryInv, stage \in Settled, todo = {}, \A l \in DOMAIN servers : servers[l].command # NoWord
  PROVE  ~Contradictory
<1>1. IndexInv /\ Chosen = Overridden
  BY DEF RegistryInv, Indexed, Settled, Chosen
<1>2. IndexedFor(Declared \cup Overridden) /\ ServedFor(Overridden)
  BY <1>1 DEF IndexInv
<1>3. \A l \in Declared : \A m, n \in Entries(l) : m = n
  BY <1>1 DEF IndexInv, Entries
<1>4. \A l, m \in Declared : l # m => KeysOf(l) \cap KeysOf(m) = {}
  BY <1>2 DEF IndexedFor
<1>5. ASSUME NEW n \in DOMAIN File, CatalogName(n) \notin Overridden
      PROVE  File[n].command # NoWord
  <2>1. CatalogName(n) \in DOMAIN servers
    BY <1>2 DEF ServedFor, Configured
  <2> QED BY <1>2, <1>5, <2>1 DEF ServedFor
<1>6. \A n \in DOMAIN File : Blank \notin {n} \cup File[n].keys
  BY <1>1 DEF IndexInv
<1> QED BY <1>3, <1>4, <1>5, <1>6 DEF Contradictory

LEMMA ActivateStep ==
  ASSUME RegistryInv, RegistryNext, Activate
  PROVE  RegistryInv'
<1>1. /\ stage = "index" /\ stage' = "ready" /\ todo = {}
      /\ \A l \in DOMAIN servers : servers[l].command # NoWord
      /\ UNCHANGED <<flags, layout, config, override, todo, specs, owner, servers>>
  BY DEF Activate, inputVars
<1>2. RegistryTypeOK'
  BY <1>1 DEF RegistryInv, RegistryTypeOK
<1>3. FlagsInv' /\ InputInv'
  BY <1>1, InputStays DEF RegistryInv, FlagsInv, InputInv, Parsed, Loaded
<1>4. RejectedIffContradictory'
  <2>1. ~Unusable /\ File # Broken
    BY <1>1 DEF RegistryInv, FlagsInv, Parsed, Loaded
  <2>2. ~Contradictory
    BY <1>1, NotContradictory DEF Settled
  <2> QED BY <1>1, <2>1, <2>2, InputStays DEF RejectedIffContradictory
<1>5. IndexInv'
  <2>1. IndexInv /\ Chosen' = Chosen
    BY <1>1, InputStays DEF RegistryInv, Indexed, Chosen, Settled
  <2>2. ServedFor(Chosen)'
    BY <1>1, <2>1, InputStays DEF IndexInv, ServedFor
  <2>3. IndexedFor(DOMAIN specs \ todo)'
    BY <1>1, <2>1, InputStays DEF IndexInv, IndexedFor
  <2> QED BY <1>1, <2>1, <2>2, <2>3, InputStays DEF IndexInv
<1> QED BY <1>1, <1>2, <1>3, <1>4, <1>5 DEF RegistryInv

\* The config file cannot be used.
LEMMA BrokenFile == ASSUME RejectConfig PROVE File = Broken
  BY FileInUse, RegistryAssumption DEF RejectConfig, Named

\* A blank entry, or a second one for a language.
LEMMA WrongEntry ==
  ASSUME RegistryInv, NEW n \in Names \cup {Blank}, RejectEntry(n)
  PROVE  Contradictory
<1>1. /\ TakenFrom(DOMAIN File \ todo) /\ todo \subseteq DOMAIN File /\ n \in todo
      /\ Blank \in {n} \cup File[n].keys \/ CatalogName(n) \in DOMAIN servers
  BY DEF RejectEntry, BlankIn, RegistryInv, FlagsInv, Loaded
<1>2. CASE Blank \in {n} \cup File[n].keys
  BY <1>1, <1>2 DEF Contradictory
<1>3. CASE CatalogName(n) \in DOMAIN servers
  <2>1. PICK m \in DOMAIN File \ todo : CatalogName(m) = CatalogName(n)
    BY <1>1, <1>3 DEF TakenFrom
  <2> QED BY <1>1, <2>1 DEF Contradictory, Declared, Entries
<1> QED BY <1>1, <1>2, <1>3

\* A key another language has.
LEMMA SharedKey ==
  ASSUME RegistryInv, NEW l \in Names, RejectKey(l)
  PROVE  Contradictory
<1>1. stage \in {"override", "index"} /\ l \in todo
  BY DEF RejectKey
<1>2. PICK k \in (specs[l] \cup {l}) \cap DOMAIN owner : owner[k] # l
  BY DEF RejectKey
<1>3. IndexInv
  BY <1>1 DEF RegistryInv, Indexed
<1>4. l \in DOMAIN specs /\ k \in KeysOf(l)
  BY <1>1, <1>2, <1>3 DEF IndexInv
<1>5. PICK m \in DOMAIN specs \ todo : k \in KeysOf(m)
  BY <1>2, <1>3 DEF IndexInv, IndexedFor
<1>6. l # m /\ {l, m} \subseteq Declared \cup Overridden
  BY <1>1, <1>3, <1>4, <1>5 DEF IndexInv, Chosen
<1>7. {l, m} \subseteq Declared
  <2>1. ASSUME NEW x \in Overridden \ Declared, NEW y \in Declared \cup Overridden, x # y,
               k \in KeysOf(x), k \in KeysOf(y)
        PROVE  FALSE
    <3>1. flags.lsp # NoWord /\ Overridden = Languages(flags)
      BY NewLanguage
    <3>2. Overridden = {override}
      BY <1>1, <3>1 DEF RegistryInv, FlagsInv, Parsed
    <3>3. y \in Declared
      BY <2>1, <3>2
    <3> QED BY <2>1, <3>3, NewLanguage
  <2> QED BY <1>4, <1>5, <1>6, <2>1
<1> QED BY <1>4, <1>5, <1>6, <1>7 DEF Contradictory

\* A server without a command.
LEMMA NoCommand ==
  ASSUME RegistryInv, RejectServer
  PROVE  Contradictory
<1>1. stage = "index"
  BY DEF RejectServer
<1>2. ServedFor(Overridden)
  BY <1>1 DEF RegistryInv, Indexed, IndexInv, Chosen, Settled
<1>3. PICK l \in DOMAIN servers : servers[l].command = NoWord
  BY DEF RejectServer
<1>4. l \notin Overridden /\ l \in Configured
  BY <1>2, <1>3 DEF ServedFor
<1>5. PICK n \in DOMAIN File : CatalogName(n) = l
  BY <1>4 DEF Configured
<1>6. File[n].command = NoWord
  BY <1>2, <1>3, <1>4, <1>5 DEF ServedFor
<1> QED BY <1>4, <1>5, <1>6 DEF Contradictory

LEMMA RegistryInvNext == RegistryInv /\ [RegistryNext]_registryVars => RegistryInv'
<1> SUFFICES ASSUME RegistryInv, [RegistryNext]_registryVars PROVE RegistryInv'
  OBVIOUS
<1>1. CASE UNCHANGED registryVars
  <2> USE <1>1 DEF registryVars, inputVars
  <2>1. RegistryTypeOK' /\ InputInv' /\ BuiltIn' = BuiltIn
    BY DEF RegistryInv, RegistryTypeOK, InputInv, BuiltIn
  <2>2. RejectedIffContradictory' /\ FlagsInv'
    BY InputStays DEF RegistryInv, RejectedIffContradictory, FlagsInv
  <2>3. TakenFrom(DOMAIN File \ todo)' = TakenFrom(DOMAIN File \ todo)
    BY DEF TakenFrom, KeysFrom, Entries, File
  <2>4. IndexInv' = IndexInv
    BY DEF IndexInv, IndexedFor, ServedFor, Chosen, Overridden, Declared, Configured, Available, KeysOf, Entries, File
  <2> QED BY <2>1, <2>2, <2>3, <2>4, InputStays DEF RegistryInv
<1>2. CASE RegistryNext
  <2>1. CASE ParseCLI
    BY <1>2, <2>1, ParseStep
  <2>2. CASE RejectCLI
    <3>1. Unusable /\ Reject
      BY <2>2 DEF RejectCLI, Unusable
    <3> QED BY <1>2, <3>1, RejectStep
  <2>3. CASE ReadConfig
    BY <1>2, <2>3, ReadStep
  <2>4. CASE RejectConfig
    BY <1>2, <2>4, BrokenFile, RejectStep DEF RejectConfig
  <2>5. ASSUME NEW n \in Names \cup {Blank}, TakeEntry(n) PROVE RegistryInv'
    BY <1>2, <2>5, TakeStep
  <2>6. ASSUME NEW n \in Names \cup {Blank}, RejectEntry(n) PROVE RegistryInv'
    BY <1>2, <2>6, WrongEntry, RejectStep DEF RejectEntry
  <2>7. ASSUME NEW n \in Names, Index(n) PROVE RegistryInv'
    BY <1>2, <2>7, IndexStep
  <2>8. ASSUME NEW n \in Names, RejectKey(n) PROVE RegistryInv'
    BY <1>2, <2>8, SharedKey, RejectStep DEF RejectKey
  <2>9. CASE Discover
    BY <1>2, <2>9, DiscoverStep
  <2>10. CASE Override
    BY <1>2, <2>10, OverrideStep
  <2>11. CASE Activate
    BY <1>2, <2>11, ActivateStep
  <2>12. CASE RejectServer
    BY <1>2, <2>12, NoCommand, RejectStep DEF RejectServer
  <2> QED
    BY <1>2, <2>1, <2>2, <2>3, <2>4, <2>5, <2>6, <2>7, <2>8, <2>9, <2>10, <2>11, <2>12 DEF RegistryNext
<1> QED BY <1>1, <1>2

LEMMA RegistryInvAlways == RegistrySpec => []RegistryInv
  BY RegistryInvInit, RegistryInvNext, PTL DEF RegistrySpec

\* Every variable keeps its type; owners and servers have specs (registry.go:66-87).
THEOREM RegistryTypeOKHolds == RegistrySpec => []RegistryTypeOK
<1>1. RegistryInv => RegistryTypeOK
  BY DEF RegistryInv
<1> QED BY <1>1, RegistryInvAlways, PTL

\* Whether the program starts depends on the flags and the config file in use, not on
\* the order in which its maps are gone through, for any catalog and config.
THEOREM RejectedIffContradictoryHolds == RegistrySpec => []RejectedIffContradictory
<1>1. RegistryInv => RejectedIffContradictory
  BY DEF RegistryInv
<1> QED BY <1>1, RegistryInvAlways, PTL

\* -lsp comes before the config file and that before discovery, language by language
\* (README.md:15-22).
THEOREM PrecedenceHolds == RegistrySpec => []Precedence
<1>1. ASSUME RegistryInv PROVE Precedence
  <2>1. CASE stage # "ready"
    BY <2>1 DEF Precedence
  <2>2. CASE stage = "ready"
    <3>1. ServedFor(Overridden)
      BY <1>1, <2>2 DEF RegistryInv, Indexed, IndexInv, Chosen, Settled
    <3> QED BY <2>2, <3>1 DEF ServedFor, Precedence, Configured, Available
  <2> QED BY <2>1, <2>2
<1> QED BY <1>1, RegistryInvAlways, PTL

\* The key that only the flags declare is a name.
LEMMA DeclaredKey ==
  ASSUME RegistryInv, stage = "ready", NEW k, k \notin Names
  PROVE  k \in DOMAIN owner <=> \E l \in Declared : k \in KeysOf(l)
<1>1. IndexedFor(Declared \cup Overridden)
  BY DEF RegistryInv, Indexed, IndexInv, Chosen, Settled
<1>2. ASSUME NEW l \in Overridden \ Declared PROVE k \notin KeysOf(l)
  <2>1. flags.lsp # NoWord /\ Overridden = Languages(flags) /\ KeysOf(l) = {l}
    BY NewLanguage
  <2>2. Languages(flags) = {override} /\ override \in Names
    BY <2>1 DEF RegistryInv, FlagsInv, Parsed
  <2> QED BY <2>1, <2>2
<1> QED BY <1>1, <1>2 DEF IndexedFor

\* A tool call ends up at the one active server of the language that declares the
\* name, extension or shebang it gives (language_resolver.go:44-109).
THEOREM ResolvesToDeclaredHolds == RegistrySpec => []ResolvesToDeclared
<1>1. ASSUME RegistryInv, stage = "ready" PROVE ResolvesToDeclared
  <2> DEFINE serving(k) == {l \in DOMAIN servers : k \in KeysOf(l)}
             declared(k) == \E l \in Declared : k \in KeysOf(l)
             longest(line) == SelectInSeq(Shebangs, LAMBDA b : b \in line /\ declared(b))
             match(line) == SelectInSeq(Shebangs, LAMBDA b : b \in line \cap DOMAIN owner)
  <2>1. /\ IndexedFor(Declared \cup Overridden)
        /\ DOMAIN servers \subseteq Declared \cup Overridden
    BY <1>1 DEF RegistryInv, Indexed, IndexInv, Chosen, Settled, RegistryTypeOK
  <2>2. /\ \A k \in DOMAIN owner : {owner[k]} \cap DOMAIN servers = serving(k)
        /\ \A k : k \notin DOMAIN owner => serving(k) = {}
    BY <2>1 DEF IndexedFor
  <2>3. ASSUME NEW n \in Names PROVE n # NoWord /\ ResolveConfigured(n) = serving(n)
    <3>1. n # NoWord
      BY RegistryAssumption
    <3>2. CanonicalLanguage(n) = IF n \in DOMAIN owner THEN {owner[n]} ELSE {}
      BY DEF CanonicalLanguage
    <3> QED BY <2>2, <3>1, <3>2 DEF ResolveConfigured
  <2>4. ASSUME NEW e \in Extensions PROVE e \in DOMAIN owner <=> declared(e)
    <3>1. e \notin Names
      BY RegistryAssumption
    <3> QED BY <1>1, <3>1, DeclaredKey
  <2>5. DOMAIN Shebangs = 1..Len(Shebangs) /\ Len(Shebangs) \in Nat
    BY RegistryAssumption
  <2>6. ASSUME NEW i \in 1..Len(Shebangs) PROVE Shebangs[i] \in DOMAIN owner <=> declared(Shebangs[i])
    <3>1. Shebangs[i] \notin Names
      BY <2>5, RegistryAssumption DEF Range
    <3> QED BY <1>1, <3>1, DeclaredKey
  <2>7. ASSUME NEW line PROVE match(line) = longest(line) /\ (match(line) # 0 => Shebangs[match(line)] \in DOMAIN owner)
    <3> DEFINE I == {i \in 1..Len(Shebangs) : Shebangs[i] \in line \cap DOMAIN owner}
               J == {i \in 1..Len(Shebangs) : Shebangs[i] \in line /\ declared(Shebangs[i])}
    <3>1. I = J
      BY <2>6
    <3>2. match(line) = IF I # {} THEN Min(I) ELSE 0
      BY DEF SelectInSeq
    <3>3. longest(line) = IF J # {} THEN Min(J) ELSE 0
      BY DEF SelectInSeq
    <3>4. I \in SUBSET Nat
      BY <2>5
    <3>5. I # {} => Min(I) \in I
      <4> HIDE DEF I
      <4> QED BY <3>4, MinIsIn
    <3>6. \A i \in I : Shebangs[i] \in DOMAIN owner
      OBVIOUS
    <3> HIDE DEF I, J, match, longest
    <3> QED BY <3>1, <3>2, <3>3, <3>5, <3>6
  <2>8. ASSUME NEW e \in Extensions, NEW line
        PROVE  ResolveFileLanguage(e, line, NoWord) =
                 IF declared(e) THEN serving(e)
                 ELSE IF longest(line) # 0 THEN serving(Shebangs[longest(line)]) ELSE {}
    <3>1. LanguageForFile(e, line) = IF e \in DOMAIN owner THEN {owner[e]}
                                     ELSE IF match(line) # 0 THEN {owner[Shebangs[match(line)]]} ELSE {}
      BY DEF LanguageForFile
    <3>2. ResolveFileLanguage(e, line, NoWord) = LanguageForFile(e, line) \cap DOMAIN servers
      BY DEF ResolveFileLanguage
    <3> HIDE DEF serving, declared, longest, match
    <3> QED BY <2>2, <2>4, <2>7, <3>1, <3>2
  <2>9. \A n \in Names : ResolveToolLanguage(n) = serving(n)
    BY <2>3 DEF ResolveToolLanguage
  <2>10. \A n \in Names, e \in Extensions : ResolveFileLanguage(e, {}, n) = serving(n)
    BY <2>3 DEF ResolveFileLanguage
  <2>11. ResolveToolLanguage(NoWord) # {} => \A n \in Names : serving(n) \subseteq ResolveToolLanguage(NoWord)
    BY DEF ResolveToolLanguage
  <2> QED BY <2>8, <2>9, <2>10, <2>11 DEF ResolvesToDeclared
<1>2. RegistryInv => ResolvesToDeclared
  BY <1>1 DEF ResolvesToDeclared
<1> QED BY <1>2, RegistryInvAlways, PTL
===============================================================================

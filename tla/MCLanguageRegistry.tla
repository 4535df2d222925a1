-------------------------- MODULE MCLanguageRegistry --------------------------
(* LanguageRegistry for TLC: two of the three built-in languages, and every *)
(* config of at most two entries over names that are built-in, aliases of   *)
(* built-in languages, aliases the config itself introduces, or new.        *)
EXTENDS LanguageRegistry, FiniteSetsExt

MCCatalog ==
  ("python" :> [keys |-> {"py", "pyright", ".py", "#!python"},
                commands |-> <<"basedpyright-langserver", "pyright-langserver">>])
  @@ ("go" :> [keys |-> {".go"}, commands |-> <<"gopls">>])

MCNames == {"python", "py", "pyright", "go", "elixir", "ex"}
MCExtensions == {".py", ".go", ".ex"}
MCShebangs == <<"#!python3", "#!python">>

MCEntries ==
  {[keys |-> {".ex"}, command |-> "server"], [keys |-> {"ex", ".ex"}, command |-> "server"],
   [keys |-> {".py", "#!python3"}, command |-> "server"], [keys |-> {"py"}, command |-> NoWord],
   [keys |-> {"ex", "#!python3"}, command |-> NoWord]}

MCConfigs == UNION {[s -> MCEntries] : s \in UNION {kSubset(k, MCNames) : k \in 0..2}}

\* Configs with a blank language, or a blank alias, extension or shebang.
MCBlank ==
  {Blank :> e @@ "go" :> f : e \in MCEntries, f \in MCEntries}
  \cup {"go" :> [keys |-> {Blank}, command |-> "server"] @@ n :> e : n \in {"py", "ex"}, e \in MCEntries}

Nowhere == [flag |-> Unset, workspace |-> Unset, environment |-> Unset, home |-> Unset]
Small == "elixir" :> [keys |-> {"ex"}, command |-> "server"]
Other == "go" :> [keys |-> {".ex"}, command |-> "server"]

\* Any config in the workspace; otherwise a small file, nothing or a broken one
\* in each place.
MCLayouts ==
  {[Nowhere EXCEPT !.workspace = c] : c \in MCConfigs \cup MCBlank}
  \cup {[flag |-> f, workspace |-> w, environment |-> e, home |-> h] :
          f \in {Unset, Broken, Small}, w \in {Unset, Broken, Other},
          e \in {Unset, Broken, Small}, h \in {Unset, Broken, Other}}

Flag(lsp, language, args) == [lsp |-> lsp, language |-> language, args |-> args]

MCCommandLines ==
  {Flag(NoWord, NoWord, FALSE), Flag("server", "py", FALSE), Flag("server", "elixir", TRUE),
   Flag("server", "ex", FALSE), Flag("gopls", NoWord, TRUE), Flag(NoWord, "go", FALSE),
   Flag("server", NoWord, FALSE), Flag(NoWord, NoWord, TRUE), Flag(Blank, "go", FALSE),
   Flag("gopls", Blank, FALSE)}
=============================================================================

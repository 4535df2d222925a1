----------------------------- MODULE MCEditApply -----------------------------
(* EditApply for TLC: two paths; requests of one or two changes, with two   *)
(* edits to each file and every combination of flags on one rename.         *)
EXTENDS EditApply, TLC

CONSTANTS p, q, t1, t2, t3, v1, v2

MCPaths == {p, q}
MCUriOrder == <<Elsewhere, Foreign, p, q>>
MCTags == {t1, t2, t3}
MCVersions == {v1, v2}

Yes == "true"
No == "false"
Text(path, tags) == TextChange(path, tags, NoVersion)
Versioned(path, tags) == TextChange(path, tags, v1)
Create(path, options) == WireOperation("create", path, path, options)
Rename(path, to, options) == WireOperation("rename", path, to, options)
Delete(path, options) == WireOperation("delete", path, path, options)

MCFirst ==
  {Text(p, {t1, t2}), Create(p, Options(Yes, "unset")), Delete(q, Options(Yes, No)),
   Rename(p, q, Options(Yes, Yes)), Rename(p, q, NoOptions)}

MCSecond ==
  {Text(q, {t3}), Create(p, Options("unset", Yes)), Create(p, NoOptions), Delete(q, Options("unset", Yes))}
  \cup {Rename(p, q, Options(f, i)) : f \in {"unset", Yes}, i \in Flags}

\* Refused, or without effect.
MCOdd ==
  {Text(Elsewhere, {t3}), Versioned(q, {t3}), Versioned(Elsewhere, {}),
   Rename(q, Elsewhere, Options(Yes, "unset")), Rename(p, p, Options(Yes, "unset")), Rename(p, p, NoOptions),
   Rename(p, Foreign, Options(Yes, Yes)), Unsupported}

NoMap == [u \in {} |-> {}]
Payload(edits, list, allow, current) ==
  [edits |-> edits, list |-> list, allow |-> allow, current |-> current]

\* A list, edits of both files in the map and of one in the map and the list, and
\* versions that are not the current ones, are, or are not known.
MCPayloads ==
       {Payload(NoMap, <<c, d>>, Kinds, Unchecked) : c \in MCFirst, d \in MCSecond}
  \cup {Payload(NoMap, <<Text(p, {t1, t2}), c>>, Kinds, q :> v2) : c \in MCOdd}
  \cup {Payload(NoMap, <<c>>, {}, Unchecked) : c \in MCFirst}
  \cup {Payload(NoMap, <<Versioned(p, {t1, t2})>>, {}, current) : current \in {p :> v1, q :> v1}}
  \cup {Payload(p :> {t1, t2} @@ q :> {t3}, <<>>, {}, p :> v1),
        Payload(q :> {t3}, <<Rename(q, p, NoOptions)>>, Kinds, Unchecked),
        Payload(p :> {t1, t2} @@ Foreign :> {t3}, <<>>, Kinds, Unchecked)}

Interchangeable == Permutations(Appliers)
=============================================================================

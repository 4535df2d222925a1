---------------------------- MODULE ApplyPolicy ----------------------------
(***************************************************************************)
(* workspace/applyEdit during workspace/executeCommand: Commands.Execute   *)
(* (pkg/lsp/command.go) opens the policy of the session's one client for   *)
(* the time of the request if the caller opted in; ApplyEdit               *)
(* (pkg/lsp/client.go) reads the policy under applyMu and applies the edit *)
(* after releasing it.  The options of every opening are the same (the     *)
(* workspace root), so the policy is a flag.                               *)
(*                                                                         *)
(* The server asks for edits on behalf of a command it executes; the       *)
(* client cannot tell for which.                                           *)
(***************************************************************************)
EXTENDS Naturals, FiniteSets

CONSTANTS
  Calls,     \* lsp_execute_command calls
  OptIns,    \* those with applyEdits
  EditIds,   \* bound: edits a command asks for
  MaxAsks    \* bound: edits asked for in all

ASSUME PolicyAssumption == OptIns \subseteq Calls /\ MaxAsks \in Nat

VARIABLES
  enabled,    \* applyPolicy.enabled
  pc,         \* where a call stands
  executing,  \* commands the server executes
  edit,       \* what has become of each edit
  inTime,     \* edits answered while the call they were asked for was executing
  disturbed   \* calls under way while another was, or while its command ran on

policyVars == <<enabled, pc, executing, edit, inTime, disturbed>>

Edits == Calls \X EditIds
For(e) == e[1]

Open(c) == pc[c] \in {"opened", "sent", "answered"}

PolicyTypeOK ==
  /\ enabled \in BOOLEAN
  /\ pc \in [Calls -> {"idle", "opened", "sent", "answered", "done"}]
  /\ executing \in SUBSET Calls
  /\ edit \in [Edits -> {"none", "asked", "admitted", "applied", "failed", "refused"}]
  /\ inTime \in SUBSET Edits
  /\ disturbed \in SUBSET Calls
  /\ \A c \in Calls \ OptIns : pc[c] # "opened"

PolicyInit ==
  /\ enabled = FALSE
  /\ pc = [c \in Calls |-> "idle"]
  /\ executing = {}
  /\ edit = [e \in Edits |-> "none"]
  /\ inTime = {}
  /\ disturbed = {}

-----------------------------------------------------------------------------
\* c begins: it and those that are still under way disturb each other.
Begin(c) ==
  LET others == {d \in Calls \ {c} : Open(d) \/ d \in executing}
  IN disturbed' = disturbed \cup others \cup {d \in {c} : others # {}}

\* There is no session, or it does not advertise the command: nothing is opened.
RefuseCommand(c) ==
  /\ pc[c] = "idle"
  /\ pc' = [pc EXCEPT ![c] = "done"]
  /\ UNCHANGED <<enabled, executing, edit, inTime, disturbed>>

\* withApplyEditPolicy opens the policy, whoever else has.
OpenPolicy(c) ==
  /\ pc[c] = "idle"
  /\ c \in OptIns
  /\ enabled' = TRUE
  /\ pc' = [pc EXCEPT ![c] = "opened"]
  /\ Begin(c)
  /\ UNCHANGED <<executing, edit, inTime>>

\* workspace/executeCommand is sent.
SendCommand(c) ==
  /\ IF c \in OptIns THEN pc[c] = "opened" /\ UNCHANGED disturbed
                    ELSE pc[c] = "idle" /\ Begin(c)
  /\ pc' = [pc EXCEPT ![c] = "sent"]
  /\ executing' = executing \cup {c}
  /\ UNCHANGED <<enabled, edit, inTime>>

\* The server asks for an edit while it executes the command.
AskEdit(e) ==
  /\ For(e) \in executing
  /\ edit[e] = "none"
  /\ Cardinality({f \in Edits : edit[f] # "none"}) < MaxAsks
  /\ edit' = [edit EXCEPT ![e] = "asked"]
  /\ UNCHANGED <<enabled, pc, executing, inTime, disturbed>>

\* (mutant) The policy is not consulted.
AdmitAlways(e) ==
  /\ edit[e] = "asked"
  /\ edit' = [edit EXCEPT ![e] = "admitted"]
  /\ UNCHANGED <<enabled, pc, executing, inTime, disturbed>>

\* (mutant) The policy is good for one edit.
AdmitOnce(e) ==
  /\ edit[e] = "asked"
  /\ enabled
  /\ enabled' = FALSE
  /\ edit' = [edit EXCEPT ![e] = "admitted"]
  /\ UNCHANGED <<pc, executing, inTime, disturbed>>

\* ApplyEdit of an edit that decodes: the policy, under applyMu, lets it pass ...
Admit(e) ==
  /\ edit[e] = "asked"
  /\ enabled
  /\ edit' = [edit EXCEPT ![e] = "admitted"]
  /\ UNCHANGED <<enabled, pc, executing, inTime, disturbed>>

InTime(e) == inTime' = IF pc[For(e)] = "sent" THEN inTime \cup {e} ELSE inTime

\* ... or does not ...
Refuse(e) ==
  /\ edit[e] = "asked"
  /\ ~enabled
  /\ edit' = [edit EXCEPT ![e] = "refused"]
  /\ InTime(e)
  /\ UNCHANGED <<enabled, pc, executing, disturbed>>

\* ... an edit that does not decode fails before it is consulted, and
\* ApplyWorkspaceEdit may fail after.
Fail(e) ==
  /\ edit[e] \in {"asked", "admitted"}
  /\ edit' = [edit EXCEPT ![e] = "failed"]
  /\ InTime(e)
  /\ UNCHANGED <<enabled, pc, executing, disturbed>>

\* ApplyWorkspaceEdit changes files, without applyMu.
Apply(e) ==
  /\ edit[e] = "admitted"
  /\ edit' = [edit EXCEPT ![e] = "applied"]
  /\ InTime(e)
  /\ UNCHANGED <<enabled, pc, executing, disturbed>>

\* The server answers the command, when its own edits are answered ...
Answer(c) ==
  /\ c \in executing
  /\ \A e \in Edits : For(e) = c => edit[e] \notin {"asked", "admitted"}
  /\ executing' = executing \ {c}
  /\ pc' = [pc EXCEPT ![c] = IF @ = "sent" THEN "answered" ELSE @]
  /\ UNCHANGED <<enabled, edit, inTime, disturbed>>

\* ... or the request fails or times out, and the server goes on.
TimeOut(c) ==
  /\ pc[c] = "sent"
  /\ pc' = [pc EXCEPT ![c] = "answered"]
  /\ UNCHANGED <<enabled, executing, edit, inTime, disturbed>>

\* (mutant) The policy is closed when the request succeeds only.
CloseUnlessTimedOut(c) ==
  /\ pc[c] = "answered"
  /\ enabled' = (enabled /\ (c \notin OptIns \/ c \in executing))
  /\ pc' = [pc EXCEPT ![c] = "done"]
  /\ UNCHANGED <<executing, edit, inTime, disturbed>>

\* Execute returns; the deferred setApplyPolicy closes the policy for all.
ClosePolicy(c) ==
  /\ pc[c] = "answered"
  /\ enabled' = (enabled /\ c \notin OptIns)
  /\ pc' = [pc EXCEPT ![c] = "done"]
  /\ UNCHANGED <<executing, edit, inTime, disturbed>>

-----------------------------------------------------------------------------
PolicyNext ==
  \/ \E c \in Calls : RefuseCommand(c) \/ OpenPolicy(c) \/ SendCommand(c) \/ Answer(c) \/ TimeOut(c) \/ ClosePolicy(c)
  \/ \E e \in Edits : AskEdit(e) \/ Admit(e) \/ Refuse(e) \/ Fail(e) \/ Apply(e)

PolicySpec == PolicyInit /\ [][PolicyNext]_policyVars

-----------------------------------------------------------------------------
\* The policy is open only while a call that opted in is under way: whichever
\* order overlapping calls open and close it, and however their requests end,
\* it does not stay open behind them (client.go:118-122).
ClosedBehind == enabled => \E c \in OptIns : Open(c)

\* "may mutate files when applyEdits is true" (pkg/mcp/server.go:125): only edits
\* of commands whose call opted in are applied.
OnlyOptedIn == \A e \in Edits : edit[e] = "applied" => For(e) \in OptIns

\* The same for calls that no other call overlaps.
AloneOnlyOptedIn ==
  \A e \in Edits : edit[e] = "applied" /\ For(e) \notin disturbed => For(e) \in OptIns

\* "allow server-initiated workspace/applyEdit during command execution"
\* (pkg/mcp/command.go:42): an edit asked for and answered while its call, which
\* opted in and which no other call overlaps, is executing is not refused by the
\* policy.
AloneAllowed ==
  \A e \in inTime : For(e) \in OptIns \ disturbed => edit[e] # "refused"

=============================================================================

-------------------------- MODULE LanguageService --------------------------
(***************************************************************************)
(* What Manager.session promises its callers, without goroutines, locks,   *)
(* channels or processes: per language one server in service, started once *)
(* and only on demand; a call is given a server that came up; a server is  *)
(* replaced only when it failed or was lost, or after a stop.              *)
(* SessionManager implements it (SessionManager!Service).                  *)
(***************************************************************************)
CONSTANTS Callers, Servers, Languages, NoServer

VARIABLES
  state,     \* of each server
  serving,   \* the server in service for each language
  waits,     \* the server a call waits for or uses
  given      \* the call has been given that server

vars == <<state, serving, waits, given>>

Init ==
  /\ state = [s \in Servers |-> "absent"]
  /\ serving = [l \in Languages |-> NoServer]
  /\ waits = [c \in Callers |-> NoServer]
  /\ given = [c \in Callers |-> FALSE]

\* A call finds the server in service ...
Join(c, l) ==
  /\ waits[c] = NoServer
  /\ serving[l] # NoServer
  /\ state[serving[l]] \in {"asked", "starting", "up"}
  /\ waits' = [waits EXCEPT ![c] = serving[l]]
  /\ UNCHANGED <<state, serving, given>>

\* ... or puts a new one in place of one that is gone.
Replace(c, l, s) ==
  /\ waits[c] = NoServer
  /\ serving[l] # NoServer => state[serving[l]] \in {"failed", "lost"}
  /\ state[s] = "absent"
  /\ state' = [state EXCEPT ![s] = "asked"]
  /\ serving' = [serving EXCEPT ![l] = s]
  /\ waits' = [waits EXCEPT ![c] = s]
  /\ UNCHANGED given

\* The life of a server: started once, it comes up or fails, once up it can be lost.
Change(s, from, to) ==
  /\ state[s] = from
  /\ state' = [state EXCEPT ![s] = to]
  /\ UNCHANGED <<serving, waits, given>>

Live(s) ==
  \/ Change(s, "asked", "starting")
  \/ Change(s, "starting", "up")
  \/ Change(s, "starting", "failed")
  \/ Change(s, "up", "lost")

\* The call is given the server it waited for.
Give(c) ==
  /\ waits[c] # NoServer
  /\ state[waits[c]] \in {"up", "lost"}
  /\ given' = [given EXCEPT ![c] = TRUE]
  /\ UNCHANGED <<state, serving, waits>>

\* The call is over: given up, failed, or done with its server.
Leave(c) ==
  /\ waits' = [waits EXCEPT ![c] = NoServer]
  /\ given' = [given EXCEPT ![c] = FALSE]
  /\ UNCHANGED <<state, serving>>

\* Nothing is in service any more.
Stop ==
  /\ serving' = [l \in Languages |-> NoServer]
  /\ UNCHANGED <<state, waits, given>>

Next ==
  \/ \E c \in Callers, l \in Languages : Join(c, l) \/ \E s \in Servers : Replace(c, l, s)
  \/ \E s \in Servers : Live(s)
  \/ \E c \in Callers : Give(c) \/ Leave(c)
  \/ Stop

Spec == Init /\ [][Next]_vars
=============================================================================

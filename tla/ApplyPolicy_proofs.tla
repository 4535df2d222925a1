------------------------- MODULE ApplyPolicy_proofs -------------------------
(***************************************************************************)
(* Proofs about ApplyPolicy, for any number of calls and edits: the policy *)
(* does not stay open, and it is right for a call that no other overlaps.  *)
(* What makes the second inductive is that of two calls that are live at   *)
(* once both are disturbed, and that an edit which is not answered yet     *)
(* belongs to a live call.                                                 *)
(***************************************************************************)
EXTENDS ApplyPolicy, TLAPS

\* Under way, or returned while its command runs on.
Live(c) == Open(c) \/ c \in executing

Overlap == \A c, d \in Calls : c # d /\ Live(c) /\ Live(d) => c \in disturbed
UnansweredRuns == \A e \in Edits : edit[e] \in {"asked", "admitted"} => For(e) \in executing
AdmittedRightly ==
  \A e \in Edits : edit[e] \in {"admitted", "applied"} /\ For(e) \notin disturbed => For(e) \in OptIns
OpenWhileAlone == \A c \in OptIns : Open(c) /\ c \notin disturbed => enabled
AnsweredOnce == \A e \in inTime : edit[e] \in {"refused", "failed", "applied"}

PolicyInv ==
  /\ PolicyTypeOK
  /\ ClosedBehind
  /\ Overlap
  /\ UnansweredRuns
  /\ AdmittedRightly
  /\ OpenWhileAlone
  /\ AnsweredOnce
  /\ AloneAllowed

\* An edit is asked for by a call.
LEMMA ForCall == \A e \in Edits : For(e) \in Calls
  BY DEF Edits, For

LEMMA InvInit == PolicyInit => PolicyInv
<1> SUFFICES ASSUME PolicyInit PROVE PolicyInv
  OBVIOUS
<1> USE DEF PolicyInit
<1>1. PolicyTypeOK
  BY DEF PolicyTypeOK
<1>2. ClosedBehind /\ UnansweredRuns /\ AnsweredOnce /\ AloneAllowed
  BY DEF ClosedBehind, UnansweredRuns, AnsweredOnce, AloneAllowed
<1>3. Overlap /\ AdmittedRightly /\ OpenWhileAlone
  BY PolicyAssumption DEF Overlap, Live, Open, AdmittedRightly, OpenWhileAlone
<1> QED BY <1>1, <1>2, <1>3 DEF PolicyInv

\* Every step keeps the types.
LEMMA TypeStep ==
  ASSUME PolicyTypeOK, [PolicyNext]_policyVars
  PROVE  PolicyTypeOK'
<1> USE PolicyAssumption, ForCall DEF PolicyTypeOK
<1>1. ASSUME NEW c \in Calls, RefuseCommand(c) PROVE PolicyTypeOK'
  BY <1>1 DEF RefuseCommand
<1>2. ASSUME NEW c \in Calls, OpenPolicy(c) PROVE PolicyTypeOK'
  BY <1>2 DEF OpenPolicy, Begin
<1>3. ASSUME NEW c \in Calls, SendCommand(c) PROVE PolicyTypeOK'
  BY <1>3 DEF SendCommand, Begin
<1>4. ASSUME NEW c \in Calls, Answer(c) PROVE PolicyTypeOK'
  BY <1>4 DEF Answer
<1>5. ASSUME NEW c \in Calls, TimeOut(c) PROVE PolicyTypeOK'
  BY <1>5 DEF TimeOut
<1>6. ASSUME NEW c \in Calls, ClosePolicy(c) PROVE PolicyTypeOK'
  BY <1>6 DEF ClosePolicy
<1>7. ASSUME NEW e \in Edits, AskEdit(e) PROVE PolicyTypeOK'
  BY <1>7 DEF AskEdit
<1>8. ASSUME NEW e \in Edits, Admit(e) PROVE PolicyTypeOK'
  BY <1>8 DEF Admit
<1>9. ASSUME NEW e \in Edits, Refuse(e) PROVE PolicyTypeOK'
  BY <1>9 DEF Refuse, InTime
<1>10. ASSUME NEW e \in Edits, Fail(e) PROVE PolicyTypeOK'
  BY <1>10 DEF Fail, InTime
<1>11. ASSUME NEW e \in Edits, Apply(e) PROVE PolicyTypeOK'
  BY <1>11 DEF Apply, InTime
<1>12. CASE UNCHANGED policyVars
  BY <1>12 DEF policyVars
<1> QED BY <1>1, <1>2, <1>3, <1>4, <1>5, <1>6, <1>7, <1>8, <1>9, <1>10, <1>11, <1>12 DEF PolicyNext

\* Whoever begins while another is live marks both.
LEMMA OverlapStep ==
  ASSUME PolicyTypeOK, Overlap, [PolicyNext]_policyVars
  PROVE  Overlap'
<1> USE PolicyAssumption, ForCall DEF PolicyTypeOK, Overlap, Live, Open
<1>1. ASSUME NEW c \in Calls, RefuseCommand(c) PROVE Overlap'
  BY <1>1 DEF RefuseCommand
<1>2. ASSUME NEW c \in Calls, OpenPolicy(c) PROVE Overlap'
  BY <1>2 DEF OpenPolicy, Begin
<1>3. ASSUME NEW c \in Calls, SendCommand(c) PROVE Overlap'
  BY <1>3 DEF SendCommand, Begin
<1>4. ASSUME NEW c \in Calls, Answer(c) PROVE Overlap'
  BY <1>4 DEF Answer
<1>5. ASSUME NEW c \in Calls, TimeOut(c) PROVE Overlap'
  BY <1>5 DEF TimeOut
<1>6. ASSUME NEW c \in Calls, ClosePolicy(c) PROVE Overlap'
  BY <1>6 DEF ClosePolicy
<1>7. ASSUME NEW e \in Edits, AskEdit(e) PROVE Overlap'
  BY <1>7 DEF AskEdit
<1>8. ASSUME NEW e \in Edits, Admit(e) PROVE Overlap'
  BY <1>8 DEF Admit
<1>9. ASSUME NEW e \in Edits, Refuse(e) PROVE Overlap'
  BY <1>9 DEF Refuse, InTime
<1>10. ASSUME NEW e \in Edits, Fail(e) PROVE Overlap'
  BY <1>10 DEF Fail, InTime
<1>11. ASSUME NEW e \in Edits, Apply(e) PROVE Overlap'
  BY <1>11 DEF Apply, InTime
<1>12. CASE UNCHANGED policyVars
  BY <1>12 DEF policyVars
<1> QED BY <1>1, <1>2, <1>3, <1>4, <1>5, <1>6, <1>7, <1>8, <1>9, <1>10, <1>11, <1>12 DEF PolicyNext

\* The server answers a command after the edits it asked for.
LEMMA UnansweredStep ==
  ASSUME PolicyTypeOK, UnansweredRuns, [PolicyNext]_policyVars
  PROVE  UnansweredRuns'
<1> USE PolicyAssumption, ForCall DEF PolicyTypeOK, UnansweredRuns
<1>1. ASSUME NEW c \in Calls, RefuseCommand(c) PROVE UnansweredRuns'
  BY <1>1 DEF RefuseCommand
<1>2. ASSUME NEW c \in Calls, OpenPolicy(c) PROVE UnansweredRuns'
  BY <1>2 DEF OpenPolicy, Begin
<1>3. ASSUME NEW c \in Calls, SendCommand(c) PROVE UnansweredRuns'
  BY <1>3 DEF SendCommand, Begin
<1>4. ASSUME NEW c \in Calls, Answer(c) PROVE UnansweredRuns'
  BY <1>4 DEF Answer
<1>5. ASSUME NEW c \in Calls, TimeOut(c) PROVE UnansweredRuns'
  BY <1>5 DEF TimeOut
<1>6. ASSUME NEW c \in Calls, ClosePolicy(c) PROVE UnansweredRuns'
  BY <1>6 DEF ClosePolicy
<1>7. ASSUME NEW e \in Edits, AskEdit(e) PROVE UnansweredRuns'
  BY <1>7 DEF AskEdit
<1>8. ASSUME NEW e \in Edits, Admit(e) PROVE UnansweredRuns'
  BY <1>8 DEF Admit
<1>9. ASSUME NEW e \in Edits, Refuse(e) PROVE UnansweredRuns'
  BY <1>9 DEF Refuse, InTime
<1>10. ASSUME NEW e \in Edits, Fail(e) PROVE UnansweredRuns'
  BY <1>10 DEF Fail, InTime
<1>11. ASSUME NEW e \in Edits, Apply(e) PROVE UnansweredRuns'
  BY <1>11 DEF Apply, InTime
<1>12. CASE UNCHANGED policyVars
  BY <1>12 DEF policyVars
<1> QED BY <1>1, <1>2, <1>3, <1>4, <1>5, <1>6, <1>7, <1>8, <1>9, <1>10, <1>11, <1>12 DEF PolicyNext

\* The last of those who opened the policy closes it, or one before.
LEMMA ClosedStep ==
  ASSUME PolicyTypeOK, ClosedBehind, [PolicyNext]_policyVars
  PROVE  ClosedBehind'
<1> USE PolicyAssumption, ForCall DEF PolicyTypeOK, ClosedBehind, Open
<1>1. ASSUME NEW c \in Calls, RefuseCommand(c) PROVE ClosedBehind'
  BY <1>1 DEF RefuseCommand
<1>2. ASSUME NEW c \in Calls, OpenPolicy(c) PROVE ClosedBehind'
  BY <1>2 DEF OpenPolicy, Begin
<1>3. ASSUME NEW c \in Calls, SendCommand(c) PROVE ClosedBehind'
  BY <1>3 DEF SendCommand, Begin
<1>4. ASSUME NEW c \in Calls, Answer(c) PROVE ClosedBehind'
  BY <1>4 DEF Answer
<1>5. ASSUME NEW c \in Calls, TimeOut(c) PROVE ClosedBehind'
  BY <1>5 DEF TimeOut
<1>6. ASSUME NEW c \in Calls, ClosePolicy(c) PROVE ClosedBehind'
  BY <1>6 DEF ClosePolicy
<1>7. ASSUME NEW e \in Edits, AskEdit(e) PROVE ClosedBehind'
  BY <1>7 DEF AskEdit
<1>8. ASSUME NEW e \in Edits, Admit(e) PROVE ClosedBehind'
  BY <1>8 DEF Admit
<1>9. ASSUME NEW e \in Edits, Refuse(e) PROVE ClosedBehind'
  BY <1>9 DEF Refuse, InTime
<1>10. ASSUME NEW e \in Edits, Fail(e) PROVE ClosedBehind'
  BY <1>10 DEF Fail, InTime
<1>11. ASSUME NEW e \in Edits, Apply(e) PROVE ClosedBehind'
  BY <1>11 DEF Apply, InTime
<1>12. CASE UNCHANGED policyVars
  BY <1>12 DEF policyVars
<1> QED BY <1>1, <1>2, <1>3, <1>4, <1>5, <1>6, <1>7, <1>8, <1>9, <1>10, <1>11, <1>12 DEF PolicyNext

\* Only a call that overlaps can close the policy of another.
LEMMA OpenStep ==
  ASSUME PolicyTypeOK, Overlap, OpenWhileAlone, [PolicyNext]_policyVars
  PROVE  OpenWhileAlone'
<1> USE PolicyAssumption, ForCall DEF PolicyTypeOK, Overlap, OpenWhileAlone, Live, Open
<1>1. ASSUME NEW c \in Calls, RefuseCommand(c) PROVE OpenWhileAlone'
  BY <1>1 DEF RefuseCommand
<1>2. ASSUME NEW c \in Calls, OpenPolicy(c) PROVE OpenWhileAlone'
  BY <1>2 DEF OpenPolicy, Begin
<1>3. ASSUME NEW c \in Calls, SendCommand(c) PROVE OpenWhileAlone'
  BY <1>3 DEF SendCommand, Begin
<1>4. ASSUME NEW c \in Calls, Answer(c) PROVE OpenWhileAlone'
  BY <1>4 DEF Answer
<1>5. ASSUME NEW c \in Calls, TimeOut(c) PROVE OpenWhileAlone'
  BY <1>5 DEF TimeOut
<1>6. ASSUME NEW c \in Calls, ClosePolicy(c) PROVE OpenWhileAlone'
  BY <1>6 DEF ClosePolicy
<1>7. ASSUME NEW e \in Edits, AskEdit(e) PROVE OpenWhileAlone'
  BY <1>7 DEF AskEdit
<1>8. ASSUME NEW e \in Edits, Admit(e) PROVE OpenWhileAlone'
  BY <1>8 DEF Admit
<1>9. ASSUME NEW e \in Edits, Refuse(e) PROVE OpenWhileAlone'
  BY <1>9 DEF Refuse, InTime
<1>10. ASSUME NEW e \in Edits, Fail(e) PROVE OpenWhileAlone'
  BY <1>10 DEF Fail, InTime
<1>11. ASSUME NEW e \in Edits, Apply(e) PROVE OpenWhileAlone'
  BY <1>11 DEF Apply, InTime
<1>12. CASE UNCHANGED policyVars
  BY <1>12 DEF policyVars
<1> QED BY <1>1, <1>2, <1>3, <1>4, <1>5, <1>6, <1>7, <1>8, <1>9, <1>10, <1>11, <1>12 DEF PolicyNext

\* An edit passes the policy of another call only while that one is live too.
LEMMA AdmittedStep ==
  ASSUME PolicyTypeOK, Overlap, UnansweredRuns, ClosedBehind, AdmittedRightly, [PolicyNext]_policyVars
  PROVE  AdmittedRightly'
<1> USE PolicyAssumption, ForCall DEF PolicyTypeOK, Overlap, UnansweredRuns, ClosedBehind, AdmittedRightly, Live, Open
<1>1. ASSUME NEW c \in Calls, RefuseCommand(c) PROVE AdmittedRightly'
  BY <1>1 DEF RefuseCommand
<1>2. ASSUME NEW c \in Calls, OpenPolicy(c) PROVE AdmittedRightly'
  BY <1>2 DEF OpenPolicy, Begin
<1>3. ASSUME NEW c \in Calls, SendCommand(c) PROVE AdmittedRightly'
  BY <1>3 DEF SendCommand, Begin
<1>4. ASSUME NEW c \in Calls, Answer(c) PROVE AdmittedRightly'
  BY <1>4 DEF Answer
<1>5. ASSUME NEW c \in Calls, TimeOut(c) PROVE AdmittedRightly'
  BY <1>5 DEF TimeOut
<1>6. ASSUME NEW c \in Calls, ClosePolicy(c) PROVE AdmittedRightly'
  BY <1>6 DEF ClosePolicy
<1>7. ASSUME NEW e \in Edits, AskEdit(e) PROVE AdmittedRightly'
  BY <1>7 DEF AskEdit
<1>8. ASSUME NEW e \in Edits, Admit(e) PROVE AdmittedRightly'
  BY <1>8 DEF Admit
<1>9. ASSUME NEW e \in Edits, Refuse(e) PROVE AdmittedRightly'
  BY <1>9 DEF Refuse, InTime
<1>10. ASSUME NEW e \in Edits, Fail(e) PROVE AdmittedRightly'
  BY <1>10 DEF Fail, InTime
<1>11. ASSUME NEW e \in Edits, Apply(e) PROVE AdmittedRightly'
  BY <1>11 DEF Apply, InTime
<1>12. CASE UNCHANGED policyVars
  BY <1>12 DEF policyVars
<1> QED BY <1>1, <1>2, <1>3, <1>4, <1>5, <1>6, <1>7, <1>8, <1>9, <1>10, <1>11, <1>12 DEF PolicyNext

\* An answer is given once.
LEMMA AnsweredStep ==
  ASSUME PolicyTypeOK, AnsweredOnce, [PolicyNext]_policyVars
  PROVE  AnsweredOnce'
<1> USE PolicyAssumption, ForCall DEF PolicyTypeOK, AnsweredOnce
<1>1. ASSUME NEW c \in Calls, RefuseCommand(c) PROVE AnsweredOnce'
  BY <1>1 DEF RefuseCommand
<1>2. ASSUME NEW c \in Calls, OpenPolicy(c) PROVE AnsweredOnce'
  BY <1>2 DEF OpenPolicy, Begin
<1>3. ASSUME NEW c \in Calls, SendCommand(c) PROVE AnsweredOnce'
  BY <1>3 DEF SendCommand, Begin
<1>4. ASSUME NEW c \in Calls, Answer(c) PROVE AnsweredOnce'
  BY <1>4 DEF Answer
<1>5. ASSUME NEW c \in Calls, TimeOut(c) PROVE AnsweredOnce'
  BY <1>5 DEF TimeOut
<1>6. ASSUME NEW c \in Calls, ClosePolicy(c) PROVE AnsweredOnce'
  BY <1>6 DEF ClosePolicy
<1>7. ASSUME NEW e \in Edits, AskEdit(e) PROVE AnsweredOnce'
  BY <1>7 DEF AskEdit
<1>8. ASSUME NEW e \in Edits, Admit(e) PROVE AnsweredOnce'
  BY <1>8 DEF Admit
<1>9. ASSUME NEW e \in Edits, Refuse(e) PROVE AnsweredOnce'
  BY <1>9 DEF Refuse, InTime
<1>10. ASSUME NEW e \in Edits, Fail(e) PROVE AnsweredOnce'
  BY <1>10 DEF Fail, InTime
<1>11. ASSUME NEW e \in Edits, Apply(e) PROVE AnsweredOnce'
  BY <1>11 DEF Apply, InTime
<1>12. CASE UNCHANGED policyVars
  BY <1>12 DEF policyVars
<1> QED BY <1>1, <1>2, <1>3, <1>4, <1>5, <1>6, <1>7, <1>8, <1>9, <1>10, <1>11, <1>12 DEF PolicyNext

\* The policy refuses no edit of a call that opted in and has it open alone.
LEMMA AllowedStep ==
  ASSUME PolicyTypeOK, OpenWhileAlone, AnsweredOnce, AloneAllowed, [PolicyNext]_policyVars
  PROVE  AloneAllowed'
<1> USE PolicyAssumption, ForCall DEF PolicyTypeOK, OpenWhileAlone, AnsweredOnce, AloneAllowed, Open
<1>1. ASSUME NEW c \in Calls, RefuseCommand(c) PROVE AloneAllowed'
  BY <1>1 DEF RefuseCommand
<1>2. ASSUME NEW c \in Calls, OpenPolicy(c) PROVE AloneAllowed'
  BY <1>2 DEF OpenPolicy, Begin
<1>3. ASSUME NEW c \in Calls, SendCommand(c) PROVE AloneAllowed'
  BY <1>3 DEF SendCommand, Begin
<1>4. ASSUME NEW c \in Calls, Answer(c) PROVE AloneAllowed'
  BY <1>4 DEF Answer
<1>5. ASSUME NEW c \in Calls, TimeOut(c) PROVE AloneAllowed'
  BY <1>5 DEF TimeOut
<1>6. ASSUME NEW c \in Calls, ClosePolicy(c) PROVE AloneAllowed'
  BY <1>6 DEF ClosePolicy
<1>7. ASSUME NEW e \in Edits, AskEdit(e) PROVE AloneAllowed'
  BY <1>7 DEF AskEdit
<1>8. ASSUME NEW e \in Edits, Admit(e) PROVE AloneAllowed'
  BY <1>8 DEF Admit
<1>9. ASSUME NEW e \in Edits, Refuse(e) PROVE AloneAllowed'
  BY <1>9 DEF Refuse, InTime
<1>10. ASSUME NEW e \in Edits, Fail(e) PROVE AloneAllowed'
  BY <1>10 DEF Fail, InTime
<1>11. ASSUME NEW e \in Edits, Apply(e) PROVE AloneAllowed'
  BY <1>11 DEF Apply, InTime
<1>12. CASE UNCHANGED policyVars
  BY <1>12 DEF policyVars
<1> QED BY <1>1, <1>2, <1>3, <1>4, <1>5, <1>6, <1>7, <1>8, <1>9, <1>10, <1>11, <1>12 DEF PolicyNext

LEMMA InvStep == PolicyInv /\ [PolicyNext]_policyVars => PolicyInv'
BY TypeStep, OverlapStep, UnansweredStep, ClosedStep, OpenStep, AdmittedStep, AnsweredStep, AllowedStep
   DEF PolicyInv

LEMMA InvAlways == PolicySpec => []PolicyInv
BY InvInit, InvStep, PTL DEF PolicySpec

\* Type correctness, for any number of calls and edits.
THEOREM PolicyTypeOKHolds == PolicySpec => []PolicyTypeOK
<1>1. PolicyInv => PolicyTypeOK
  BY DEF PolicyInv
<1> QED BY <1>1, InvAlways, PTL

\* setApplyPolicy(false) of the last call leaves the policy closed
\* (client.go:118-122).
THEOREM ClosedBehindHolds == PolicySpec => []ClosedBehind
<1>1. PolicyInv => ClosedBehind
  BY DEF PolicyInv
<1> QED BY <1>1, InvAlways, PTL

\* An edit that is applied belongs to a call that opted in, or that another one
\* overlapped (client.go:91-113).
THEOREM AloneOnlyOptedInHolds == PolicySpec => []AloneOnlyOptedIn
<1>1. PolicyInv => AloneOnlyOptedIn
  BY DEF PolicyInv, AdmittedRightly, AloneOnlyOptedIn
<1> QED BY <1>1, InvAlways, PTL

\* A call that opted in and is not overlapped has its edits admitted while it runs
\* (command.go:62-69).
THEOREM AloneAllowedHolds == PolicySpec => []AloneAllowed
<1>1. PolicyInv => AloneAllowed
  BY DEF PolicyInv
<1> QED BY <1>1, InvAlways, PTL
=============================================================================

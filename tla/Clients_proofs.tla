--------------------------- MODULE Clients_proofs ---------------------------
(***************************************************************************)
(* Proofs about Clients, for any number of users, pairs of tokens, calls,  *)
(* tabs, requests, registrations and changes of the setting.  Each part    *)
(* has an inductive invariant of its own, and moves only while the others  *)
(* are at rest.                                                            *)
(***************************************************************************)
EXTENDS Clients, TLAPS

-----------------------------------------------------------------------------
(* The push registration *)

\* What a tidy phone knows of a registration under way, given the user signed in
\* and the rows.
RunIsTrue(x, u, rows) ==
    /\ x.pc # "idle" => x.token # NoToken /\ x.user # Nobody
    /\ x.pc # "idle" /\ ~x.cancelled => x.user = u
    /\ x.pc \in {"sent", "late"} => x.who = u
    /\ x.pc = "applied" /\ ~x.cancelled => rows[x.token] = u
    /\ x.pc = "set" => x.user = u /\ rows[x.token] = u

\* What it knows of its flags.
FlagsAreTrue(f, u, rows, stage) ==
    /\ u = Nobody /\ f.token # NoToken => rows[f.token] = f.user
    /\ f.token # NoToken /\ f.user = u => rows[f.token] = u
    /\ stage = "removed" /\ f.token # NoToken => f.user = u

Tidy ==
    /\ phoneUser = Nobody => Loose = {}
    /\ FlagsAreTrue(flags, phoneUser, row, signingOut)
    /\ \A r \in Runs : RunIsTrue(runs[r], phoneUser, row)

PushInv ==
    /\ PushTypeOK
    /\ signingOut # "no" => phoneUser # Nobody
    /\ ~untidy => Tidy

LEMMA PushStarts == PushInit => PushInv
<1> SUFFICES ASSUME PushInit PROVE PushInv OBVIOUS
<1> USE DEF PushInit
<1>1. PushTypeOK
  <2>1. NoRun \in Run BY DEF Run, NoRun, RunPlaces
  <2>2. 1 \in PushTokens BY PushAssumption DEF PushTokens
  <2> QED BY <2>1, <2>2 DEF PushTypeOK, NoFlags
<1>2. Tidy
  BY DEF Tidy, Loose, FlagsAreTrue, RunIsTrue, NoRun, NoFlags, NoToken
<1> QED BY <1>1, <1>2 DEF PushInv

\* A step of the registration of one effect.
EffectStep(r) ==
    \/ StartRun(r) \/ CheckFlags(r) \/ PostToken(r) \/ UpsertPushToken(r)
    \/ Registered(r) \/ SetFlags(r) \/ PostFails(r)

LEMMA PushTyped ==
  ASSUME PushTypeOK, PushNext
  PROVE  PushTypeOK'
<1> USE DEF PushTypeOK
<1>1. runs \in [Runs -> Run] /\ NoRun \in Run
  BY DEF Run, NoRun, RunPlaces
<1>2. \A r \in Runs, pc \in RunPlaces : RunTo(r, pc) => runs' \in [Runs -> Run]
  BY <1>1 DEF RunTo, Run
<1>3. \A r \in Runs : EndRun(r) => runs' \in [Runs -> Run] BY <1>1 DEF EndRun
<1>4. Cancelled(runs) \in [Runs -> Run] BY <1>1 DEF Cancelled, Run
<1>5. ASSUME NEW r \in Runs, EffectStep(r) PROVE PushTypeOK'
  <2>1. CASE StartRun(r)
    <3> DEFINE x == [NoRun EXCEPT !.pc = "check", !.user = phoneUser, !.token = phoneToken]
    <3>1. x \in Run BY <2>1, <1>1 DEF Run, RunPlaces, StartRun
    <3>2. runs' = [Cancelled(runs) EXCEPT ![r] = x] BY <2>1 DEF StartRun
    <3> HIDE DEF x
    <3>3. runs' \in [Runs -> Run] BY <1>4, <3>1, <3>2
    <3> QED BY <2>1, <3>3 DEF StartRun
  <2>2. CASE PostToken(r)
    <3>1. runs' \in [Runs -> Run]
      BY <1>1, <1>3, <2>2 DEF PostToken, Run, RunPlaces
    <3> QED BY <2>2, <3>1 DEF PostToken
  <2>3. CASE SetFlags(r)
    <3>1. runs[r].token \in PushTokens \cup {NoToken} /\ runs[r].user \in Users \cup {Nobody}
      BY <1>1 DEF Run
    <3>2. flags' \in [token : PushTokens \cup {NoToken}, user : Users \cup {Nobody}]
      BY <2>3, <3>1 DEF SetFlags
    <3> QED BY <1>3, <2>3, <3>2 DEF SetFlags
  <2>4. CASE UpsertPushToken(r)
    <3>1. runs[r].who \in Users \cup {Nobody} BY <1>1 DEF Run
    <3>2. row' \in [PushTokens -> Users \cup {Nobody}]
      BY <2>4, <3>1 DEF UpsertPushToken
    <3>3. runs' \in [Runs -> Run]
      BY <1>2, <1>3, <2>4 DEF UpsertPushToken, RunPlaces
    <3> QED BY <2>4, <3>2, <3>3 DEF UpsertPushToken
  <2>5. CASE CheckFlags(r) \/ Registered(r) \/ PostFails(r)
    <3>1. runs' \in [Runs -> Run]
      BY <1>2, <1>3, <2>5 DEF CheckFlags, Registered, PostFails, RunPlaces
    <3> QED BY <2>5, <3>1 DEF CheckFlags, Registered, PostFails
  <2> QED BY <1>5, <2>1, <2>2, <2>3, <2>4, <2>5 DEF EffectStep
<1>6. ASSUME BeginSignOut \/ RemoveFlags \/ NewPushToken \/ \E u \in Users : PhoneSignIn(u)
      PROVE  PushTypeOK'
  <2>1. CASE NewPushToken
    <3>1. phoneToken' \in PushTokens BY PushAssumption, <2>1 DEF NewPushToken, PushTokens
    <3> QED BY <2>1, <3>1 DEF NewPushToken
  <2>2. CASE BeginSignOut BY <2>2 DEF BeginSignOut
  <2>3. CASE RemoveFlags BY <2>3 DEF RemoveFlags, NoFlags
  <2>4. CASE \E u \in Users : PhoneSignIn(u) BY <2>4 DEF PhoneSignIn
  <2> QED BY <1>6, <2>1, <2>2, <2>3, <2>4
<1>7. ASSUME RemovalFails \/ EndSignOut \/ KillApp PROVE PushTypeOK'
  <2>1. untidy' \in BOOLEAN BY <1>7, Zenon DEF RemovalFails, EndSignOut, KillApp
  <2>2. ASSUME KillApp PROVE runs' \in [Runs -> Run]
    BY <1>1, <2>2 DEF KillApp, Run, RunPlaces
  <2> QED BY <1>4, <1>7, <2>1, <2>2 DEF RemovalFails, EndSignOut, KillApp
<1> QED BY <1>5, <1>6, <1>7 DEF PushNext, EffectStep

\* What one effect does to the others, and to the flags and the rows.
LEMMA EffectKeepsTidy ==
  ASSUME PushTypeOK, Tidy, NEW r \in Runs, EffectStep(r),
         signingOut # "no" => phoneUser # Nobody
  PROVE  Tidy'
<1> DEFINE q == runs[r]
<1>1. runs \in [Runs -> Run] /\ q \in Run /\ flags.token \in PushTokens \cup {NoToken}
  BY DEF PushTypeOK
<1>2. row \in [PushTokens -> Users \cup {Nobody}] /\ phoneToken \in PushTokens
  BY DEF PushTypeOK
<1>3. UNCHANGED <<phoneUser, signingOut>>
  BY DEF EffectStep, StartRun, CheckFlags, PostToken, UpsertPushToken, Registered,
     SetFlags, PostFails
<1>4. phoneUser = Nobody => q.pc \notin {"sent", "set", "late"}
  BY DEF Tidy, Loose
<1>5. RunIsTrue(q, phoneUser, row) BY DEF Tidy
<1>6. NoToken \notin PushTokens BY DEF NoToken, PushTokens
\* The row, if it changes, becomes the signed-in user's.
<1>7. /\ phoneUser = Nobody => row' = row
      /\ \A t \in PushTokens : row'[t] = row[t] \/ row'[t] = phoneUser
  <2>1. CASE UpsertPushToken(r)
    <3>1. q.who = phoneUser /\ phoneUser # Nobody
      BY <1>4, <1>5, <2>1 DEF UpsertPushToken, RunIsTrue
    <3> QED BY <1>2, <2>1, <3>1 DEF UpsertPushToken
  <2>2. CASE ~UpsertPushToken(r)
    <3>1. row' = row
      BY <2>2 DEF EffectStep, StartRun, CheckFlags, PostToken, Registered, SetFlags, PostFails
    <3> QED BY <3>1
  <2> QED BY <2>1, <2>2
\* The other effects are cancelled at most.
<1>8. ASSUME NEW d \in Runs, d # r
      PROVE  RunIsTrue(runs'[d], phoneUser, row')
  <2>1. runs[d] \in Run /\ RunIsTrue(runs[d], phoneUser, row) BY <1>1 DEF Tidy
  <2>2. runs'[d] = runs[d] \/ runs'[d] = [runs[d] EXCEPT !.cancelled = runs[d].pc # "idle"]
    BY <1>1, <1>8 DEF EffectStep, StartRun, CheckFlags, PostToken, UpsertPushToken,
       Registered, SetFlags, PostFails, RunTo, EndRun, Cancelled
  <2>3. /\ runs'[d].pc = runs[d].pc /\ runs'[d].token = runs[d].token
        /\ runs'[d].user = runs[d].user /\ runs'[d].who = runs[d].who
        /\ runs'[d].pc # "idle" /\ ~runs'[d].cancelled => ~runs[d].cancelled
    BY <2>1, <2>2 DEF Run
  <2>4. runs[d].token \in PushTokens \cup {NoToken} BY <2>1 DEF Run
  <2> QED BY <1>7, <2>1, <2>3, <2>4 DEF RunIsTrue
<1>9. RunIsTrue(runs'[r], phoneUser, row') /\ (phoneUser = Nobody => runs'[r].pc \notin {"sent", "set", "late"})
  <2>1. RunIsTrue(NoRun, phoneUser, row') BY DEF RunIsTrue, NoRun
  <2>2. q.token \in PushTokens \cup {NoToken} BY <1>1 DEF Run
  <2>3. CASE EndRun(r)
    <3>1. runs'[r] = NoRun BY <1>1, <2>3 DEF EndRun
    <3> QED BY <2>1, <3>1 DEF NoRun
  <2>4. CASE StartRun(r)
    <3> DEFINE x == [NoRun EXCEPT !.pc = "check", !.user = phoneUser, !.token = phoneToken]
    <3>1. runs'[r] = x BY <1>1, <2>4 DEF StartRun, Cancelled
    <3>2. /\ x.pc = "check" /\ x.user = phoneUser /\ x.token = phoneToken
      BY DEF NoRun
    <3> HIDE DEF x
    <3> QED BY <1>2, <1>6, <2>4, <3>1, <3>2 DEF RunIsTrue, StartRun
  <2>5. CASE CheckFlags(r) /\ RunTo(r, "post")
    <3>1. q.pc = "check" /\ runs'[r] = [q EXCEPT !.pc = "post"] /\ row' = row
      BY <1>1, <2>5 DEF CheckFlags, RunTo, RunAt
    <3>2. /\ runs'[r].pc = "post" /\ runs'[r].user = q.user /\ runs'[r].token = q.token
          /\ runs'[r].cancelled = q.cancelled
      BY <1>1, <3>1 DEF Run
    <3> QED BY <1>5, <3>1, <3>2 DEF RunIsTrue
  <2>6. CASE PostToken(r) /\ phoneUser # Nobody
    <3>1. q.pc = "post" /\ runs'[r] = [q EXCEPT !.pc = "sent", !.who = phoneUser] /\ row' = row
      BY <1>1, <2>6 DEF PostToken, RunAt
    <3>2. /\ runs'[r].pc = "sent" /\ runs'[r].user = q.user /\ runs'[r].token = q.token
          /\ runs'[r].cancelled = q.cancelled /\ runs'[r].who = phoneUser
      BY <1>1, <3>1 DEF Run
    <3> QED BY <1>5, <2>6, <3>1, <3>2 DEF RunIsTrue
  <2>7. CASE UpsertPushToken(r) /\ RunAt(r, "sent")
    <3>1. q.pc = "sent" /\ runs'[r] = [q EXCEPT !.pc = "applied"]
      BY <1>1, <2>7 DEF UpsertPushToken, RunTo, RunAt
    <3>2. /\ runs'[r].pc = "applied" /\ runs'[r].user = q.user /\ runs'[r].token = q.token
          /\ runs'[r].cancelled = q.cancelled
      BY <1>1, <3>1 DEF Run
    <3>3. q.token \in PushTokens /\ q.who = phoneUser BY <1>5, <2>2, <3>1 DEF RunIsTrue
    <3>4. row'[q.token] = phoneUser BY <1>2, <2>7, <3>3 DEF UpsertPushToken
    <3> QED BY <1>5, <3>1, <3>2, <3>4 DEF RunIsTrue
  <2>8. CASE Registered(r) /\ RunTo(r, "set") /\ ~q.cancelled
    <3>1. q.pc = "applied" /\ runs'[r] = [q EXCEPT !.pc = "set"] /\ row' = row
      BY <1>1, <2>8 DEF Registered, RunTo, RunAt
    <3>2. /\ runs'[r].pc = "set" /\ runs'[r].user = q.user /\ runs'[r].token = q.token
          /\ runs'[r].cancelled = q.cancelled
      BY <1>1, <3>1 DEF Run
    <3> QED BY <1>5, <2>8, <3>1, <3>2 DEF RunIsTrue
  <2>9. CASE PostFails(r) /\ RunAt(r, "sent") /\ RunTo(r, "late")
    <3>1. q.pc = "sent" /\ runs'[r] = [q EXCEPT !.pc = "late"] /\ row' = row
      BY <1>1, <2>9 DEF PostFails, RunTo, RunAt
    <3>2. /\ runs'[r].pc = "late" /\ runs'[r].user = q.user /\ runs'[r].token = q.token
          /\ runs'[r].cancelled = q.cancelled /\ runs'[r].who = q.who
      BY <1>1, <3>1 DEF Run
    <3> QED BY <1>4, <1>5, <3>1, <3>2 DEF RunIsTrue
  <2> QED
    BY <2>3, <2>4, <2>5, <2>6, <2>7, <2>8, <2>9 DEF EffectStep, CheckFlags, PostToken,
       UpsertPushToken, Registered, SetFlags, PostFails
<1>10. FlagsAreTrue(flags', phoneUser, row', signingOut)
  <2>1. CASE SetFlags(r)
    <3>1. q.user = phoneUser /\ row[q.token] = phoneUser /\ phoneUser # Nobody
      BY <1>4, <1>5, <2>1 DEF SetFlags, RunAt, RunIsTrue
    <3>2. flags' = [token |-> q.token, user |-> q.user] /\ row' = row BY <2>1 DEF SetFlags
    <3>3. flags'.token = q.token /\ flags'.user = phoneUser BY <3>1, <3>2
    <3> QED BY <3>1, <3>2, <3>3 DEF FlagsAreTrue
  <2>2. CASE ~SetFlags(r)
    <3>1. flags' = flags
      BY <2>2 DEF EffectStep, StartRun, CheckFlags, PostToken, UpsertPushToken, Registered,
         PostFails
    <3> QED BY <1>1, <1>7, <3>1 DEF Tidy, FlagsAreTrue
  <2> QED BY <2>1, <2>2
<1>11. phoneUser = Nobody => \A d \in Runs : runs'[d].pc \notin {"sent", "set", "late"}
  <2> SUFFICES ASSUME phoneUser = Nobody, NEW d \in Runs
               PROVE  runs'[d].pc \notin {"sent", "set", "late"}
    OBVIOUS
  <2>1. CASE d = r BY <1>9, <2>1
  <2>2. CASE d # r
    <3>1. runs'[d].pc = runs[d].pc
      BY <1>1, <2>2 DEF EffectStep, StartRun, CheckFlags, PostToken, UpsertPushToken,
         Registered, SetFlags, PostFails, RunTo, EndRun, Cancelled, Run
    <3> QED BY <3>1 DEF Tidy, Loose
  <2> QED BY <2>1, <2>2
<1> QED BY <1>3, <1>8, <1>9, <1>10, <1>11 DEF Tidy, Loose

LEMMA PushKeeps ==
  ASSUME PushInv, PushNext
  PROVE  PushInv'
<1>1. PushTypeOK' BY PushTyped DEF PushInv
<1>2. runs \in [Runs -> Run] /\ flags.token \in PushTokens \cup {NoToken}
  BY DEF PushInv, PushTypeOK
<1>3. ASSUME NEW r \in Runs, EffectStep(r) PROVE PushInv'
  <2>1. UNCHANGED <<phoneUser, signingOut, untidy>>
    BY <1>3 DEF EffectStep, StartRun, CheckFlags, PostToken, UpsertPushToken, Registered,
       SetFlags, PostFails
  <2>2. ~untidy => Tidy' BY <1>3, EffectKeepsTidy DEF PushInv
  <2> QED BY <1>1, <2>1, <2>2 DEF PushInv
<1>4. ASSUME NEW u \in Users, PhoneSignIn(u) PROVE PushInv'
  <2>1. u # Nobody BY UsersAssumption
  <2>2. ASSUME ~untidy PROVE Tidy'
    <3>1. Tidy /\ phoneUser = Nobody /\ phoneUser' = u /\ UNCHANGED <<row, flags, runs, signingOut>>
      BY <1>4, <2>2 DEF PushInv, PhoneSignIn
    <3>2. FlagsAreTrue(flags', phoneUser', row', signingOut')
      <4>1. signingOut = "no" BY <3>1 DEF PushInv
      <4>2. FlagsAreTrue(flags, u, row, signingOut) BY <2>1, <3>1, <4>1 DEF Tidy, FlagsAreTrue
      <4> QED BY <3>1, <4>2
    <3>3. ASSUME NEW r \in Runs PROVE RunIsTrue(runs'[r], phoneUser', row')
      <4>1. RunIsTrue(runs[r], Nobody, row) /\ runs[r].pc \notin {"sent", "set", "late"}
        BY <3>1 DEF Tidy, Loose
      <4>2. RunIsTrue(runs[r], u, row) BY <4>1 DEF RunIsTrue
      <4> QED BY <3>1, <4>2
    <3> QED BY <2>1, <3>1, <3>2, <3>3 DEF Tidy
  <2> QED BY <1>1, <1>4, <2>1, <2>2 DEF PushInv, PhoneSignIn
<1>5. ASSUME BeginSignOut \/ RemoveFlags \/ NewPushToken PROVE PushInv'
  <2>1. ASSUME ~untidy PROVE Tidy'
    <3>1. Tidy /\ UNCHANGED <<phoneUser, row, runs>>
      BY <1>5, <2>1 DEF PushInv, BeginSignOut, RemoveFlags, NewPushToken
    <3>2. FlagsAreTrue(flags', phoneUser', row', signingOut')
      <4>1. CASE flags' = flags /\ signingOut' # "removed"
        BY <3>1, <4>1 DEF Tidy, FlagsAreTrue
      <4>2. CASE flags' = flags /\ signingOut' = signingOut
        BY <3>1, <4>2 DEF Tidy, FlagsAreTrue
      <4>3. CASE flags' = NoFlags BY <4>3 DEF NoFlags, FlagsAreTrue
      <4> QED BY <1>5, <4>1, <4>2, <4>3 DEF BeginSignOut, RemoveFlags, NewPushToken
    <3> QED BY <3>1, <3>2 DEF Tidy, Loose
  <2> QED BY <1>1, <1>5, <2>1 DEF PushInv, BeginSignOut, RemoveFlags, NewPushToken
<1>6. ASSUME RemovalFails PROVE PushInv'
  <2>1. ASSUME ~untidy' PROVE Tidy'
    <3>1. ~untidy /\ flags = NoFlags BY <1>6, <2>1 DEF RemovalFails
    <3>2. Tidy /\ UNCHANGED <<phoneUser, row, flags, runs>>
      BY <1>6, <3>1 DEF PushInv, RemovalFails
    <3>3. FlagsAreTrue(flags', phoneUser', row', signingOut')
      BY <3>1, <3>2 DEF NoFlags, FlagsAreTrue
    <3> QED BY <3>2, <3>3 DEF Tidy, Loose
  <2> QED BY <1>1, <1>6, <2>1 DEF PushInv, RemovalFails
<1>7. ASSUME EndSignOut PROVE PushInv'
  <2>1. ASSUME ~untidy' PROVE Tidy'
    <3>1. ~untidy /\ Loose = {} BY <1>7, <2>1 DEF EndSignOut
    <3>2. Tidy /\ phoneUser # Nobody /\ UNCHANGED <<row, flags>>
      BY <1>7, <3>1 DEF PushInv, EndSignOut
    <3>3. FlagsAreTrue(flags', phoneUser', row', signingOut')
      <4>1. phoneUser' = Nobody /\ signingOut' = "no" /\ signingOut = "removed"
        BY <1>7 DEF EndSignOut
      <4>2. flags.token # NoToken => flags.user = phoneUser /\ row[flags.token] = phoneUser
        BY <3>2, <4>1 DEF Tidy, FlagsAreTrue
      <4> QED BY <3>2, <4>1, <4>2 DEF FlagsAreTrue
    <3>4. ASSUME NEW r \in Runs
          PROVE  RunIsTrue(runs'[r], phoneUser', row') /\ runs'[r].pc \notin {"sent", "set", "late"}
      <4>1. runs[r] \in Run /\ RunIsTrue(runs[r], phoneUser, row)
        BY <1>2, <3>2 DEF Tidy
      <4>2. runs[r].pc \notin {"sent", "set", "late"} BY <3>1 DEF Loose
      <4>3. runs'[r] = [runs[r] EXCEPT !.cancelled = runs[r].pc # "idle"]
        BY <1>7 DEF EndSignOut, Cancelled
      <4>4. /\ runs'[r].pc = runs[r].pc /\ runs'[r].token = runs[r].token
            /\ runs'[r].user = runs[r].user
            /\ runs'[r].pc # "idle" => runs'[r].cancelled
        BY <4>1, <4>3 DEF Run
      <4> QED BY <4>1, <4>2, <4>4 DEF RunIsTrue
    <3> QED BY <3>3, <3>4 DEF Tidy, Loose
  <2> QED BY <1>1, <1>7, <2>1 DEF PushInv, EndSignOut
<1>8. ASSUME KillApp PROVE PushInv'
  <2>1. ASSUME ~untidy' PROVE Tidy'
    <3>1. ~untidy /\ (signingOut # "no" => flags = NoFlags /\ Loose = {})
      BY <1>8, <2>1 DEF KillApp
    <3>2. Tidy /\ UNCHANGED <<row, flags>> BY <1>8, <3>1 DEF PushInv, KillApp
    <3>3. /\ signingOut' = "no"
          /\ phoneUser' = phoneUser \/ (phoneUser' = Nobody /\ flags = NoFlags /\ Loose = {})
      BY <1>8, <3>1 DEF KillApp
    <3>4. FlagsAreTrue(flags', phoneUser', row', signingOut')
      <4>1. CASE phoneUser' = phoneUser BY <3>2, <3>3, <4>1 DEF Tidy, FlagsAreTrue
      <4>2. CASE flags = NoFlags BY <3>2, <3>3, <4>2 DEF NoFlags, FlagsAreTrue
      <4> QED BY <3>3, <4>1, <4>2
    <3>5. ASSUME NEW r \in Runs
          PROVE  /\ RunIsTrue(runs'[r], phoneUser', row')
                 /\ phoneUser' = Nobody => runs'[r].pc \notin {"sent", "set", "late"}
      <4>1. runs[r] \in Run /\ RunIsTrue(runs[r], phoneUser, row)
        BY <1>2, <3>2 DEF Tidy
      <4>2. CASE runs[r].pc \in {"sent", "late"}
        <5>1. phoneUser' = phoneUser /\ phoneUser # Nobody
          BY <3>2, <3>3, <4>2 DEF Tidy, Loose
        <5>2. runs'[r] = [runs[r] EXCEPT !.pc = "late"] BY <1>8, <4>2 DEF KillApp
        <5>3. /\ runs'[r].pc = "late" /\ runs'[r].token = runs[r].token
              /\ runs'[r].user = runs[r].user /\ runs'[r].who = runs[r].who
              /\ runs'[r].cancelled = runs[r].cancelled
          BY <4>1, <5>2 DEF Run
        <5> QED BY <4>1, <4>2, <5>1, <5>3 DEF RunIsTrue
      <4>3. CASE runs[r].pc \notin {"sent", "late"}
        <5>1. runs'[r] = NoRun BY <1>8, <4>3 DEF KillApp
        <5> QED BY <5>1 DEF NoRun, RunIsTrue
      <4> QED BY <4>2, <4>3
    <3> QED BY <3>4, <3>5 DEF Tidy, Loose
  <2> QED BY <1>1, <1>8, <2>1 DEF PushInv, KillApp
<1> QED BY <1>3, <1>4, <1>5, <1>6, <1>7, <1>8 DEF PushNext, EffectStep

LEMMA PushFrame ==
  ASSUME PushInv, UNCHANGED pushVars
  PROVE  PushInv'
BY DEF PushInv, pushVars, PushTypeOK, Tidy, Loose

-----------------------------------------------------------------------------
(* The server, as both apps use it *)

LEMMA IssueTells ==
  ASSUME ServerTypeOK, NEW u \in Users, NEW p \in Pairs, Issue(u, p)
  PROVE  /\ ServerTypeOK'
         /\ live \subseteq live' /\ p \in live' /\ p \in fresh' /\ fresh \subseteq fresh'
         /\ owner[p] = Nobody /\ owner'[p] = u
         /\ \A q \in Pairs : owner[q] # Nobody => owner'[q] = owner[q]
BY DEF ServerTypeOK, Issue, Unused

LEMMA RotateTells ==
  ASSUME ServerTypeOK, NEW r \in Pairs, NEW p \in Pairs, Rotate(r, p)
  PROVE  /\ ServerTypeOK'
         /\ live' = (live \ {r}) \cup {p} /\ p \in live' /\ p \in fresh' /\ fresh \subseteq fresh'
         /\ owner[p] = Nobody /\ owner'[p] = owner[r]
         /\ \A q \in Pairs : owner[q] # Nobody => owner'[q] = owner[q]
BY DEF ServerTypeOK, Rotate, Unused

-----------------------------------------------------------------------------
(* The web app *)

\* A tab that is closed holds nothing and asks for nothing.
Shut ==
    \A t \in Tabs : phase[t] = "closed" =>
        /\ held[t] = NoPair
        /\ refresh[t].pc = "none"
        /\ \A s \in Slots : requests[t][s].pc = "idle"

\* A request that waits, or is sent again, has used up its retry; sent again, it
\* carries the token of the refresh.
AnswerIsTrue(r) ==
    /\ r.pc = "waiting" => r.retried
    /\ r.pc = "sent" /\ r.retried /\ r.kind # "login" => r.good

\* A refresh that the server has accepted is one of a pair it has issued.
Accepting == \A t \in Tabs : refresh[t].pc = "accepted" => refresh[t].pair \in Pairs

Retries == \A t \in Tabs, s \in Slots : AnswerIsTrue(requests[t][s])

\* One tab at a time: what is stored is what the open tab holds, and the server
\* would still take it.
OneSession ==
    /\ storage \in live \cup {NoPair}
    /\ \A t \in Tabs :
          /\ phase[t] # "closed" => held[t] = storage
          /\ refresh[t].pc # "none" => refresh[t].pair \in live
    /\ signedOut => storage = NoPair /\ \A t \in Tabs : refresh[t].pc = "none"

WebInv ==
    /\ ServerTypeOK
    /\ WebTypeOK
    /\ Accepting
    /\ Shut
    /\ Retries
    /\ steady => OneSession

LEMMA WebStarts == ServerInit /\ WebInit => WebInv
<1> SUFFICES ASSUME ServerInit, WebInit PROVE WebInv OBVIOUS
<1> USE DEF WebInit
<1>1. NoRequest \in Request /\ NoRequest.pc = "idle" /\ ~NoRequest.retried
  BY DEF Request, NoRequest
<1>2. NoRefresh \in [pc : {"none", "sent", "accepted"}, pair : Held] /\ NoRefresh.pc = "none"
  BY DEF NoRefresh, Held
<1>3. ServerTypeOK BY DEF ServerInit, ServerTypeOK
<1>4. WebTypeOK BY <1>1, <1>2 DEF WebTypeOK, Held, Phases
<1>5. Shut /\ Retries /\ Accepting BY <1>1, <1>2 DEF Shut, Retries, AnswerIsTrue, Accepting
<1>6. OneSession BY <1>2 DEF OneSession
<1> QED BY <1>3, <1>4, <1>5, <1>6 DEF WebInv

\* What an action of one slot or of one tab leaves of the others.
LEMMA SlotSet ==
  ASSUME requests \in [Tabs -> [Slots -> Request]], NEW t \in Tabs, NEW s \in Slots,
         NEW r \in Request, SetSlot(t, s, r)
  PROVE  /\ requests' \in [Tabs -> [Slots -> Request]]
         /\ requests'[t][s] = r
         /\ \A q \in Slots : q # s => requests'[t][q] = requests[t][q]
         /\ \A d \in Tabs : d # t => requests'[d] = requests[d]
BY DEF SetSlot

LEMMA RequestForms ==
  /\ NoRequest \in Request
  /\ NoRefresh \in [pc : {"none", "sent", "accepted"}, pair : Held]
  /\ \A kind \in {"api", "boot", "login"}, good \in BOOLEAN :
        [pc |-> "sent", kind |-> kind, good |-> good, retried |-> FALSE] \in Request
  /\ \A r \in Request :
        /\ [r EXCEPT !.pc = "waiting", !.retried = TRUE] \in Request
        /\ \A good \in BOOLEAN : [r EXCEPT !.pc = "sent", !.good = good] \in Request
<1>1. NoRequest \in Request BY DEF Request, NoRequest
<1>2. NoRefresh \in [pc : {"none", "sent", "accepted"}, pair : Held] BY DEF NoRefresh, Held
<1>3. \A kind \in {"api", "boot", "login"}, good \in BOOLEAN :
        [pc |-> "sent", kind |-> kind, good |-> good, retried |-> FALSE] \in Request
  BY DEF Request
<1>4. \A r \in Request :
        /\ [r EXCEPT !.pc = "waiting", !.retried = TRUE] \in Request
        /\ \A good \in BOOLEAN : [r EXCEPT !.pc = "sent", !.good = good] \in Request
  BY DEF Request
<1> QED BY <1>1, <1>2, <1>3, <1>4

SlotStep(t, s) ==
    \/ Navigate(t, s) \/ Ask(t, s) \/ Answered(t, s) \/ Failed(t, s)
    \/ Unauthorised(t, s) \/ RefusedAgain(t, s) \/ NothingToRefreshWith(t, s)
    \/ \E right \in BOOLEAN : SubmitLogin(t, s, right)
    \/ \E u \in Users : LoginAnswered(t, s, u)

RefreshStep(t) ==
    RefreshAccepted(t) \/ Refreshed(t) \/ RefreshRefused(t) \/ RefreshLost(t)

PageStep(t) == Open(t) \/ Unload(t) \/ RecordActivity(t) \/ SignOutHere(t)

LEMMA WebTyped ==
  ASSUME ServerTypeOK, WebTypeOK, Accepting, WebNext
  PROVE  ServerTypeOK' /\ WebTypeOK'
<1>1. /\ requests \in [Tabs -> [Slots -> Request]]
      /\ held \in [Tabs -> Held] /\ storage \in Held
      /\ phase \in [Tabs -> Phases]
      /\ refresh \in [Tabs -> [pc : {"none", "sent", "accepted"}, pair : Held]]
  BY DEF WebTypeOK
<1>2. steady' \in BOOLEAN /\ signedOut' \in BOOLEAN
  <2>1. steady \in BOOLEAN /\ signedOut \in BOOLEAN BY DEF WebTypeOK
  <2>2. \A t \in Tabs : PageStep(t) => steady' \in BOOLEAN /\ signedOut' \in BOOLEAN
    BY <2>1, Zenon DEF PageStep, Open, Unload, RecordActivity, SignOutHere, Quietly
  <2>3. \A t \in Tabs : RefreshStep(t) => steady' \in BOOLEAN /\ signedOut' \in BOOLEAN
    BY <2>1, Zenon DEF RefreshStep, RefreshAccepted, Refreshed, RefreshRefused, RefreshLost,
       Quietly, SteadyIfAlone, Rejected
  <2>4. \A t \in Tabs, s \in Slots : SlotStep(t, s) => steady' \in BOOLEAN /\ signedOut' \in BOOLEAN
    BY <2>1, Zenon DEF SlotStep, Navigate, Ask, Answered, Failed, Unauthorised, RefusedAgain,
       NothingToRefreshWith, SubmitLogin, LoginAnswered, Quietly, SteadyIfAlone, Rejected
  <2>5. (\E p \in Pairs : ExpireAccess(p)) \/ (\E u \in Users : RevokeSessions(u)) =>
          steady' \in BOOLEAN /\ signedOut' \in BOOLEAN
    BY <2>1, Zenon DEF ExpireAccess, RevokeSessions, Lost, webVars
  <2> QED BY <2>2, <2>3, <2>4, <2>5 DEF WebNext, PageStep, RefreshStep, SlotStep
<1>3. \A t \in Tabs : Forget(t) => held' \in [Tabs -> Held] /\ storage' \in Held
  BY <1>1 DEF Forget, Persist, Held
<1>4. \A t \in Tabs, p \in Pairs : Persist(t, p) => held' \in [Tabs -> Held] /\ storage' \in Held
  BY <1>1 DEF Persist, Held
<1>5. \A t \in Tabs : Persist(t, held[t]) => held' \in [Tabs -> Held] /\ storage' \in Held
  BY <1>1 DEF Persist
<1>6. \A t \in Tabs : EndRefresh(t) =>
        refresh' \in [Tabs -> [pc : {"none", "sent", "accepted"}, pair : Held]]
  BY <1>1, RequestForms DEF EndRefresh
<1>7. \A t \in Tabs, s \in Slots : Done(t, s) => requests' \in [Tabs -> [Slots -> Request]]
  BY <1>1, RequestForms, SlotSet DEF Done
<1>8. \A t \in Tabs, s \in Slots, kind \in {"api", "boot", "login"}, good \in BOOLEAN :
        SendRequest(t, s, kind, good) => requests' \in [Tabs -> [Slots -> Request]]
  <2> SUFFICES ASSUME NEW t \in Tabs, NEW s \in Slots, NEW kind \in {"api", "boot", "login"},
                      NEW good \in BOOLEAN, SendRequest(t, s, kind, good)
               PROVE  requests' \in [Tabs -> [Slots -> Request]]
    OBVIOUS
  <2> DEFINE r == [pc |-> "sent", kind |-> kind, good |-> good, retried |-> FALSE]
  <2>1. r \in Request BY RequestForms
  <2>2. SetSlot(t, s, r) BY DEF SendRequest
  <2> HIDE DEF r
  <2> QED BY <1>1, <2>1, <2>2, SlotSet
<1>9. \A t \in Tabs, rs \in SUBSET Slots : Rejected(t, rs) =>
        held' \in [Tabs -> Held] /\ storage' \in Held /\ phase' \in [Tabs -> Phases]
  BY <1>1, <1>3 DEF Rejected, Phases
<1>10. \A t \in Tabs, rs \in SUBSET Slots : Drop(t, rs) => requests' \in [Tabs -> [Slots -> Request]]
  <2> SUFFICES ASSUME NEW t \in Tabs, NEW rs \in SUBSET Slots, Drop(t, rs)
               PROVE  requests' \in [Tabs -> [Slots -> Request]]
    OBVIOUS
  <2> DEFINE f == [s \in Slots |-> IF s \in rs THEN NoRequest ELSE requests[t][s]]
  <2>1. f \in [Slots -> Request] BY <1>1, RequestForms
  <2>2. requests' = [requests EXCEPT ![t] = f] BY DEF Drop
  <2> HIDE DEF f
  <2> QED BY <1>1, <2>1, <2>2
<1>11. ASSUME NEW t \in Tabs, PageStep(t) PROVE ServerTypeOK' /\ WebTypeOK'
  <2>1. ServerTypeOK' BY <1>11 DEF PageStep, Open, Unload, RecordActivity, SignOutHere, ServerTypeOK, serverVars
  <2>2. requests' \in [Tabs -> [Slots -> Request]]
    <3>1. CASE Open(t)
      <4>1. PICK s \in Slots : SendRequest(t, s, "boot", storage \in fresh) BY <3>1 DEF Open
      <4>2. (storage \in fresh) \in BOOLEAN OBVIOUS
      <4> QED BY <1>8, <4>1, <4>2
    <3>2. CASE Unload(t)
      <4>1. [s \in Slots |-> NoRequest] \in [Slots -> Request] BY RequestForms
      <4> QED BY <1>1, <3>2, <4>1 DEF Unload
    <3>3. CASE ~Open(t) /\ ~Unload(t)
      BY <1>1, <1>11, <3>3 DEF PageStep, RecordActivity, SignOutHere
    <3> QED BY <3>1, <3>2, <3>3
  <2>3. held' \in [Tabs -> Held] /\ storage' \in Held
    BY <1>1, <1>3, <1>5, <1>11 DEF PageStep, Open, Unload, RecordActivity, SignOutHere, Held
  <2>4. phase' \in [Tabs -> Phases]
    BY <1>1, <1>11 DEF PageStep, Open, Unload, RecordActivity, SignOutHere, Phases
  <2>5. refresh' \in [Tabs -> [pc : {"none", "sent", "accepted"}, pair : Held]]
    BY <1>1, <1>11, RequestForms DEF PageStep, Open, Unload, RecordActivity, SignOutHere
  <2> QED BY <1>2, <2>1, <2>2, <2>3, <2>4, <2>5 DEF WebTypeOK
<1>12. ASSUME NEW t \in Tabs, RefreshStep(t) PROVE ServerTypeOK' /\ WebTypeOK'
  <2>1. ServerTypeOK'
    <3>1. CASE refresh[t].pc = "accepted" /\ \E p \in Pairs : Rotate(refresh[t].pair, p)
      BY <3>1, RotateTells DEF Accepting
    <3> QED
      BY <1>12, <3>1 DEF RefreshStep, RefreshAccepted, Refreshed, RefreshRefused, RefreshLost,
         ServerTypeOK, serverVars
  <2>2. requests' \in [Tabs -> [Slots -> Request]]
    <3>1. CASE Refreshed(t)
      <4> DEFINE f == [s \in Slots |->
             IF Slot(t, s, "waiting")
             THEN [requests[t][s] EXCEPT !.pc = "sent", !.good = requests[t][s].kind # "login"]
             ELSE requests[t][s]]
      <4>1. ASSUME NEW s \in Slots PROVE f[s] \in Request
        <5>1. (requests[t][s].kind # "login") \in BOOLEAN OBVIOUS
        <5>2. requests[t][s] \in Request BY <1>1
        <5>3. [requests[t][s] EXCEPT !.pc = "sent", !.good = requests[t][s].kind # "login"] \in Request
          BY <5>1, <5>2, RequestForms
        <5> QED BY <5>2, <5>3
      <4>2. requests' = [requests EXCEPT ![t] = f] BY <3>1 DEF Refreshed
      <4>3. f \in [Slots -> Request] BY <4>1
      <4> HIDE DEF f
      <4> QED BY <1>1, <4>2, <4>3
    <3>2. CASE ~Refreshed(t)
      <4>1. WaitingIn(t) \in SUBSET Slots BY DEF WaitingIn
      <4> QED BY <1>1, <1>10, <1>12, <3>2, <4>1
              DEF RefreshStep, RefreshAccepted, RefreshRefused, RefreshLost
    <3> QED BY <3>1, <3>2
  <2>3. held' \in [Tabs -> Held] /\ storage' \in Held
    <3>1. WaitingIn(t) \in SUBSET Slots BY DEF WaitingIn
    <3> QED BY <1>1, <1>3, <1>4, <1>9, <1>12, <3>1
            DEF RefreshStep, RefreshAccepted, Refreshed, RefreshRefused, RefreshLost, SetTokens
  <2>4. phase' \in [Tabs -> Phases]
    <3>1. WaitingIn(t) \in SUBSET Slots BY DEF WaitingIn
    <3> QED BY <1>1, <1>9, <1>12, <3>1
            DEF RefreshStep, RefreshAccepted, Refreshed, RefreshRefused, RefreshLost, Phases
  <2>5. refresh' \in [Tabs -> [pc : {"none", "sent", "accepted"}, pair : Held]]
    BY <1>1, <1>6, <1>12 DEF RefreshStep, RefreshAccepted, Refreshed, RefreshRefused, RefreshLost
  <2> QED BY <1>2, <2>1, <2>2, <2>3, <2>4, <2>5 DEF WebTypeOK
<1>13. ASSUME NEW t \in Tabs, NEW s \in Slots, SlotStep(t, s) PROVE ServerTypeOK' /\ WebTypeOK'
  <2>1. {s} \in SUBSET Slots OBVIOUS
  <2>2. ServerTypeOK'
    BY <1>13, IssueTells DEF SlotStep, Navigate, Ask, Answered, Failed, Unauthorised, RefusedAgain,
       NothingToRefreshWith, SubmitLogin, LoginAnswered, ServerTypeOK, serverVars
  <2>3. requests' \in [Tabs -> [Slots -> Request]]
    <3>1. CASE Ask(t, s)
      <4>1. (held[t] \in fresh) \in BOOLEAN OBVIOUS
      <4> QED BY <1>8, <3>1, <4>1 DEF Ask
    <3>2. CASE \E right \in BOOLEAN : SubmitLogin(t, s, right)
      BY <1>8, <3>2 DEF SubmitLogin
    <3>3. CASE \E u \in Users : LoginAnswered(t, s, u)
      <4>1. SetSlot(t, s, [pc |-> "sent", kind |-> "boot", good |-> TRUE, retried |-> FALSE])
        BY <3>3 DEF LoginAnswered
      <4> QED BY <1>1, <4>1, RequestForms, SlotSet
    <3>4. CASE Unauthorised(t, s)
      <4>1. SetSlot(t, s, [requests[t][s] EXCEPT !.pc = "waiting", !.retried = TRUE])
        BY <3>4 DEF Unauthorised, Joins
      <4>2. requests[t][s] \in Request BY <1>1
      <4>3. [requests[t][s] EXCEPT !.pc = "waiting", !.retried = TRUE] \in Request
        BY <4>2, RequestForms
      <4> QED BY <1>1, <4>1, <4>3, SlotSet
    <3>5. CASE Done(t, s) BY <1>7, <3>5
    <3>6. CASE Navigate(t, s)
      <4> DEFINE new == [pc |-> "sent", kind |-> "boot", good |-> held[t] \in fresh, retried |-> FALSE]
                 next == [q \in Slots |-> IF q = s THEN new
                            ELSE IF requests[t][q].kind = "boot"
                                 THEN [requests[t][q] EXCEPT !.kind = "api"] ELSE requests[t][q]]
      <4>1. (held[t] \in fresh) \in BOOLEAN OBVIOUS
      <4>2. new \in Request BY <4>1 DEF Request
      <4>3. \A r \in Request : [r EXCEPT !.kind = "api"] \in Request BY DEF Request
      <4>4. requests' = [requests EXCEPT ![t] = next] BY <3>6 DEF Navigate
      <4> HIDE DEF new
      <4>5. next \in [Slots -> Request] BY <1>1, <4>2, <4>3
      <4> HIDE DEF next
      <4> QED BY <1>1, <4>4, <4>5
    <3> QED BY <1>13, <3>1, <3>2, <3>3, <3>4, <3>5, <3>6
            DEF SlotStep, Answered, Failed, RefusedAgain, NothingToRefreshWith
  <2>4. held' \in [Tabs -> Held] /\ storage' \in Held
    BY <1>1, <1>3, <1>4, <1>5, <1>9, <1>13, <2>1 DEF SlotStep, Navigate, Ask, Answered, Failed,
       Unauthorised, RefusedAgain, NothingToRefreshWith, SubmitLogin, LoginAnswered
  <2>5. phase' \in [Tabs -> Phases]
    BY <1>1, <1>9, <1>13, <2>1 DEF SlotStep, Navigate, Ask, Answered, Failed,
       Unauthorised, RefusedAgain, NothingToRefreshWith, SubmitLogin, LoginAnswered, Phases
  <2>6. refresh' \in [Tabs -> [pc : {"none", "sent", "accepted"}, pair : Held]]
    BY <1>1, <1>13 DEF SlotStep, Navigate, Ask, Answered, Failed, Unauthorised, Joins,
       RefusedAgain, NothingToRefreshWith, SubmitLogin, LoginAnswered
  <2> QED BY <1>2, <2>2, <2>3, <2>4, <2>5, <2>6 DEF WebTypeOK
<1>14. ASSUME (\E p \in Pairs : ExpireAccess(p)) \/ (\E u \in Users : RevokeSessions(u))
       PROVE  ServerTypeOK' /\ WebTypeOK'
  <2>1. ServerTypeOK' BY <1>14 DEF ExpireAccess, RevokeSessions, ServerTypeOK
  <2>2. UNCHANGED <<storage, held, phase, refresh, requests>>
    BY <1>14 DEF ExpireAccess, RevokeSessions, webVars
  <2> QED BY <1>1, <1>2, <2>1, <2>2 DEF WebTypeOK
<1> QED BY <1>11, <1>12, <1>13, <1>14 DEF WebNext, PageStep, RefreshStep, SlotStep

\* A tab moves alone.
LEMMA TabMovesAlone ==
  ASSUME WebTypeOK, NEW t \in Tabs, NEW d \in Tabs, d # t,
         PageStep(t) \/ RefreshStep(t) \/ \E s \in Slots : SlotStep(t, s)
  PROVE  /\ phase'[d] = phase[d] /\ held'[d] = held[d]
         /\ refresh'[d] = refresh[d] /\ requests'[d] = requests[d]
<1>1. /\ requests \in [Tabs -> [Slots -> Request]]
      /\ held \in [Tabs -> Held] /\ phase \in [Tabs -> Phases]
      /\ refresh \in [Tabs -> [pc : {"none", "sent", "accepted"}, pair : Held]]
  BY DEF WebTypeOK
<1>2. \A rs \in SUBSET Slots : Rejected(t, rs) => phase'[d] = phase[d] /\ held'[d] = held[d]
  BY <1>1 DEF Rejected, Forget, Persist
<1>3. \A p : Persist(t, p) => held'[d] = held[d] BY <1>1 DEF Persist
<1>4. \A s \in Slots : \A r : SetSlot(t, s, r) => requests'[d] = requests[d]
  BY <1>1 DEF SetSlot
<1>5. CASE PageStep(t)
  BY <1>1, <1>3, <1>4, <1>5
     DEF PageStep, Open, Unload, RecordActivity, SignOutHere, Forget, SendRequest
<1>6. CASE RefreshStep(t)
  <2>1. WaitingIn(t) \in SUBSET Slots BY DEF WaitingIn
  <2> QED BY <1>1, <1>2, <1>3, <1>6, <2>1
          DEF RefreshStep, RefreshAccepted, Refreshed, RefreshRefused, RefreshLost, SetTokens,
              Forget, EndRefresh, Drop
<1>7. ASSUME NEW s \in Slots, SlotStep(t, s)
      PROVE  /\ phase'[d] = phase[d] /\ held'[d] = held[d]
             /\ refresh'[d] = refresh[d] /\ requests'[d] = requests[d]
  <2>1. {s} \in SUBSET Slots OBVIOUS
  <2>2. requests'[d] = requests[d]
    BY <1>1, <1>4, <1>7 DEF SlotStep, Navigate, Ask, Answered, Failed, Unauthorised, Joins, RefusedAgain,
       NothingToRefreshWith, SubmitLogin, LoginAnswered, Done, SendRequest
  <2>3. phase'[d] = phase[d] /\ held'[d] = held[d]
    BY <1>1, <1>2, <1>3, <1>7, <2>1 DEF SlotStep, Navigate, Ask, Answered, Failed, Unauthorised,
       RefusedAgain, NothingToRefreshWith, SubmitLogin, LoginAnswered, Forget
  <2>4. refresh'[d] = refresh[d]
    BY <1>1, <1>7 DEF SlotStep, Navigate, Ask, Answered, Failed, Unauthorised, Joins, RefusedAgain,
       NothingToRefreshWith, SubmitLogin, LoginAnswered
  <2> QED BY <2>2, <2>3, <2>4
<1> QED BY <1>5, <1>6, <1>7

\* What an answer that is rejected, or a sign-out, leaves of the phase.
LEMMA SlotsKeepShut ==
  ASSUME WebTypeOK, Shut, NEW t \in Tabs, NEW s \in Slots, SlotStep(t, s)
  PROVE  phase[t] # "closed" /\ phase'[t] # "closed"
<1>1. phase \in [Tabs -> Phases] BY DEF WebTypeOK
<1>2. phase[t] # "closed"
  BY DEF SlotStep, Navigate, Ask, Answered, Failed, Unauthorised, RefusedAgain,
     NothingToRefreshWith, SubmitLogin, LoginAnswered, Slot, Shut
<1>3. phase'[t] # "closed"
  BY <1>1, <1>2 DEF SlotStep, Navigate, Ask, Answered, Failed, Unauthorised, RefusedAgain, Rejected,
     NothingToRefreshWith, SubmitLogin, LoginAnswered
<1> QED BY <1>2, <1>3

LEMMA RefreshKeepsShut ==
  ASSUME WebTypeOK, Shut, NEW t \in Tabs, RefreshStep(t)
  PROVE  phase[t] # "closed" /\ phase'[t] # "closed"
<1>1. phase \in [Tabs -> Phases] BY DEF WebTypeOK
<1>2. phase[t] # "closed"
  BY DEF RefreshStep, RefreshAccepted, Refreshed, RefreshRefused, RefreshLost, Shut
<1>3. phase'[t] # "closed"
  BY <1>1, <1>2 DEF RefreshStep, RefreshAccepted, Refreshed, RefreshRefused, RefreshLost, Rejected
<1> QED BY <1>2, <1>3

LEMMA ShutKeeps ==
  ASSUME WebTypeOK, Shut, WebNext
  PROVE  Shut'
<1>1. /\ requests \in [Tabs -> [Slots -> Request]]
      /\ held \in [Tabs -> Held] /\ phase \in [Tabs -> Phases]
      /\ refresh \in [Tabs -> [pc : {"none", "sent", "accepted"}, pair : Held]]
  BY DEF WebTypeOK
<1>2. ASSUME NEW t \in Tabs, PageStep(t) \/ RefreshStep(t) \/ \E s \in Slots : SlotStep(t, s)
      PROVE  Shut'
  <2>1. ASSUME phase'[t] = "closed"
        PROVE  /\ held'[t] = NoPair /\ refresh'[t].pc = "none"
               /\ \A s \in Slots : requests'[t][s].pc = "idle"
    <3>1. Unload(t)
      BY <1>1, <1>2, <2>1, SlotsKeepShut, RefreshKeepsShut
         DEF PageStep, Open, RecordActivity, SignOutHere
    <3>2. NoRequest.pc = "idle" /\ NoRefresh.pc = "none" BY DEF NoRequest, NoRefresh
    <3> QED BY <1>1, <3>1, <3>2 DEF Unload
  <2> QED BY <1>2, <2>1, TabMovesAlone DEF Shut
<1>3. ASSUME (\E p \in Pairs : ExpireAccess(p)) \/ (\E u \in Users : RevokeSessions(u))
      PROVE  Shut'
  BY <1>3 DEF ExpireAccess, RevokeSessions, webVars, Shut
<1> QED BY <1>2, <1>3 DEF WebNext, PageStep, RefreshStep, SlotStep

LEMMA AcceptingKeeps ==
  ASSUME ServerTypeOK, WebTypeOK, Accepting, WebNext
  PROVE  Accepting'
<1>1. refresh \in [Tabs -> [pc : {"none", "sent", "accepted"}, pair : Held]]
  BY DEF WebTypeOK
<1>2. live \subseteq Pairs BY DEF ServerTypeOK
<1>3. NoRefresh.pc = "none" BY DEF NoRefresh
<1>4. ASSUME NEW t \in Tabs, PageStep(t) \/ RefreshStep(t) \/ \E s \in Slots : SlotStep(t, s),
             refresh'[t].pc = "accepted"
      PROVE  refresh'[t].pair \in Pairs
  <2>1. CASE RefreshAccepted(t)
    <3>1. refresh[t].pair \in Pairs /\ refresh'[t] = [refresh[t] EXCEPT !.pc = "accepted"]
      BY <1>1, <1>2, <2>1 DEF RefreshAccepted
    <3>2. refresh'[t].pair = refresh[t].pair BY <1>1, <3>1
    <3> QED BY <3>1, <3>2
  <2>2. CASE ~RefreshAccepted(t)
    <3>1. refresh'[t] = refresh[t] \/ refresh'[t].pc \in {"none", "sent"}
      <4>1. CASE PageStep(t) \/ RefreshStep(t)
        BY <1>1, <1>3, <2>2, <4>1 DEF PageStep, Open, Unload, RecordActivity, SignOutHere,
           RefreshStep, Refreshed, RefreshRefused, RefreshLost, EndRefresh
      <4>2. ASSUME NEW s \in Slots, Unauthorised(t, s)
            PROVE  refresh'[t] = refresh[t] \/ refresh'[t].pc \in {"none", "sent"}
        BY <1>1, <4>2 DEF Unauthorised, Joins
      <4>3. ASSUME NEW s \in Slots, SlotStep(t, s), ~Unauthorised(t, s)
            PROVE  refresh' = refresh
        BY <4>3 DEF SlotStep, Navigate, Ask, Answered, Failed, RefusedAgain,
           NothingToRefreshWith, SubmitLogin, LoginAnswered
      <4> QED BY <1>4, <4>1, <4>2, <4>3
    <3> QED BY <1>4, <3>1 DEF Accepting
  <2> QED BY <2>1, <2>2
<1>5. ASSUME NEW t \in Tabs, PageStep(t) \/ RefreshStep(t) \/ \E s \in Slots : SlotStep(t, s)
      PROVE  Accepting'
  BY <1>4, <1>5, TabMovesAlone DEF Accepting
<1>6. ASSUME (\E p \in Pairs : ExpireAccess(p)) \/ (\E u \in Users : RevokeSessions(u))
      PROVE  Accepting'
  BY <1>6 DEF ExpireAccess, RevokeSessions, webVars, Accepting
<1> QED BY <1>5, <1>6 DEF WebNext, PageStep, RefreshStep, SlotStep

\* A request is new, over, unchanged, sent on to wait, or sent again.
LEMMA RetriesKeep ==
  ASSUME WebTypeOK, Retries, WebNext
  PROVE  Retries'
<1>1. requests \in [Tabs -> [Slots -> Request]] BY DEF WebTypeOK
<1>2. AnswerIsTrue(NoRequest) BY DEF AnswerIsTrue, NoRequest
<1>3. \A kind, good : AnswerIsTrue([pc |-> "sent", kind |-> kind, good |-> good, retried |-> FALSE])
  BY DEF AnswerIsTrue
<1>4. \A t \in Tabs, s \in Slots : requests[t][s] \in Request /\ AnswerIsTrue(requests[t][s])
  BY <1>1 DEF Retries
<1>5. ASSUME NEW t \in Tabs, NEW s \in Slots, NEW r, AnswerIsTrue(r), SetSlot(t, s, r)
      PROVE  \A q \in Slots : AnswerIsTrue(requests'[t][q])
  BY <1>1, <1>4, <1>5 DEF SetSlot
<1>6. ASSUME NEW t \in Tabs, PageStep(t) PROVE \A q \in Slots : AnswerIsTrue(requests'[t][q])
  <2>1. CASE Open(t)
    <3>1. PICK s \in Slots : SendRequest(t, s, "boot", storage \in fresh) BY <2>1 DEF Open
    <3> DEFINE r == [pc |-> "sent", kind |-> "boot", good |-> storage \in fresh, retried |-> FALSE]
    <3>2. AnswerIsTrue(r) BY <1>3
    <3>3. SetSlot(t, s, r) BY <3>1 DEF SendRequest
    <3> HIDE DEF r
    <3> QED BY <1>5, <3>2, <3>3
  <2>2. CASE Unload(t) BY <1>1, <1>2, <2>2 DEF Unload
  <2>3. CASE RecordActivity(t) \/ SignOutHere(t)
    BY <1>4, <2>3 DEF RecordActivity, SignOutHere
  <2> QED BY <1>6, <2>1, <2>2, <2>3 DEF PageStep
<1>7. ASSUME NEW t \in Tabs, RefreshStep(t) PROVE \A q \in Slots : AnswerIsTrue(requests'[t][q])
  <2>1. CASE Refreshed(t)
    <3> SUFFICES ASSUME NEW q \in Slots PROVE AnswerIsTrue(requests'[t][q]) OBVIOUS
    <3> DEFINE r == requests[t][q]
               x == [r EXCEPT !.pc = "sent", !.good = r.kind # "login"]
    <3>1. requests'[t][q] = IF Slot(t, q, "waiting") THEN x ELSE r
      BY <1>1, <2>1 DEF Refreshed
    <3>2. r \in Request /\ AnswerIsTrue(r) BY <1>4
    <3>3. x.pc = "sent" /\ x.kind = r.kind /\ x.good = (r.kind # "login") BY <3>2 DEF Request
    <3>4. AnswerIsTrue(x)
      <4> HIDE DEF x
      <4> QED BY <3>3 DEF AnswerIsTrue
    <3> QED BY <3>1, <3>2, <3>4
  <2>2. CASE \E rs \in SUBSET Slots : Drop(t, rs)
    BY <1>1, <1>2, <1>4, <2>2 DEF Drop
  <2>3. CASE RefreshAccepted(t) BY <1>4, <2>3 DEF RefreshAccepted
  <2> QED BY <1>7, <2>1, <2>2, <2>3 DEF RefreshStep, RefreshRefused, RefreshLost, WaitingIn
<1>8. ASSUME NEW t \in Tabs, NEW s \in Slots, SlotStep(t, s)
      PROVE  \A q \in Slots : AnswerIsTrue(requests'[t][q])
  <2>1. CASE Ask(t, s) \/ (\E right \in BOOLEAN : SubmitLogin(t, s, right)) \/ \E u \in Users : LoginAnswered(t, s, u)
    <3>1. PICK kind, good :
             SetSlot(t, s, [pc |-> "sent", kind |-> kind, good |-> good, retried |-> FALSE])
      BY <2>1, Zenon DEF Ask, SubmitLogin, LoginAnswered, SendRequest
    <3> DEFINE r == [pc |-> "sent", kind |-> kind, good |-> good, retried |-> FALSE]
    <3>2. AnswerIsTrue(r) BY <1>3
    <3> HIDE DEF r
    <3> QED BY <1>5, <3>1, <3>2 DEF r
  <2>2. CASE Unauthorised(t, s)
    <3> DEFINE r == requests[t][s]
               x == [r EXCEPT !.pc = "waiting", !.retried = TRUE]
    <3>1. SetSlot(t, s, x) BY <2>2 DEF Unauthorised, Joins
    <3>2. r \in Request BY <1>4
    <3>3. x.pc = "waiting" /\ x.retried BY <3>2 DEF Request
    <3>4. AnswerIsTrue(x)
      <4> HIDE DEF x
      <4> QED BY <3>3 DEF AnswerIsTrue
    <3> HIDE DEF x
    <3> QED BY <1>5, <3>1, <3>4
  <2>3. CASE Done(t, s) BY <1>2, <1>5, <2>3 DEF Done
  <2>4. CASE Navigate(t, s)
    <3> SUFFICES ASSUME NEW q \in Slots PROVE AnswerIsTrue(requests'[t][q]) OBVIOUS
    <3> DEFINE r == requests[t][q]
    <3>1. r \in Request /\ AnswerIsTrue(r) BY <1>4
    <3>2. AnswerIsTrue([r EXCEPT !.kind = "api"]) \/ r.kind # "boot"
      <4> HIDE DEF r
      <4>1. [r EXCEPT !.kind = "api"].pc = r.pc /\ [r EXCEPT !.kind = "api"].retried = r.retried
            /\ [r EXCEPT !.kind = "api"].good = r.good
        BY <3>1 DEF Request
      <4> QED BY <3>1, <4>1 DEF AnswerIsTrue
    <3>3. requests'[t][q] = r \/ (r.kind = "boot" /\ requests'[t][q] = [r EXCEPT !.kind = "api"])
          \/ requests'[t][q] = [pc |-> "sent", kind |-> "boot", good |-> held[t] \in fresh,
                                retried |-> FALSE]
      BY <1>1, <2>4 DEF Navigate
    <3>4. AnswerIsTrue([pc |-> "sent", kind |-> "boot", good |-> held[t] \in fresh, retried |-> FALSE])
      BY DEF AnswerIsTrue
    <3> HIDE DEF r
    <3> QED BY <3>1, <3>2, <3>3, <3>4
  <2> QED BY <1>8, <2>1, <2>2, <2>3, <2>4
          DEF SlotStep, Answered, Failed, RefusedAgain, NothingToRefreshWith
<1>9. ASSUME NEW t \in Tabs, PageStep(t) \/ RefreshStep(t) \/ \E s \in Slots : SlotStep(t, s)
      PROVE  Retries'
  <2>1. \A s \in Slots : AnswerIsTrue(requests'[t][s]) BY <1>6, <1>7, <1>8, <1>9
  <2>2. \A d \in Tabs : d # t => requests'[d] = requests[d] BY <1>9, TabMovesAlone
  <2> QED BY <1>4, <2>1, <2>2 DEF Retries
<1>10. ASSUME (\E p \in Pairs : ExpireAccess(p)) \/ (\E u \in Users : RevokeSessions(u))
       PROVE  Retries'
  BY <1>10 DEF ExpireAccess, RevokeSessions, webVars, Retries
<1> QED BY <1>9, <1>10 DEF WebNext, PageStep, RefreshStep, SlotStep

\* No request of a steady tab is refused twice, so a rejection signs nobody out.
LEMMA NothingRejected ==
  ASSUME Retries, NEW t \in Tabs, NEW s \in Slots, RefusedAgain(t, s)
  PROVE  UNCHANGED <<held, storage, phase, signedOut>>
<1>1. requests[t][s].kind # "boot"
  BY DEF RefusedAgain, Slot, Retries, AnswerIsTrue
<1> QED BY <1>1 DEF RefusedAgain, Rejected, Bootstraps

LEMMA OneSessionKeeps ==
  ASSUME WebInv, WebNext, steady'
  PROVE  /\ OneSession'
         /\ \A t \in Tabs : held[t] # NoPair /\ held'[t] = NoPair =>
               phase'[t] \in {"closed", "leaving"}
<1>1. /\ requests \in [Tabs -> [Slots -> Request]]
      /\ held \in [Tabs -> Held] /\ storage \in Held /\ phase \in [Tabs -> Phases]
      /\ refresh \in [Tabs -> [pc : {"none", "sent", "accepted"}, pair : Held]]
      /\ live \subseteq Pairs
  BY DEF WebInv, WebTypeOK, ServerTypeOK
<1>2. NoRefresh.pc = "none" /\ NoPair \notin Pairs BY DEF NoRefresh, NoPair, Pairs
<1>3. ASSUME NEW t \in Tabs, PageStep(t) \/ RefreshStep(t) \/ \E s \in Slots : SlotStep(t, s),
             steady,
             \/ /\ UNCHANGED <<storage, signedOut>>
                /\ phase'[t] # "closed" => held'[t] = storage
                /\ held[t] # NoPair => held'[t] # NoPair \/ phase'[t] = "closed"
                /\ live \subseteq live'
                /\ refresh'[t].pc # "none" => refresh'[t].pair \in live' /\ ~signedOut
             \/ /\ ~OthersOpen(t)
                /\ held'[t] = storage' /\ storage' \in live' \cup {NoPair}
                /\ held[t] # NoPair /\ storage' = NoPair => phase'[t] = "leaving"
                /\ signedOut' => storage' = NoPair /\ refresh'[t].pc = "none"
                /\ refresh'[t].pc # "none" => refresh'[t].pair \in live'
      PROVE  /\ OneSession'
             /\ \A d \in Tabs : held[d] # NoPair /\ held'[d] = NoPair =>
                   phase'[d] \in {"closed", "leaving"}
  <2>1. OneSession BY <1>3 DEF WebInv
  <2>2. \A d \in Tabs : d # t =>
          /\ phase'[d] = phase[d] /\ held'[d] = held[d] /\ refresh'[d] = refresh[d]
    BY <1>3, TabMovesAlone DEF WebInv
  <2>3. ~OthersOpen(t) => \A d \in Tabs : d # t => phase[d] = "closed" /\ refresh[d].pc = "none"
    BY DEF WebInv, Shut, OthersOpen
  <2>4. \A d \in Tabs : d # t /\ held[d] # NoPair => held'[d] # NoPair BY <2>2
  <2>5. CASE /\ UNCHANGED <<storage, signedOut>>
             /\ phase'[t] # "closed" => held'[t] = storage
             /\ held[t] # NoPair => held'[t] # NoPair \/ phase'[t] = "closed"
             /\ live \subseteq live'
             /\ refresh'[t].pc # "none" => refresh'[t].pair \in live' /\ ~signedOut
    BY <2>1, <2>2, <2>4, <2>5 DEF OneSession
  <2>6. CASE /\ ~OthersOpen(t)
             /\ held'[t] = storage' /\ storage' \in live' \cup {NoPair}
             /\ held[t] # NoPair /\ storage' = NoPair => phase'[t] = "leaving"
             /\ signedOut' => storage' = NoPair /\ refresh'[t].pc = "none"
             /\ refresh'[t].pc # "none" => refresh'[t].pair \in live'
    BY <2>2, <2>3, <2>4, <2>6 DEF OneSession
  <2> QED BY <1>3, <2>5, <2>6
<1>4. ASSUME NEW t \in Tabs, PageStep(t) PROVE OneSession' /\ \A d \in Tabs :
        held[d] # NoPair /\ held'[d] = NoPair => phase'[d] \in {"closed", "leaving"}
  <2>1. steady BY <1>4, Zenon DEF PageStep, Open, Unload, RecordActivity, SignOutHere, Quietly
  <2>2. OneSession BY <2>1 DEF WebInv
  <2>3. live' = live BY <1>4 DEF PageStep, Open, Unload, RecordActivity, SignOutHere, serverVars
  <2>4. CASE Open(t)
    <3>1. held'[t] = storage /\ held[t] = NoPair /\ refresh'[t].pc = "none"
      BY <1>1, <2>4 DEF Open, WebInv, Shut
    <3>2. UNCHANGED <<storage, signedOut>> BY <2>4 DEF Open, Quietly
    <3> QED BY <1>3, <1>4, <2>1, <2>3, <3>1, <3>2
  <2>5. CASE Unload(t)
    <3>1. phase'[t] = "closed" /\ refresh'[t].pc = "none" BY <1>1, <1>2, <2>5 DEF Unload
    <3>2. UNCHANGED <<storage, signedOut>> BY <2>5 DEF Unload
    <3> QED BY <1>3, <1>4, <2>1, <2>3, <3>1, <3>2
  <2>6. CASE RecordActivity(t)
    <3>1. held'[t] = held[t] /\ storage' = held[t] /\ held[t] # NoPair /\ phase[t] # "closed"
      BY <1>1, <2>6 DEF RecordActivity, Persist
    <3>2. UNCHANGED <<signedOut, refresh>> BY <2>6 DEF RecordActivity, Quietly
    <3>3. held[t] = storage BY <2>2, <3>1 DEF OneSession
    <3> QED BY <1>3, <1>4, <2>1, <2>2, <2>3, <3>1, <3>2, <3>3 DEF OneSession
  <2>7. CASE SignOutHere(t)
    <3>1. ~OthersOpen(t) /\ refresh[t].pc = "none" /\ refresh' = refresh
      BY <2>7, Zenon DEF SignOutHere
    <3>2. held'[t] = NoPair /\ storage' = NoPair /\ phase'[t] = "leaving"
      BY <1>1, <2>7 DEF SignOutHere, Forget, Persist
    <3> QED BY <1>3, <1>4, <2>1, <3>1, <3>2
  <2> QED BY <1>4, <2>4, <2>5, <2>6, <2>7 DEF PageStep
<1>5. ASSUME NEW t \in Tabs, RefreshStep(t) PROVE OneSession' /\ \A d \in Tabs :
        held[d] # NoPair /\ held'[d] = NoPair => phase'[d] \in {"closed", "leaving"}
  <2>1. steady /\ (Refreshed(t) => ~OthersOpen(t)) /\ ~RefreshLost(t)
    BY <1>5, Zenon DEF RefreshStep, RefreshAccepted, Refreshed, RefreshRefused, RefreshLost,
       Quietly, SteadyIfAlone
  <2>2. OneSession BY <2>1 DEF WebInv
  <2>3. phase[t] # "closed" BY <1>5, RefreshKeepsShut DEF WebInv
  <2>4. held[t] = storage BY <2>2, <2>3 DEF OneSession
  <2>5. CASE RefreshAccepted(t)
    <3>1. refresh'[t] = [refresh[t] EXCEPT !.pc = "accepted"] BY <1>1, <2>5 DEF RefreshAccepted
    <3>2. refresh'[t].pair = refresh[t].pair BY <1>1, <3>1
    <3>3. UNCHANGED <<storage, signedOut, held, live, phase>>
      BY <2>5 DEF RefreshAccepted, Quietly, serverVars
    <3>4. ~signedOut BY <2>2, <2>5 DEF RefreshAccepted, OneSession
    <3>5. refresh[t].pair \in live BY <2>5 DEF RefreshAccepted
    <3> QED BY <1>3, <1>5, <2>1, <2>4, <3>2, <3>3, <3>4, <3>5
  <2>6. CASE Refreshed(t)
    <3>1. PICK p \in Pairs : Rotate(refresh[t].pair, p) /\ SetTokens(t, p) BY <2>6 DEF Refreshed
    <3>2. held'[t] = p /\ storage' = p /\ refresh'[t].pc = "none"
      BY <1>1, <1>2, <2>6, <3>1 DEF Refreshed, EndRefresh, SetTokens, Persist
    <3>3. p \in live' BY <3>1 DEF Rotate
    <3>4. ~signedOut' BY <2>2, <2>6 DEF Refreshed, OneSession, SteadyIfAlone
    <3>5. p # NoPair BY <1>2
    <3> QED BY <1>3, <1>5, <2>1, <2>6, <3>2, <3>3, <3>4, <3>5
  <2>7. CASE RefreshRefused(t) BY <2>2, <2>7 DEF RefreshRefused, OneSession
  <2> QED BY <1>5, <2>1, <2>5, <2>6, <2>7 DEF RefreshStep
<1>6. ASSUME NEW t \in Tabs, NEW s \in Slots, SlotStep(t, s) PROVE OneSession' /\ \A d \in Tabs :
        held[d] # NoPair /\ held'[d] = NoPair => phase'[d] \in {"closed", "leaving"}
  <2>1. /\ steady /\ ~Failed(t, s)
        /\ NothingToRefreshWith(t, s) \/ (\E u \in Users : LoginAnswered(t, s, u)) => ~OthersOpen(t)
    BY <1>6, Zenon DEF SlotStep, Navigate, Ask, Answered, Failed, Unauthorised, RefusedAgain,
       NothingToRefreshWith, SubmitLogin, LoginAnswered, Quietly, SteadyIfAlone
  <2>2. OneSession BY <2>1 DEF WebInv
  <2>3. phase[t] # "closed" BY <1>6, SlotsKeepShut DEF WebInv
  <2>4. held[t] = storage BY <2>2, <2>3 DEF OneSession
  <2>5. refresh[t].pc # "none" => refresh[t].pair \in live /\ ~signedOut BY <2>2 DEF OneSession
  <2>6. CASE Navigate(t, s) \/ Ask(t, s) \/ RefusedAgain(t, s) \/ \E right \in BOOLEAN : SubmitLogin(t, s, right)
    <3>1. UNCHANGED <<storage, held, signedOut, refresh, live>>
      BY <2>6, NothingRejected DEF WebInv, Navigate, Ask, RefusedAgain, SubmitLogin, Quietly, serverVars
    <3> QED BY <1>3, <1>6, <2>1, <2>4, <2>5, <3>1
  <2>7. CASE Answered(t, s)
    <3>1. UNCHANGED <<signedOut, refresh, live>> BY <2>7 DEF Answered, Quietly, serverVars
    <3>2. storage' = storage /\ held'[t] = held[t]
      BY <1>1, <2>4, <2>7 DEF Answered, Persist
    <3> QED BY <1>3, <1>6, <2>1, <2>4, <2>5, <3>1, <3>2
  <2>8. ASSUME NEW u \in Users, LoginAnswered(t, s, u) PROVE OneSession' /\ \A d \in Tabs :
          held[d] # NoPair /\ held'[d] = NoPair => phase'[d] \in {"closed", "leaving"}
    <3>1. PICK p \in Pairs : Issue(u, p) /\ Persist(t, p) BY <2>8 DEF LoginAnswered
    <3>2. p \in live' /\ live \subseteq live' BY <3>1 DEF Issue
    <3>3. held'[t] = p /\ storage' = p BY <1>1, <3>1 DEF Persist
    <3>4. ~signedOut' /\ refresh' = refresh BY <2>8 DEF LoginAnswered
    <3>5. p # NoPair BY <1>2
    <3> QED BY <1>3, <1>6, <2>1, <2>5, <2>8, <3>2, <3>3, <3>4, <3>5
  <2>9. CASE Unauthorised(t, s)
    <3>1. UNCHANGED <<storage, held, signedOut, live>>
      BY <2>9 DEF Unauthorised, Quietly, serverVars
    <3>2. \/ refresh'[t] = refresh[t] /\ refresh[t].pc # "none"
          \/ refresh'[t].pair = held[t] /\ held[t] # NoPair
      BY <1>1, <2>9 DEF Unauthorised, Joins
    <3>3. held[t] # NoPair => held[t] \in live /\ ~signedOut BY <2>2, <2>4 DEF OneSession
    <3> QED BY <1>3, <1>6, <2>1, <2>4, <2>5, <3>1, <3>2, <3>3
  <2>10. CASE NothingToRefreshWith(t, s)
    <3>1. held'[t] = NoPair /\ storage' = NoPair /\ refresh' = refresh /\ refresh[t].pc = "none"
      BY <1>1, <2>10 DEF NothingToRefreshWith, Forget, Persist
    <3>2. held[t] = NoPair BY <2>10 DEF NothingToRefreshWith
    <3> QED BY <1>3, <1>6, <2>1, <2>10, <3>1, <3>2
  <2> QED BY <1>6, <2>1, <2>6, <2>7, <2>8, <2>9, <2>10 DEF SlotStep
<1>7. ASSUME NEW p \in Pairs, ExpireAccess(p) PROVE OneSession' /\ \A d \in Tabs :
        held[d] # NoPair /\ held'[d] = NoPair => phase'[d] \in {"closed", "leaving"}
  <2>1. UNCHANGED <<live, webVars>> BY <1>7 DEF ExpireAccess
  <2> QED BY <2>1 DEF webVars, WebInv, OneSession
<1>8. ASSUME NEW u \in Users, RevokeSessions(u) PROVE FALSE BY <1>8 DEF RevokeSessions, Lost
<1> QED BY <1>4, <1>5, <1>6, <1>7, <1>8 DEF WebNext, PageStep, RefreshStep, SlotStep

LEMMA WebKeeps ==
  ASSUME WebInv, WebNext
  PROVE  WebInv'
<1>1. ServerTypeOK' /\ WebTypeOK' BY WebTyped DEF WebInv
<1>2. Accepting' /\ Shut' /\ Retries' BY AcceptingKeeps, ShutKeeps, RetriesKeep DEF WebInv
<1>3. steady' => OneSession' BY OneSessionKeeps
<1> QED BY <1>1, <1>2, <1>3 DEF WebInv

-----------------------------------------------------------------------------
(* The mobile app *)

\* The pairs a call is given, and the steps in which it has one.
Given == {"refreshing", "accepted", "saveAccess", "saveRefresh", "saved"}
StoringPcs == {"saveAccess", "saveRefresh", "saved"}
Wiped == {"dropAccess", "dropRefresh", "dropped"}

CallIsWhole(x) ==
    /\ x.pc \in Given <=> x.pair # NoPair
    /\ x.kind = "me" /\ x.pc \in Given \cup {"sent"} => x.token # NoPair
    /\ x.kind # "me" => x.token = NoPair
    /\ x.kind = "setAuth" => x.pc \in StoringPcs
    /\ x.kind = "logout" => x.pc \in Wiped
    /\ x.kind \in {"login", "setAuth"} /\ x.pc \notin Wiped => x.who # Nobody
    /\ x.pc = "idle" => x.kind = "api"

\* Before it has read the secure store the app has no session and asks nothing.
Whole ==
    /\ \A c \in Calls : CallIsWhole(calls[c])
    /\ ~isHydrated => /\ user = Nobody
                      /\ accessToken = NoPair /\ refreshToken = NoPair
                      /\ \A c \in Calls : At(c, "idle")

\* A step of one call.
CallStep(c) ==
    \/ StartApi(c) \/ LoadUser(c) \/ Logout(c)
    \/ \E u \in Users, right \in BOOLEAN : Login(c, u, right)
    \/ Accepted(c) \/ LoggedIn(c) \/ NoAnswer(c)
    \/ Unauthorized(c) \/ UnauthorizedAgain(c) \/ NothingToRefresh(c)
    \/ Verify(c) \/ Rotated(c) \/ Refused(c) \/ LoseRefresh(c)
    \/ SaveAccess(c) \/ SaveRefresh(c) \/ SetAuth(c) \/ UpdateTokens(c)
    \/ DropAccess(c) \/ DropRefresh(c) \/ ClearAuth(c)

LEMMA CallForms ==
  /\ Idle \in Call /\ Idle.pc = "idle" /\ Idle.kind = "api"
  /\ Idle.token = NoPair /\ Idle.pair = NoPair
  /\ \A kind \in Kinds, pc \in Places, token \in Tokens, good \in BOOLEAN :
        [Idle EXCEPT !.kind = kind, !.pc = pc, !.token = token, !.good = good] \in Call
  /\ \A kind \in Kinds, pc \in Places, who \in Users \cup {Nobody}, good \in BOOLEAN :
        [Idle EXCEPT !.kind = kind, !.pc = pc, !.who = who, !.good = good] \in Call
  /\ \A kind \in Kinds, pc \in Places, again \in BOOLEAN :
        [Idle EXCEPT !.kind = kind, !.pc = pc, !.again = again] \in Call
<1>1. NoPair \in Tokens BY DEF Tokens
<1>2. Idle \in Call BY <1>1 DEF Idle, Call, Kinds, Places
<1>3. /\ Idle.pc = "idle" /\ Idle.kind = "api"
      /\ Idle.token = NoPair /\ Idle.pair = NoPair
  BY DEF Idle
<1>4. \A kind \in Kinds, pc \in Places, token \in Tokens, good \in BOOLEAN :
        [Idle EXCEPT !.kind = kind, !.pc = pc, !.token = token, !.good = good] \in Call
  BY <1>2 DEF Call
<1>5. \A kind \in Kinds, pc \in Places, who \in Users \cup {Nobody}, good \in BOOLEAN :
        [Idle EXCEPT !.kind = kind, !.pc = pc, !.who = who, !.good = good] \in Call
  BY <1>2 DEF Call
<1>6. \A kind \in Kinds, pc \in Places, again \in BOOLEAN :
        [Idle EXCEPT !.kind = kind, !.pc = pc, !.again = again] \in Call
  BY <1>2 DEF Call
<1> QED BY <1>2, <1>3, <1>4, <1>5, <1>6

LEMMA WipeMoves ==
  ASSUME calls \in [Calls -> Call], NEW c \in Calls, NEW again \in BOOLEAN, Wipe(c, again)
  PROVE  /\ calls' \in [Calls -> Call]
         /\ \A d \in Calls : d # c => calls'[d] = calls[d]
         /\ calls'[c].pc = "dropAccess" /\ calls'[c].kind = calls[c].kind
         /\ calls'[c].token = NoPair /\ calls'[c].pair = NoPair
<1> DEFINE x == [Idle EXCEPT !.kind = calls[c].kind, !.pc = "dropAccess",
                             !.again = again /\ calls[c].kind = "me"]
<1>1. calls[c].kind \in Kinds /\ "dropAccess" \in Places BY DEF Call, Places
<1> DEFINE b == again /\ calls[c].kind = "me"
<1>2. b \in BOOLEAN OBVIOUS
<1>3. x \in Call
  <2> HIDE DEF b
  <2>1. [Idle EXCEPT !.kind = calls[c].kind, !.pc = "dropAccess", !.again = b] \in Call
    BY <1>1, <1>2, CallForms
  <2> QED BY <2>1 DEF b
<1>4. x.pc = "dropAccess" /\ x.kind = calls[c].kind /\ x.token = NoPair /\ x.pair = NoPair
  BY DEF Idle
<1>5. calls' = [calls EXCEPT ![c] = x] BY DEF Wipe
<1> HIDE DEF x
<1> QED BY <1>3, <1>4, <1>5

LEMMA EndMoves ==
  ASSUME calls \in [Calls -> Call], NEW c \in Calls, End(c)
  PROVE  /\ calls' \in [Calls -> Call]
         /\ \A d \in Calls : d # c => calls'[d] = calls[d]
         /\ calls'[c].pc = "idle" /\ calls'[c].kind = "api"
         /\ calls'[c].token = NoPair /\ calls'[c].pair = NoPair
BY CallForms DEF End

LEMMA MoveMoves ==
  ASSUME calls \in [Calls -> Call], NEW c \in Calls, NEW pc \in Places, Move(c, pc)
  PROVE  /\ calls' \in [Calls -> Call]
         /\ \A d \in Calls : d # c => calls'[d] = calls[d]
         /\ calls'[c].pc = pc /\ calls'[c].kind = calls[c].kind
         /\ calls'[c].token = calls[c].token /\ calls'[c].pair = calls[c].pair
         /\ calls'[c].who = calls[c].who
<1>1. calls'[c] = [calls[c] EXCEPT !.pc = pc] BY DEF Move
<1>2. calls[c] \in Call OBVIOUS
<1>3. calls'[c] \in Call BY <1>1, <1>2 DEF Call
<1>4. calls' = [calls EXCEPT ![c] = calls'[c]] BY <1>1 DEF Move
<1> QED BY <1>1, <1>2, <1>3, <1>4 DEF Call

LEMMA SendMoves ==
  ASSUME MobileTypeOK, NEW c \in Calls, NEW kind \in {"api", "me"}, Send(c, kind)
  PROVE  /\ calls' \in [Calls -> Call]
         /\ \A d \in Calls : d # c => calls'[d] = calls[d]
         /\ calls'[c].pc = "sent" /\ calls'[c].kind = kind /\ calls'[c].pair = NoPair
         /\ calls'[c].token = IF kind = "me" THEN accessToken ELSE NoPair
         /\ ~calls'[c].retried
<1> DEFINE x == [Idle EXCEPT !.kind = kind, !.pc = "sent", !.token = Asked(kind, accessToken),
                             !.good = accessToken \in fresh]
<1>1. kind \in Kinds /\ "sent" \in Places BY DEF Kinds, Places
<1>2. (accessToken \in fresh) \in BOOLEAN OBVIOUS
<1>3. Asked(kind, accessToken) \in Tokens BY DEF Asked, Tokens, MobileTypeOK
<1>4. x \in Call BY <1>1, <1>2, <1>3, CallForms
<1>5. /\ x.pc = "sent" /\ x.kind = kind /\ x.pair = NoPair /\ x.token = Asked(kind, accessToken)
      /\ ~x.retried
  BY DEF Idle
<1>6. calls \in [Calls -> Call] /\ calls' = [calls EXCEPT ![c] = x] BY DEF Send, MobileTypeOK
<1> HIDE DEF x
<1> QED BY <1>4, <1>5, <1>6 DEF Asked

LEMMA LoginMoves ==
  ASSUME calls \in [Calls -> Call], NEW c \in Calls, NEW u \in Users, NEW right \in BOOLEAN,
         Login(c, u, right)
  PROVE  /\ calls' \in [Calls -> Call]
         /\ \A d \in Calls : d # c => calls'[d] = calls[d]
         /\ calls'[c].pc = "sent" /\ calls'[c].kind = "login"
         /\ calls'[c].pair = NoPair /\ calls'[c].token = NoPair /\ calls'[c].who = u
         /\ ~calls'[c].retried
<1> DEFINE x == [Idle EXCEPT !.kind = "login", !.pc = "sent", !.who = u, !.good = right]
<1>1. "login" \in Kinds /\ "sent" \in Places BY DEF Kinds, Places
<1>2. x \in Call BY <1>1, CallForms
<1>3. /\ x.pc = "sent" /\ x.kind = "login" /\ x.pair = NoPair
      /\ x.token = NoPair /\ x.who = u /\ ~x.retried
  BY DEF Idle
<1>4. calls' = [calls EXCEPT ![c] = x] BY DEF Login
<1> HIDE DEF x
<1> QED BY <1>2, <1>3, <1>4

LEMMA LoggedInMoves ==
  ASSUME calls \in [Calls -> Call], NEW c \in Calls, NEW p \in Pairs,
         calls' = [calls EXCEPT ![c].kind = "setAuth", ![c].pc = "saveAccess", ![c].pair = p]
  PROVE  /\ calls' \in [Calls -> Call]
         /\ \A d \in Calls : d # c => calls'[d] = calls[d]
         /\ calls'[c].pc = "saveAccess" /\ calls'[c].kind = "setAuth" /\ calls'[c].pair = p
         /\ calls'[c].token = calls[c].token /\ calls'[c].who = calls[c].who
<1> DEFINE x == [calls[c] EXCEPT !.kind = "setAuth", !.pc = "saveAccess", !.pair = p]
<1>1. calls[c] \in Call /\ p \in Tokens BY DEF Tokens
<1>2. x \in Call BY <1>1 DEF Call, Kinds, Places
<1>3. /\ x.pc = "saveAccess" /\ x.kind = "setAuth" /\ x.pair = p
      /\ x.token = calls[c].token /\ x.who = calls[c].who
  BY <1>1 DEF Call
<1>4. calls' = [calls EXCEPT ![c] = x] OBVIOUS
<1> HIDE DEF x
<1> QED BY <1>2, <1>3, <1>4

LEMMA UnauthorizedMoves ==
  ASSUME MobileTypeOK, NEW c \in Calls, Unauthorized(c)
  PROVE  /\ calls' \in [Calls -> Call]
         /\ \A d \in Calls : d # c => calls'[d] = calls[d]
         /\ calls'[c].pc = "refreshing" /\ calls'[c].pair = refreshToken
         /\ calls'[c].kind = calls[c].kind /\ calls'[c].token = calls[c].token
         /\ calls'[c].who = calls[c].who
<1> DEFINE x == [calls[c] EXCEPT !.pc = "refreshing", !.pair = refreshToken, !.retried = TRUE]
<1>1. calls[c] \in Call /\ refreshToken \in Tokens BY DEF MobileTypeOK
<1>2. x \in Call BY <1>1 DEF Call, Places
<1>3. /\ x.pc = "refreshing" /\ x.pair = refreshToken
      /\ x.kind = calls[c].kind /\ x.token = calls[c].token /\ x.who = calls[c].who
  BY <1>1 DEF Call
<1>4. calls' = [calls EXCEPT ![c] = x] BY DEF Unauthorized
<1> HIDE DEF x
<1> QED BY <1>2, <1>3, <1>4 DEF MobileTypeOK

LEMMA RotatedMoves ==
  ASSUME calls \in [Calls -> Call], NEW c \in Calls, NEW p \in Pairs,
         calls' = [calls EXCEPT ![c].pc = "saveAccess", ![c].pair = p]
  PROVE  /\ calls' \in [Calls -> Call]
         /\ \A d \in Calls : d # c => calls'[d] = calls[d]
         /\ calls'[c].pc = "saveAccess" /\ calls'[c].pair = p
         /\ calls'[c].kind = calls[c].kind /\ calls'[c].token = calls[c].token
         /\ calls'[c].who = calls[c].who
<1> DEFINE x == [calls[c] EXCEPT !.pc = "saveAccess", !.pair = p]
<1>1. calls[c] \in Call /\ p \in Tokens BY DEF Tokens
<1>2. x \in Call BY <1>1 DEF Call, Places
<1>3. /\ x.pc = "saveAccess" /\ x.pair = p
      /\ x.kind = calls[c].kind /\ x.token = calls[c].token /\ x.who = calls[c].who
  BY <1>1 DEF Call
<1>4. calls' = [calls EXCEPT ![c] = x] OBVIOUS
<1> HIDE DEF x
<1> QED BY <1>2, <1>3, <1>4

LEMMA UpdateMoves ==
  ASSUME calls \in [Calls -> Call], NEW c \in Calls, UpdateTokens(c)
  PROVE  /\ calls' \in [Calls -> Call]
         /\ \A d \in Calls : d # c => calls'[d] = calls[d]
         /\ calls'[c].pc = "sent" /\ calls'[c].pair = NoPair
         /\ calls'[c].kind = calls[c].kind /\ calls'[c].who = calls[c].who
         /\ calls'[c].token = IF calls[c].kind = "me" THEN calls[c].pair ELSE NoPair
         /\ calls'[c].kind # "login" /\ calls[c].pair \in fresh => calls'[c].good
<1> DEFINE good == calls[c].kind # "login" /\ calls[c].pair \in fresh
           token == Asked(calls[c].kind, calls[c].pair)
           x == [calls[c] EXCEPT !.pc = "sent", !.pair = NoPair, !.token = token, !.good = good]
<1>1. calls[c] \in Call /\ NoPair \in Tokens BY DEF Tokens
<1>2. good \in BOOLEAN OBVIOUS
<1>3. token \in Tokens BY <1>1 DEF Asked, Call
<1>4. calls' = [calls EXCEPT ![c] = x] BY DEF UpdateTokens
<1> HIDE DEF good, token
<1>5. x \in Call BY <1>1, <1>2, <1>3 DEF Call, Places
<1>6. /\ x.pc = "sent" /\ x.pair = NoPair
      /\ x.kind = calls[c].kind /\ x.token = token /\ x.good = good /\ x.who = calls[c].who
  BY <1>1 DEF Call
<1> HIDE DEF x
<1> QED BY <1>4, <1>5, <1>6 DEF Asked, good, token

LEMMA LogoutMoves ==
  ASSUME calls \in [Calls -> Call], NEW c \in Calls, Logout(c)
  PROVE  /\ calls' \in [Calls -> Call]
         /\ \A d \in Calls : d # c => calls'[d] = calls[d]
         /\ calls'[c].pc = "dropAccess" /\ calls'[c].kind = "logout"
         /\ calls'[c].token = calls[c].token /\ calls'[c].pair = calls[c].pair
<1> DEFINE x == [calls[c] EXCEPT !.kind = "logout", !.pc = "dropAccess"]
<1>1. calls[c] \in Call OBVIOUS
<1>2. x \in Call BY <1>1 DEF Call, Kinds, Places
<1>3. /\ x.pc = "dropAccess" /\ x.kind = "logout"
      /\ x.token = calls[c].token /\ x.pair = calls[c].pair
  BY <1>1 DEF Call
<1>4. calls' = [calls EXCEPT ![c] = x] BY DEF Logout
<1> HIDE DEF x
<1> QED BY <1>2, <1>3, <1>4

\* What is not a step of one call.
AppStep ==
    \/ NothingToLoad \/ Kill \/ HydrateFromSecureStore
    \/ \E p \in Pairs : Expire(p)
    \/ \E u \in Users : RevokeAll(u)

LEMMA MobileSteps == MobileStep <=> (\E c \in Calls : CallStep(c)) \/ AppStep
BY DEF MobileStep, CallStep, AppStep

LEMMA CallsMove ==
  ASSUME MobileTypeOK, NEW c \in Calls, CallStep(c)
  PROVE  /\ calls' \in [Calls -> Call]
         /\ \A d \in Calls : d # c => calls'[d] = calls[d]
<1>1. calls \in [Calls -> Call] /\ TRUE \in BOOLEAN /\ FALSE \in BOOLEAN BY DEF MobileTypeOK
<1>2. CASE StartApi(c) \/ LoadUser(c) BY <1>2, SendMoves DEF StartApi, LoadUser
<1>3. CASE \E u \in Users, right \in BOOLEAN : Login(c, u, right) BY <1>1, <1>3, LoginMoves
<1>4. CASE Unauthorized(c) BY <1>4, UnauthorizedMoves
<1>5. CASE LoggedIn(c) BY <1>1, <1>5, LoggedInMoves DEF LoggedIn
<1>6. CASE Rotated(c) BY <1>1, <1>6, RotatedMoves DEF Rotated
<1>7. CASE UpdateTokens(c) BY <1>1, <1>7, UpdateMoves
<1>8. CASE Logout(c) BY <1>1, <1>8, LogoutMoves
<1>9. CASE NothingToRefresh(c) \/ Refused(c) \/ LoseRefresh(c)
  BY <1>1, <1>9, WipeMoves DEF NothingToRefresh, Refused, LoseRefresh
<1>10. CASE Accepted(c) \/ NoAnswer(c) \/ SetAuth(c)
  BY <1>1, <1>10, EndMoves DEF Accepted, NoAnswer, SetAuth
<1>11. CASE UnauthorizedAgain(c) \/ ClearAuth(c)
  BY <1>1, <1>11, EndMoves, WipeMoves DEF UnauthorizedAgain, ClearAuth
<1>12. CASE Verify(c) \/ SaveAccess(c) \/ SaveRefresh(c) \/ DropAccess(c) \/ DropRefresh(c)
  <2>1. {"accepted", "saveRefresh", "saved", "dropRefresh", "dropped"} \subseteq Places BY DEF Places
  <2> QED BY <1>1, <1>12, <2>1, MoveMoves
          DEF Verify, SaveAccess, SaveRefresh, DropAccess, DropRefresh
<1> QED BY <1>2, <1>3, <1>4, <1>5, <1>6, <1>7, <1>8, <1>9, <1>10, <1>11, <1>12 DEF CallStep

LEMMA MobileTyped ==
  ASSUME ServerTypeOK, MobileTypeOK, Whole, MobileStep, torn' \in BOOLEAN
  PROVE  ServerTypeOK' /\ MobileTypeOK'
<1>1. /\ calls \in [Calls -> Call] /\ accessToken \in Tokens /\ refreshToken \in Tokens
      /\ user \in Users \cup {Nobody} /\ checked \in Tokens \cup {Unseen}
      /\ disk \in [access : Tokens, refresh : Tokens] /\ NoPair \in Tokens
  BY DEF MobileTypeOK, Tokens
<1>2. {isHydrated', authChecked', calm', crossed'} \subseteq BOOLEAN
  <2>1. isHydrated \in BOOLEAN /\ authChecked \in BOOLEAN /\ calm \in BOOLEAN /\ crossed \in BOOLEAN
    BY DEF MobileTypeOK
  <2>2. calm' \in BOOLEAN
    <3>1. \A c \in Calls : CallStep(c) => calm' \in BOOLEAN
      BY <2>1, Zenon DEF CallStep, StartApi, LoadUser, Send, Crosses, Logout, Login, Keep, Accepted,
         LoggedIn, NoAnswer, Unauthorized, UnauthorizedAgain, NothingToRefresh, CalmIfAlone,
         Verify, Rotated, Refused, LoseRefresh, Storm, SaveAccess, SaveRefresh, SetAuth,
         UpdateTokens, DropAccess, DropRefresh, ClearAuth
    <3>2. AppStep => calm' \in BOOLEAN
      BY <2>1, Zenon DEF AppStep, NothingToLoad, Kill, HydrateFromSecureStore, Expire, RevokeAll,
         Keep, Storm
    <3> QED BY <3>1, <3>2, MobileSteps
  <2>3. crossed' \in BOOLEAN
    <3>1. \A c \in Calls : CallStep(c) => crossed' \in BOOLEAN
      BY <2>1, Zenon DEF CallStep, StartApi, LoadUser, Send, Crosses, Logout, Login, Keep, Accepted,
         LoggedIn, NoAnswer, Unauthorized, UnauthorizedAgain, NothingToRefresh, CalmIfAlone,
         Verify, Rotated, Refused, LoseRefresh, Storm, SaveAccess, SaveRefresh, SetAuth,
         UpdateTokens, DropAccess, DropRefresh, ClearAuth
    <3>2. AppStep => crossed' \in BOOLEAN
      BY <2>1, Zenon DEF AppStep, NothingToLoad, Kill, HydrateFromSecureStore, Expire, RevokeAll,
         Keep, Storm
    <3> QED BY <3>1, <3>2, MobileSteps
  <2>4. isHydrated' \in BOOLEAN /\ authChecked' \in BOOLEAN
    <3>1. \A c \in Calls : CallStep(c) => isHydrated' \in BOOLEAN /\ authChecked' \in BOOLEAN
      BY <2>1, Zenon DEF CallStep, StartApi, LoadUser, Logout, Login, Accepted, Checked,
         LoggedIn, NoAnswer, Unauthorized, UnauthorizedAgain, NothingToRefresh,
         Verify, Rotated, Refused, LoseRefresh, SaveAccess, SaveRefresh, SetAuth,
         UpdateTokens, DropAccess, DropRefresh, ClearAuth, storeVars
    <3>2. AppStep => isHydrated' \in BOOLEAN /\ authChecked' \in BOOLEAN
      BY <2>1, Zenon DEF AppStep, NothingToLoad, Kill, HydrateFromSecureStore, Expire, RevokeAll,
         storeVars
    <3> QED BY <3>1, <3>2, MobileSteps
  <2> QED BY <2>2, <2>3, <2>4
<1>3. ASSUME NEW c \in Calls, CallStep(c) PROVE ServerTypeOK' /\ MobileTypeOK'
  <2>1. calls' \in [Calls -> Call] BY <1>3, CallsMove
  <2>2. /\ calls[c].pair \in Tokens /\ calls[c].token \in Tokens
        /\ calls[c].who \in Users \cup {Nobody}
        /\ calls[c].pc \in Given => calls[c].pair \in Pairs
        /\ calls[c].kind = "me" /\ At(c, "sent") => calls[c].token \in Pairs
        /\ LoggedIn(c) => calls[c].kind = "login"
    <3>1. calls[c] \in Call BY <1>1
    <3>2. CallIsWhole(calls[c]) BY DEF Whole
    <3>3. calls[c].pair \in Tokens /\ calls[c].token \in Tokens /\ calls[c].who \in Users \cup {Nobody}
      BY <3>1 DEF Call
    <3> QED BY <3>2, <3>3 DEF CallIsWhole, Tokens, At, LoggedIn
  <2>3. ServerTypeOK'
    <3>1. CASE \E p \in Pairs : Issue(calls[c].who, p)
      BY <2>2, <3>1 DEF Issue, Unused, ServerTypeOK
    <3>2. CASE At(c, "accepted") /\ \E p \in Pairs : Rotate(calls[c].pair, p)
      BY <2>2, <3>2, RotateTells DEF At, Given
    <3>3. CASE UNCHANGED serverVars BY <3>3 DEF serverVars, ServerTypeOK
    <3> QED BY <1>3, <3>1, <3>2, <3>3 DEF CallStep, StartApi, LoadUser, Send, Logout, Login,
            Accepted, LoggedIn, NoAnswer, Unauthorized, UnauthorizedAgain, NothingToRefresh,
            Verify, Rotated, Refused, LoseRefresh, SaveAccess, SaveRefresh, SetAuth,
            UpdateTokens, DropAccess, DropRefresh, ClearAuth
  <2>4. accessToken' \in Tokens /\ refreshToken' \in Tokens /\ checked' \in Tokens \cup {Unseen}
    BY <1>1, <1>3, <2>2 DEF CallStep, StartApi, LoadUser, Send, Logout, Login,
       Accepted, LoggedIn, NoAnswer, Unauthorized, UnauthorizedAgain, NothingToRefresh,
       Verify, Rotated, Refused, LoseRefresh, SaveAccess, SaveRefresh, SetAuth,
       UpdateTokens, DropAccess, DropRefresh, ClearAuth, storeVars
  <2>5. disk' \in [access : Tokens, refresh : Tokens]
    BY <1>1, <1>3, <2>2 DEF CallStep, StartApi, LoadUser, Send, Logout, Login,
       Accepted, LoggedIn, NoAnswer, Unauthorized, UnauthorizedAgain, NothingToRefresh,
       Verify, Rotated, Refused, LoseRefresh, SaveAccess, SaveRefresh, SetAuth,
       UpdateTokens, DropAccess, DropRefresh, ClearAuth
  <2>6. user' \in Users \cup {Nobody}
    <3>1. CASE Accepted(c)
      <4>1. owner \in [Pairs -> Users \cup {Nobody}] BY DEF ServerTypeOK
      <4> QED BY <1>1, <2>2, <3>1, <4>1 DEF Accepted
    <3> QED BY <1>1, <1>3, <2>2, <3>1 DEF CallStep, StartApi, LoadUser, Send, Logout, Login,
            LoggedIn, NoAnswer, Unauthorized, UnauthorizedAgain, NothingToRefresh,
            Verify, Rotated, Refused, LoseRefresh, SaveAccess, SaveRefresh, SetAuth,
            UpdateTokens, DropAccess, DropRefresh, ClearAuth, storeVars
  <2> QED BY <1>2, <2>1, <2>3, <2>4, <2>5, <2>6 DEF MobileTypeOK
<1>4. ASSUME AppStep PROVE ServerTypeOK' /\ MobileTypeOK'
  <2>1. ServerTypeOK'
    BY <1>4 DEF AppStep, NothingToLoad, Kill, HydrateFromSecureStore, Expire, RevokeAll,
       ServerTypeOK, serverVars
  <2>2. calls' \in [Calls -> Call]
    BY <1>1, <1>4, CallForms DEF AppStep, NothingToLoad, Kill, HydrateFromSecureStore, Expire, RevokeAll
  <2>3. /\ accessToken' \in Tokens /\ refreshToken' \in Tokens /\ checked' \in Tokens \cup {Unseen}
        /\ user' \in Users \cup {Nobody} /\ disk' \in [access : Tokens, refresh : Tokens]
    BY <1>1, <1>4 DEF AppStep, NothingToLoad, Kill, HydrateFromSecureStore, Expire, RevokeAll, storeVars
  <2> QED BY <1>2, <2>1, <2>2, <2>3 DEF MobileTypeOK
<1> QED BY <1>3, <1>4, MobileSteps

\* A call moves only when the store has been read.
LEMMA MovesHydrated ==
  ASSUME Whole, NEW c \in Calls, CallStep(c)
  PROVE  isHydrated
<1> SUFFICES ASSUME ~isHydrated PROVE FALSE OBVIOUS
<1>1. user = Nobody /\ At(c, "idle") BY DEF Whole
<1> QED
  BY <1>1 DEF At, Refreshing, CallStep, StartApi, LoadUser, Logout, Login,
     Accepted, LoggedIn, NoAnswer, Unauthorized, UnauthorizedAgain, NothingToRefresh,
     Verify, Rotated, Refused, LoseRefresh, SaveAccess, SaveRefresh, SetAuth,
     UpdateTokens, DropAccess, DropRefresh, ClearAuth

LEMMA CallStaysWhole ==
  ASSUME MobileTypeOK, Whole, NEW c \in Calls, CallStep(c)
  PROVE  CallIsWhole(calls'[c])
<1> DEFINE q == calls[c]
           x == calls'[c]
<1> SUFFICES CallIsWhole(x) OBVIOUS
<1>1. calls \in [Calls -> Call] /\ TRUE \in BOOLEAN /\ FALSE \in BOOLEAN BY DEF MobileTypeOK
<1>2. CallIsWhole(q) BY DEF Whole
<1>3. \A p \in Pairs : p # NoPair BY DEF Pairs, NoPair
<1> USE DEF CallIsWhole, At, Given, StoringPcs, Wiped
<1>4. CASE StartApi(c) \/ LoadUser(c)
  BY <1>4, SendMoves DEF StartApi, LoadUser
<1>5. CASE \E u \in Users, right \in BOOLEAN : Login(c, u, right) 
  <2>1. PICK u \in Users : x.pc = "sent" /\ x.kind = "login" /\ x.pair = NoPair
                           /\ x.token = NoPair /\ x.who = u
    BY <1>1, <1>5, LoginMoves
  <2> HIDE DEF x
  <2> QED BY <2>1, UsersAssumption
<1>6. CASE Unauthorized(c)
  <2>1. q.pc = "sent" /\ refreshToken # NoPair BY <1>6 DEF Unauthorized
  <2>2. /\ x.pc = "refreshing" /\ x.pair = refreshToken /\ x.kind = q.kind
        /\ x.token = q.token /\ x.who = q.who
    BY <1>6, UnauthorizedMoves
  <2> HIDE DEF x, q
  <2> QED BY <1>2, <2>1, <2>2
<1>7. CASE LoggedIn(c)
  <2>1. PICK p \in Pairs :
           calls' = [calls EXCEPT ![c].kind = "setAuth", ![c].pc = "saveAccess", ![c].pair = p]
    BY <1>7 DEF LoggedIn
  <2>2. /\ x.pc = "saveAccess" /\ x.kind = "setAuth" /\ x.pair = p
        /\ x.token = q.token /\ x.who = q.who
    BY <1>1, <2>1, LoggedInMoves
  <2>3. q.kind = "login" /\ q.pc = "sent" BY <1>7 DEF LoggedIn
  <2> HIDE DEF x, q
  <2> QED BY <1>2, <1>3, <2>2, <2>3
<1>8. CASE Rotated(c)
  <2>1. PICK p \in Pairs : calls' = [calls EXCEPT ![c].pc = "saveAccess", ![c].pair = p]
    BY <1>8 DEF Rotated
  <2>2. /\ x.pc = "saveAccess" /\ x.pair = p /\ x.kind = q.kind
        /\ x.token = q.token /\ x.who = q.who
    BY <1>1, <2>1, RotatedMoves
  <2>3. q.pc = "accepted" BY <1>8 DEF Rotated
  <2> HIDE DEF x, q
  <2> QED BY <1>2, <1>3, <2>2, <2>3
<1>9. CASE UpdateTokens(c)
  <2>1. q.pc = "saved" /\ q.kind # "setAuth" BY <1>9 DEF UpdateTokens
  <2>2. /\ x.pc = "sent" /\ x.pair = NoPair /\ x.kind = q.kind /\ x.who = q.who
        /\ x.token = IF q.kind = "me" THEN q.pair ELSE NoPair
    BY <1>1, <1>9, UpdateMoves
  <2> HIDE DEF x, q
  <2> QED BY <1>2, <2>1, <2>2
<1>10. CASE Logout(c)
  <2>1. q.pc = "idle" BY <1>10 DEF Logout
  <2>2. x.pc = "dropAccess" /\ x.kind = "logout" /\ x.token = q.token /\ x.pair = q.pair
    BY <1>1, <1>10, LogoutMoves
  <2> HIDE DEF x, q
  <2> QED BY <1>2, <2>1, <2>2
<1>11. ASSUME NEW again \in BOOLEAN, Wipe(c, again), q.kind # "setAuth" PROVE CallIsWhole(x)
  <2>1. x.pc = "dropAccess" /\ x.kind = q.kind /\ x.token = NoPair /\ x.pair = NoPair
    BY <1>1, <1>11, WipeMoves
  <2> HIDE DEF x
  <2> QED BY <1>11, <2>1
<1>12. ASSUME End(c) PROVE CallIsWhole(x)
  <2>1. x.pc = "idle" /\ x.kind = "api" /\ x.token = NoPair /\ x.pair = NoPair
    BY <1>1, <1>12, EndMoves
  <2> HIDE DEF x
  <2> QED BY <2>1
<1>13. CASE NothingToRefresh(c) \/ Refused(c) \/ LoseRefresh(c)
  <2>1. q.kind # "setAuth" BY <1>2, <1>13 DEF NothingToRefresh, Refused, LoseRefresh, Refreshing
  <2> QED BY <1>1, <1>11, <1>13, <2>1 DEF NothingToRefresh, Refused, LoseRefresh
<1>14. CASE Accepted(c) \/ NoAnswer(c) \/ SetAuth(c)
  BY <1>12, <1>14 DEF Accepted, NoAnswer, SetAuth
<1>15. CASE UnauthorizedAgain(c) \/ ClearAuth(c)
  <2>1. q.kind # "setAuth" BY <1>2, <1>15 DEF UnauthorizedAgain, ClearAuth
  <2> QED BY <1>1, <1>11, <1>12, <1>15, <2>1 DEF UnauthorizedAgain, ClearAuth
<1>16. ASSUME NEW pc \in Places, Move(c, pc),
              \/ q.pc = "refreshing" /\ pc = "accepted"
              \/ q.pc \in StoringPcs /\ pc \in StoringPcs
              \/ q.pc \in Wiped /\ pc \in Wiped
       PROVE  CallIsWhole(x)
  <2>1. /\ x.pc = pc /\ x.kind = q.kind /\ x.token = q.token
        /\ x.pair = q.pair /\ x.who = q.who
    BY <1>1, <1>16, MoveMoves
  <2> HIDE DEF x, q
  <2> QED BY <1>2, <1>16, <2>1
<1>17. CASE Verify(c) \/ SaveAccess(c) \/ SaveRefresh(c) \/ DropAccess(c) \/ DropRefresh(c)
  <2>1. {"accepted", "saveRefresh", "saved", "dropRefresh", "dropped"} \subseteq Places BY DEF Places
  <2> HIDE DEF x, CallIsWhole
  <2> QED BY <1>16, <1>17, <2>1 DEF Verify, SaveAccess, SaveRefresh, DropAccess, DropRefresh
<1> QED BY <1>4, <1>5, <1>6, <1>7, <1>8, <1>9, <1>10, <1>13, <1>14, <1>15, <1>17 DEF CallStep

LEMMA WholeKeeps ==
  ASSUME MobileTypeOK, Whole, MobileStep
  PROVE  Whole'
<1>1. ASSUME NEW c \in Calls, CallStep(c) PROVE Whole'
  <2>1. isHydrated BY <1>1, MovesHydrated
  <2>2. isHydrated' = isHydrated
    BY <1>1 DEF CallStep, StartApi, LoadUser, Logout, Login, Accepted,
       LoggedIn, NoAnswer, Unauthorized, UnauthorizedAgain, NothingToRefresh,
       Verify, Rotated, Refused, LoseRefresh, SaveAccess, SaveRefresh, SetAuth,
       UpdateTokens, DropAccess, DropRefresh, ClearAuth, storeVars
  <2>3. \A d \in Calls : CallIsWhole(calls'[d])
    BY <1>1, CallStaysWhole, CallsMove DEF Whole
  <2> QED BY <2>1, <2>2, <2>3 DEF Whole
<1>2. ASSUME AppStep PROVE Whole'
  <2>1. CASE Kill
    <3>1. \A c \in Calls : calls'[c] = Idle BY <2>1 DEF Kill
    <3>2. CallIsWhole(Idle) BY CallForms DEF CallIsWhole, Given, StoringPcs, Wiped
    <3> QED BY <2>1, <3>1, <3>2, CallForms DEF Kill, Whole, At
  <2>2. CASE HydrateFromSecureStore BY <2>2 DEF HydrateFromSecureStore, Whole
  <2>3. CASE ~Kill /\ ~HydrateFromSecureStore
    <3>1. UNCHANGED <<calls, isHydrated, user, accessToken, refreshToken>>
      BY <1>2, <2>3 DEF AppStep, NothingToLoad, Expire, RevokeAll, storeVars
    <3> QED BY <3>1 DEF Whole, At
  <2> QED BY <2>1, <2>2, <2>3
<1> QED BY <1>1, <1>2, MobileSteps

\* Where the tokens a call handles come from.
LEMMA CallSources ==
  ASSUME MobileTypeOK, NEW c \in Calls, CallStep(c)
  PROVE  /\ accessToken' \in {accessToken, calls[c].pair, NoPair}
         /\ refreshToken' \in {refreshToken, calls[c].pair, NoPair}
         /\ disk'.access \in {disk.access, calls[c].pair, NoPair}
         /\ disk'.refresh \in {disk.refresh, calls[c].pair, NoPair}
         /\ calls'[c].token \in {calls[c].token, accessToken, calls[c].pair, NoPair}
         /\ \/ /\ UNCHANGED serverVars
               /\ calls'[c].pair \in {calls[c].pair, refreshToken, NoPair}
            \/ \E p \in Pairs : /\ LoggedIn(c)
                                /\ Issue(calls[c].who, p)
                                /\ calls'[c].pair = p
            \/ \E p \in Pairs : /\ At(c, "accepted")
                                /\ Rotate(calls[c].pair, p)
                                /\ calls'[c].pair \in {p, NoPair}
<1>1. /\ calls \in [Calls -> Call] /\ disk \in [access : Tokens, refresh : Tokens]
      /\ TRUE \in BOOLEAN /\ FALSE \in BOOLEAN
  BY DEF MobileTypeOK
<1>2. /\ accessToken' \in {accessToken, calls[c].pair, NoPair}
      /\ refreshToken' \in {refreshToken, calls[c].pair, NoPair}
  BY DEF CallStep, StartApi, LoadUser, Logout, Login, Accepted,
     LoggedIn, NoAnswer, Unauthorized, UnauthorizedAgain, NothingToRefresh,
     Verify, Rotated, Refused, LoseRefresh, SaveAccess, SaveRefresh, SetAuth,
     UpdateTokens, DropAccess, DropRefresh, ClearAuth, storeVars
<1>3. /\ disk'.access \in {disk.access, calls[c].pair, NoPair}
      /\ disk'.refresh \in {disk.refresh, calls[c].pair, NoPair}
  <2>1. CASE SaveAccess(c) \/ SaveRefresh(c) \/ DropAccess(c) \/ DropRefresh(c)
    BY <1>1, <2>1 DEF SaveAccess, SaveRefresh, DropAccess, DropRefresh
  <2>2. CASE ~(SaveAccess(c) \/ SaveRefresh(c) \/ DropAccess(c) \/ DropRefresh(c))
    <3>1. disk' = disk
      BY <2>2 DEF CallStep, StartApi, LoadUser, Send, Logout, Login, Accepted,
         LoggedIn, NoAnswer, Unauthorized, UnauthorizedAgain, NothingToRefresh,
         Verify, Rotated, Refused, LoseRefresh, SetAuth, UpdateTokens, ClearAuth
    <3> QED BY <3>1
  <2> QED BY <2>1, <2>2
<1> DEFINE Moved ==
      /\ calls'[c].token \in {calls[c].token, accessToken, calls[c].pair, NoPair}
      /\ \/ /\ UNCHANGED serverVars
            /\ calls'[c].pair \in {calls[c].pair, refreshToken, NoPair}
         \/ \E p \in Pairs : /\ LoggedIn(c)
                             /\ Issue(calls[c].who, p)
                             /\ calls'[c].pair = p
         \/ \E p \in Pairs : /\ At(c, "accepted")
                             /\ Rotate(calls[c].pair, p)
                             /\ calls'[c].pair \in {p, NoPair}
<1>4. CASE StartApi(c) \/ LoadUser(c)
  <2>1. Moved BY <1>4, SendMoves DEF StartApi, LoadUser, Send
  <2> QED BY <1>2, <1>3, <2>1
<1>5. CASE \E u \in Users, right \in BOOLEAN : Login(c, u, right)
  <2>1. Moved BY <1>1, <1>5, LoginMoves DEF Login
  <2> QED BY <1>2, <1>3, <2>1
<1>6. CASE Unauthorized(c)
  <2>1. Moved BY <1>6, UnauthorizedMoves DEF Unauthorized
  <2> QED BY <1>2, <1>3, <2>1
<1>7. CASE LoggedIn(c)
  <2>1. PICK p \in Pairs :
           /\ Issue(calls[c].who, p)
           /\ calls' = [calls EXCEPT ![c].kind = "setAuth", ![c].pc = "saveAccess", ![c].pair = p]
    BY <1>7 DEF LoggedIn
  <2>2. calls'[c].pair = p /\ calls'[c].token = calls[c].token BY <1>1, <2>1, LoggedInMoves
  <2> QED BY <1>2, <1>3, <1>7, <2>1, <2>2
<1>8. CASE Rotated(c)
  <2>1. PICK p \in Pairs : /\ Rotate(calls[c].pair, p)
                           /\ calls' = [calls EXCEPT ![c].pc = "saveAccess", ![c].pair = p]
    BY <1>8 DEF Rotated
  <2>2. calls'[c].pair = p /\ calls'[c].token = calls[c].token BY <1>1, <2>1, RotatedMoves
  <2>3. At(c, "accepted") BY <1>8 DEF Rotated
  <2> QED BY <1>2, <1>3, <2>1, <2>2, <2>3
<1>9. CASE UpdateTokens(c)
  <2>1. Moved BY <1>1, <1>9, UpdateMoves DEF UpdateTokens
  <2> QED BY <1>2, <1>3, <2>1
<1>10. CASE Logout(c)
  <2>1. Moved BY <1>1, <1>10, LogoutMoves DEF Logout
  <2> QED BY <1>2, <1>3, <2>1
<1>11. CASE NothingToRefresh(c) \/ Refused(c) \/ LoseRefresh(c)
  <2>1. calls'[c].token = NoPair /\ calls'[c].pair = NoPair
    BY <1>1, <1>11, WipeMoves DEF NothingToRefresh, Refused, LoseRefresh
  <2>2. \/ UNCHANGED serverVars
        \/ At(c, "accepted") /\ \E p \in Pairs : Rotate(calls[c].pair, p)
    BY <1>11 DEF NothingToRefresh, Refused, LoseRefresh
  <2> QED BY <1>2, <1>3, <2>1, <2>2
<1>12. CASE Accepted(c) \/ NoAnswer(c) \/ SetAuth(c)
  <2>1. Moved BY <1>1, <1>12, EndMoves DEF Accepted, NoAnswer, SetAuth
  <2> QED BY <1>2, <1>3, <2>1
<1>13. CASE UnauthorizedAgain(c) \/ ClearAuth(c)
  <2>1. Moved BY <1>1, <1>13, EndMoves, WipeMoves DEF UnauthorizedAgain, ClearAuth
  <2> QED BY <1>2, <1>3, <2>1
<1>14. CASE Verify(c) \/ SaveAccess(c) \/ SaveRefresh(c) \/ DropAccess(c) \/ DropRefresh(c)
  <2>1. {"accepted", "saveRefresh", "saved", "dropRefresh", "dropped"} \subseteq Places BY DEF Places
  <2>2. Moved BY <1>1, <1>14, <2>1, MoveMoves
        DEF Verify, SaveAccess, SaveRefresh, DropAccess, DropRefresh
  <2> QED BY <1>2, <1>3, <2>2
<1> QED BY <1>4, <1>5, <1>6, <1>7, <1>8, <1>9, <1>10, <1>11, <1>12, <1>13, <1>14 DEF CallStep

\* Every pair the app or the server knows of was issued to somebody.
IsIssued(p, own) == p = NoPair \/ own[p] # Nobody

Known ==
    /\ \A p \in live \cup fresh : owner[p] # Nobody
    /\ IsIssued(accessToken, owner) /\ IsIssued(refreshToken, owner)
    /\ IsIssued(disk.access, owner) /\ IsIssued(disk.refresh, owner)
    /\ \A c \in Calls : IsIssued(calls[c].token, owner) /\ IsIssued(calls[c].pair, owner)

\* A pair keeps its owner.
LEMMA OwnersStay ==
  ASSUME ServerTypeOK, MobileTypeOK, Whole, Known, NEW c \in Calls, CallStep(c)
  PROVE  /\ \A p \in Pairs : owner[p] # Nobody => owner'[p] = owner[p]
         /\ \A p \in (live' \cup fresh') \ (live \cup fresh) : owner'[p] # Nobody
         /\ calls'[c].pair \in {calls[c].pair, refreshToken, NoPair} \/ owner'[calls'[c].pair] # Nobody
<1>1. CallIsWhole(calls[c]) /\ calls[c].pair \in Tokens
  BY DEF Whole, MobileTypeOK, Call
<1>2. CASE UNCHANGED serverVars /\ calls'[c].pair \in {calls[c].pair, refreshToken, NoPair}
  BY <1>2 DEF serverVars
<1>3. CASE \E p \in Pairs : LoggedIn(c) /\ Issue(calls[c].who, p) /\ calls'[c].pair = p
  <2>1. PICK p \in Pairs : Issue(calls[c].who, p) /\ calls'[c].pair = p BY <1>3
  <2>2. calls[c].who # Nobody
    BY <1>1, <1>3 DEF LoggedIn, At, CallIsWhole, Wiped
  <2> QED BY <2>1, <2>2 DEF Issue, Unused, ServerTypeOK
<1>4. CASE \E p \in Pairs : /\ At(c, "accepted") /\ Rotate(calls[c].pair, p)
                            /\ calls'[c].pair \in {p, NoPair}
  <2>1. PICK p \in Pairs : Rotate(calls[c].pair, p) /\ calls'[c].pair \in {p, NoPair} BY <1>4
  <2>2. calls[c].pair \in Pairs BY <1>1, <1>4 DEF CallIsWhole, At, Given, Tokens
  <2>3. owner[calls[c].pair] # Nobody BY <2>2 DEF Known, IsIssued, Pairs, NoPair
  <2> QED BY <2>1, <2>2, <2>3 DEF Rotate, Unused, ServerTypeOK
<1> QED BY <1>2, <1>3, <1>4, CallSources

LEMMA KnownKeeps ==
  ASSUME ServerTypeOK, MobileTypeOK, Whole, Known, MobileStep
  PROVE  Known'
<1>1. /\ {accessToken, refreshToken, disk.access, disk.refresh} \subseteq Tokens
      /\ \A c \in Calls : calls[c].token \in Tokens /\ calls[c].pair \in Tokens
      /\ live \subseteq Pairs /\ fresh \subseteq Pairs
  BY DEF ServerTypeOK, MobileTypeOK, Call
<1>2. ASSUME NEW c \in Calls, CallStep(c) PROVE Known'
  <2>1. \A p \in Pairs : owner[p] # Nobody => owner'[p] = owner[p]
    BY <1>2, OwnersStay
  <2>2. \A p \in Tokens : IsIssued(p, owner) => IsIssued(p, owner')
    BY <2>1 DEF IsIssued, Tokens
  <2>3. /\ IsIssued(accessToken', owner') /\ IsIssued(refreshToken', owner')
        /\ IsIssued(disk'.access, owner') /\ IsIssued(disk'.refresh, owner')
        /\ IsIssued(calls'[c].token, owner')
    <3>1. IsIssued(NoPair, owner') BY DEF IsIssued
    <3> QED BY <1>1, <1>2, <2>2, <3>1, CallSources DEF Known
  <2>4. IsIssued(calls'[c].pair, owner')
    <3>1. CASE calls'[c].pair \in {calls[c].pair, refreshToken, NoPair}
      <4>1. IsIssued(NoPair, owner') BY DEF IsIssued
      <4> QED BY <1>1, <2>2, <3>1, <4>1 DEF Known
    <3> QED BY <1>2, <3>1, OwnersStay DEF IsIssued
  <2>5. \A d \in Calls : IsIssued(calls'[d].token, owner') /\ IsIssued(calls'[d].pair, owner')
    BY <1>1, <1>2, <2>2, <2>3, <2>4, CallsMove DEF Known
  <2>6. \A p \in live' \cup fresh' : owner'[p] # Nobody
    BY <1>1, <1>2, <2>1, OwnersStay DEF Known
  <2> QED BY <2>3, <2>5, <2>6 DEF Known
<1>3. ASSUME AppStep PROVE Known'
  <2>1. owner' = owner /\ live' \subseteq live /\ fresh' \subseteq fresh /\ disk' = disk
    BY <1>3 DEF AppStep, NothingToLoad, Kill, HydrateFromSecureStore, Expire, RevokeAll, serverVars
  <2>2. /\ accessToken' \in {accessToken, disk.access, NoPair}
        /\ refreshToken' \in {refreshToken, disk.refresh, NoPair}
        /\ calls' = calls \/ \A c \in Calls : calls'[c] = Idle
    BY <1>3 DEF AppStep, NothingToLoad, Kill, HydrateFromSecureStore, Expire, RevokeAll, storeVars
  <2>3. IsIssued(NoPair, owner) BY DEF IsIssued
  <2> QED BY <2>1, <2>2, <2>3, CallForms DEF Known
<1> QED BY <1>2, <1>3, MobileSteps

\* While sessions have not crossed, all that is kept is one user's, but for the
\* pair a login is just storing; and that login is then alone.
IsOf(p, o, own) == p = NoPair \/ own[p] = o

Belong(o) ==
    /\ user \in {o, Nobody}
    /\ IsOf(accessToken, o, owner) /\ IsOf(refreshToken, o, owner)
    /\ \A c \in Calls : /\ IsOf(calls[c].token, o, owner)
                        /\ calls[c].kind # "setAuth" => IsOf(calls[c].pair, o, owner)
    /\ (\A c \in Calls : calls[c].kind = "setAuth" => At(c, "saveAccess")) =>
          IsOf(disk.access, o, owner) /\ IsOf(disk.refresh, o, owner)

LoginAlone ==
    \A c \in Calls : calls[c].kind = "setAuth" =>
        /\ \A d \in Calls : d # c => At(d, "idle")
        /\ owner[calls[c].pair] = calls[c].who
        /\ calls[c].pc \in {"saveRefresh", "saved"} => disk.access = calls[c].pair
        /\ At(c, "saved") => disk.refresh = calls[c].pair

OneSessionKept ==
    ~crossed => LoginAlone /\ \E o \in Users \cup {Nobody} : Belong(o)

LEMMA NoneBesideLogin ==
  ASSUME Whole, LoginAlone, NEW c \in Calls, NEW d \in Calls, d # c,
         calls[d].kind = "setAuth", CallStep(c)
  PROVE  crossed'
<1>1. At(c, "idle") BY DEF LoginAlone
<1>2. Storing BY DEF Storing
<1>3. StartApi(c) \/ LoadUser(c) \/ Logout(c)
  BY <1>1 DEF At, Refreshing, CallStep, Login,
     Accepted, LoggedIn, NoAnswer, Unauthorized, UnauthorizedAgain, NothingToRefresh,
     Verify, Rotated, Refused, LoseRefresh, SaveAccess, SaveRefresh, SetAuth,
     UpdateTokens, DropAccess, DropRefresh, ClearAuth
<1> QED BY <1>2, <1>3, Zenon DEF StartApi, LoadUser, Logout, Send, Crosses

LEMMA LoginSteps ==
  ASSUME Whole, NEW c \in Calls, calls[c].kind = "setAuth", CallStep(c)
  PROVE  SaveAccess(c) \/ SaveRefresh(c) \/ SetAuth(c)
<1>1. calls[c].pc \in StoringPcs /\ calls[c].pc # "idle" BY DEF Whole, CallIsWhole, StoringPcs
<1> QED
  BY <1>1 DEF StoringPcs, At, Refreshing, CallStep, StartApi, LoadUser, Send, Logout, Login,
     Accepted, LoggedIn, NoAnswer, Unauthorized, UnauthorizedAgain, NothingToRefresh,
     Verify, Rotated, Refused, LoseRefresh, UpdateTokens, DropAccess, DropRefresh, ClearAuth

LEMMA OnlyLoginsStore ==
  ASSUME MobileTypeOK, NEW c \in Calls, CallStep(c), ~LoggedIn(c), calls[c].kind # "setAuth"
  PROVE  calls'[c].kind # "setAuth"
<1>1. calls \in [Calls -> Call] /\ TRUE \in BOOLEAN /\ FALSE \in BOOLEAN BY DEF MobileTypeOK
<1>2. CASE StartApi(c) \/ LoadUser(c) BY <1>2, SendMoves DEF StartApi, LoadUser
<1>3. CASE \E u \in Users, right \in BOOLEAN : Login(c, u, right) BY <1>1, <1>3, LoginMoves
<1>4. CASE Unauthorized(c) BY <1>4, UnauthorizedMoves
<1>5. CASE Rotated(c) BY <1>1, <1>5, RotatedMoves DEF Rotated
<1>6. CASE UpdateTokens(c) BY <1>1, <1>6, UpdateMoves
<1>7. CASE Logout(c) BY <1>1, <1>7, LogoutMoves
<1>8. CASE NothingToRefresh(c) \/ Refused(c) \/ LoseRefresh(c)
  BY <1>1, <1>8, WipeMoves DEF NothingToRefresh, Refused, LoseRefresh
<1>9. CASE Accepted(c) \/ NoAnswer(c) \/ SetAuth(c)
  BY <1>1, <1>9, EndMoves DEF Accepted, NoAnswer, SetAuth
<1>10. CASE UnauthorizedAgain(c) \/ ClearAuth(c)
  BY <1>1, <1>10, EndMoves, WipeMoves DEF UnauthorizedAgain, ClearAuth
<1>11. CASE Verify(c) \/ SaveAccess(c) \/ SaveRefresh(c) \/ DropAccess(c) \/ DropRefresh(c)
  <2>1. {"accepted", "saveRefresh", "saved", "dropRefresh", "dropped"} \subseteq Places BY DEF Places
  <2> QED BY <1>1, <1>11, <2>1, MoveMoves
          DEF Verify, SaveAccess, SaveRefresh, DropAccess, DropRefresh
<1> QED BY <1>2, <1>3, <1>4, <1>5, <1>6, <1>7, <1>8, <1>9, <1>10, <1>11 DEF CallStep

LEMMA LoginStaysAlone ==
  ASSUME ServerTypeOK, MobileTypeOK, Whole, Known, LoginAlone, NEW c \in Calls, CallStep(c), ~crossed'
  PROVE  LoginAlone'
<1>1. \A d \in Calls : d # c => calls[d].kind # "setAuth" BY NoneBesideLogin
<1>2. calls' \in [Calls -> Call] /\ \A d \in Calls : d # c => calls'[d] = calls[d]
  BY CallsMove
<1>3. calls \in [Calls -> Call] /\ calls[c] \in Call /\ disk \in [access : Tokens, refresh : Tokens]
  BY DEF MobileTypeOK
<1> SUFFICES ASSUME calls'[c].kind = "setAuth"
             PROVE  /\ \A d \in Calls : d # c => calls'[d].pc = "idle"
                    /\ owner'[calls'[c].pair] = calls'[c].who
                    /\ calls'[c].pc \in {"saveRefresh", "saved"} => disk'.access = calls'[c].pair
                    /\ calls'[c].pc = "saved" => disk'.refresh = calls'[c].pair
  BY <1>1, <1>2 DEF LoginAlone, At
<1>4. CASE LoggedIn(c)
  <2>1. \A d \in Calls : d # c => calls[d].pc = "idle"
    BY <1>4, Zenon DEF LoggedIn, Crosses, Others, At
  <2>2. PICK p \in Pairs :
           /\ Issue(calls[c].who, p)
           /\ calls' = [calls EXCEPT ![c].kind = "setAuth", ![c].pc = "saveAccess", ![c].pair = p]
    BY <1>4 DEF LoggedIn
  <2>3. calls'[c].pc = "saveAccess" /\ calls'[c].pair = p /\ calls'[c].who = calls[c].who
    BY <1>3, <2>2, LoggedInMoves
  <2>4. owner'[p] = calls[c].who BY <2>2 DEF Issue, ServerTypeOK
  <2> QED BY <1>2, <2>1, <2>3, <2>4
<1>5. CASE ~LoggedIn(c)
  <2>1. calls[c].kind = "setAuth" BY <1>5, OnlyLoginsStore
  <2>2. /\ \A d \in Calls : d # c => calls[d].pc = "idle"
        /\ owner[calls[c].pair] = calls[c].who
        /\ calls[c].pc \in {"saveRefresh", "saved"} => disk.access = calls[c].pair
    BY <2>1 DEF LoginAlone, At
  <2>3. CASE SaveAccess(c)
    <3>1. Move(c, "saveRefresh") /\ owner' = owner /\ disk' = [disk EXCEPT !.access = calls[c].pair]
      BY <2>3 DEF SaveAccess, serverVars
    <3>2. "saveRefresh" \in Places BY DEF Places
    <3>3. /\ calls'[c].pc = "saveRefresh" /\ calls'[c].pair = calls[c].pair
          /\ calls'[c].who = calls[c].who
      BY <1>3, <3>1, <3>2, MoveMoves
    <3>4. disk'.access = calls[c].pair BY <1>3, <3>1
    <3> QED BY <1>2, <2>2, <3>1, <3>3, <3>4
  <2>4. CASE SaveRefresh(c)
    <3>1. /\ At(c, "saveRefresh") /\ Move(c, "saved") /\ owner' = owner
          /\ disk' = [disk EXCEPT !.refresh = calls[c].pair]
      BY <2>4 DEF SaveRefresh, serverVars
    <3>2. "saved" \in Places BY DEF Places
    <3>3. /\ calls'[c].pc = "saved" /\ calls'[c].pair = calls[c].pair
          /\ calls'[c].who = calls[c].who
      BY <1>3, <3>1, <3>2, MoveMoves
    <3>4. disk'.access = disk.access /\ disk'.refresh = calls[c].pair BY <1>3, <3>1
    <3> QED BY <1>2, <2>2, <3>1, <3>3, <3>4 DEF At
  <2>5. CASE SetAuth(c)
    <3>1. calls'[c].kind = "api" BY <1>3, <2>5, EndMoves DEF SetAuth
    <3> QED BY <3>1
  <2> QED BY <2>1, <2>3, <2>4, <2>5, LoginSteps
<1> QED BY <1>4, <1>5

\* A stored login makes the session its user's; any other step leaves it whose
\* it was.
LEMMA BelongMoves ==
  ASSUME ServerTypeOK, MobileTypeOK, Whole, Known, LoginAlone, NEW c \in Calls, CallStep(c), ~crossed',
         NEW o \in Users \cup {Nobody}, Belong(o)
  PROVE  \E v \in Users \cup {Nobody} : Belong(v)'
<1>1. \A d \in Calls : d # c => calls[d].kind # "setAuth" BY NoneBesideLogin
<1>2. calls' \in [Calls -> Call] /\ \A d \in Calls : d # c => calls'[d] = calls[d]
  BY CallsMove
<1>3. /\ calls \in [Calls -> Call] /\ calls[c] \in Call
      /\ disk \in [access : Tokens, refresh : Tokens]
      /\ {accessToken, refreshToken, disk.access, disk.refresh} \subseteq Tokens
      /\ \A d \in Calls : calls[d].token \in Tokens /\ calls[d].pair \in Tokens
  BY DEF MobileTypeOK, Call
<1>4. /\ IsOf(accessToken, o, owner) /\ IsOf(refreshToken, o, owner)
      /\ \A d \in Calls : /\ IsOf(calls[d].token, o, owner)
                          /\ calls[d].kind # "setAuth" => IsOf(calls[d].pair, o, owner)
  BY DEF Belong
<1>5. \A p \in Pairs : owner[p] # Nobody => owner'[p] = owner[p] BY OwnersStay
<1>6. \A p \in Tokens, v \in Users \cup {Nobody} :
        IsIssued(p, owner) /\ IsOf(p, v, owner) => IsOf(p, v, owner')
  BY <1>5 DEF IsIssued, IsOf, Tokens
<1>7. \A v \in Users \cup {Nobody} : IsOf(NoPair, v, owner') BY DEF IsOf
\* The login that is just stored.
<1>8. CASE SetAuth(c)
  <2>1. calls[c].kind = "setAuth" /\ At(c, "saved") BY <1>8 DEF SetAuth
  <2>2. PICK v \in Users \cup {Nobody}, p \in Tokens : v = calls[c].who /\ p = calls[c].pair
    BY <1>3 DEF Call
  <2>3. /\ \A d \in Calls : d # c => calls[d].pc = "idle"
        /\ owner[p] = v /\ disk.access = p /\ disk.refresh = p
    BY <2>1, <2>2 DEF LoginAlone, At
  <2>4. \A d \in Calls : calls'[d].pc = "idle" /\ calls'[d].kind = "api"
                         /\ calls'[d].token = NoPair /\ calls'[d].pair = NoPair
    <3>1. \A d \in Calls : d # c => /\ calls[d].kind = "api" /\ calls[d].token = NoPair
                                    /\ calls[d].pair = NoPair
      BY <2>3 DEF Whole, CallIsWhole, Given
    <3>2. calls'[c].pc = "idle" /\ calls'[c].kind = "api"
          /\ calls'[c].token = NoPair /\ calls'[c].pair = NoPair
      BY <1>3, <1>8, EndMoves DEF SetAuth
    <3> QED BY <1>2, <2>3, <3>1, <3>2
  <2>5. /\ owner' = owner /\ disk' = disk /\ user' = v /\ accessToken' = p /\ refreshToken' = p
    BY <1>8, <2>2 DEF SetAuth, serverVars
  <2>6. IsOf(p, v, owner') /\ IsOf(NoPair, v, owner') BY <2>3, <2>5 DEF IsOf
  <2>7. Belong(v)' BY <2>3, <2>4, <2>5, <2>6 DEF Belong
  <2> QED BY <2>7
\* The login being stored.
<1>9. CASE (SaveAccess(c) \/ SaveRefresh(c)) /\ calls[c].kind = "setAuth"
  <2>1. PICK pc \in {"saveRefresh", "saved"} : Move(c, pc) BY <1>9 DEF SaveAccess, SaveRefresh
  <2>2. pc \in Places /\ pc # "saveAccess" BY <2>1 DEF Places
  <2>3. calls'[c].pc = pc /\ calls'[c].kind = "setAuth" /\ calls'[c].token = calls[c].token
    BY <1>3, <1>9, <2>1, <2>2, MoveMoves
  <2>4. UNCHANGED <<owner, user, accessToken, refreshToken>>
    BY <1>9 DEF SaveAccess, SaveRefresh, serverVars, storeVars
  <2>5. /\ \A d \in Calls : /\ IsOf(calls'[d].token, o, owner)
                            /\ calls'[d].kind # "setAuth" => IsOf(calls'[d].pair, o, owner)
    BY <1>2, <1>4, <2>3
  <2>6. Belong(o)' BY <1>4, <2>2, <2>3, <2>4, <2>5 DEF Belong, At
  <2> QED BY <2>6
\* Everything else.
<1>10. CASE calls[c].kind # "setAuth"
  <2>1. ~SetAuth(c) BY <1>10 DEF SetAuth
  <2>2. \A d \in Calls : calls[d].kind # "setAuth" BY <1>1, <1>10
  <2>3. IsOf(disk.access, o, owner) /\ IsOf(disk.refresh, o, owner) BY <2>2 DEF Belong
  <2>4. user' \in {o, Nobody}
    <3>1. CASE Accepted(c)
      <4>1. calls[c].kind = "me" => calls[c].token # NoPair
        BY <3>1 DEF Accepted, At, Whole, CallIsWhole
      <4> QED BY <1>4, <3>1, <4>1 DEF Accepted, IsOf, Belong
    <3>2. CASE ~Accepted(c)
      <4>1. user' \in {user, Nobody}
        BY <2>1, <3>2 DEF CallStep, StartApi, LoadUser, Logout, Login,
           LoggedIn, NoAnswer, Unauthorized, UnauthorizedAgain, NothingToRefresh,
           Verify, Rotated, Refused, LoseRefresh, SaveAccess, SaveRefresh,
           UpdateTokens, DropAccess, DropRefresh, ClearAuth, storeVars
      <4> QED BY <4>1 DEF Belong
    <3> QED BY <3>1, <3>2
  <2>5. /\ IsOf(accessToken, o, owner') /\ IsOf(refreshToken, o, owner')
        /\ IsOf(disk.access, o, owner') /\ IsOf(disk.refresh, o, owner')
        /\ \A d \in Calls : IsOf(calls[d].token, o, owner') /\ IsOf(calls[d].pair, o, owner')
    BY <1>3, <1>4, <1>6, <2>2, <2>3 DEF Known
  <2>6. /\ IsOf(accessToken', o, owner') /\ IsOf(refreshToken', o, owner')
        /\ IsOf(disk'.access, o, owner') /\ IsOf(disk'.refresh, o, owner')
        /\ IsOf(calls'[c].token, o, owner')
    BY <1>7, <2>5, CallSources
  <2>7. calls'[c].kind # "setAuth" => IsOf(calls'[c].pair, o, owner')
    <3>1. CASE calls'[c].pair \in {calls[c].pair, refreshToken, NoPair} BY <1>7, <2>5, <3>1
    <3>2. CASE LoggedIn(c)
      <4>1. PICK p \in Pairs :
               calls' = [calls EXCEPT ![c].kind = "setAuth", ![c].pc = "saveAccess", ![c].pair = p]
        BY <3>2 DEF LoggedIn
      <4> QED BY <1>3, <4>1, LoggedInMoves
    <3>3. CASE \E p \in Pairs : /\ At(c, "accepted") /\ Rotate(calls[c].pair, p)
                                /\ calls'[c].pair \in {p, NoPair}
      <4>1. PICK p \in Pairs : At(c, "accepted") /\ Rotate(calls[c].pair, p) /\ calls'[c].pair \in {p, NoPair}
        BY <3>3
      <4>2. calls[c].pair # NoPair BY <4>1 DEF At, Whole, CallIsWhole, Given
      <4>3. owner[calls[c].pair] = o BY <1>4, <1>10, <4>2 DEF IsOf
      <4>4. owner'[p] = owner[calls[c].pair] BY <4>1 DEF Rotate, ServerTypeOK
      <4> QED BY <1>7, <4>1, <4>3, <4>4 DEF IsOf
    <3> QED BY <3>1, <3>2, <3>3, CallSources
  <2>8. \A d \in Calls : /\ IsOf(calls'[d].token, o, owner')
                         /\ calls'[d].kind # "setAuth" => IsOf(calls'[d].pair, o, owner')
    BY <1>2, <2>5, <2>6, <2>7
  <2>9. Belong(o)' BY <2>4, <2>6, <2>8 DEF Belong
  <2> QED BY <2>9
<1> QED BY <1>8, <1>9, <1>10, LoginSteps

LEMMA OneSessionStays ==
  ASSUME ServerTypeOK, MobileTypeOK, Whole, Known, OneSessionKept, MobileStep
  PROVE  OneSessionKept'
<1> SUFFICES ASSUME ~crossed' PROVE LoginAlone' /\ \E o \in Users \cup {Nobody} : Belong(o)'
  BY DEF OneSessionKept
<1>1. ~crossed
  <2>1. \A c \in Calls : CallStep(c) /\ crossed => crossed'
    BY Zenon DEF CallStep, StartApi, LoadUser, Send, Crosses, Logout, Login, Keep, Accepted,
       LoggedIn, NoAnswer, Unauthorized, UnauthorizedAgain, NothingToRefresh, CalmIfAlone,
       Verify, Rotated, Refused, LoseRefresh, Storm, SaveAccess, SaveRefresh, SetAuth,
       UpdateTokens, DropAccess, DropRefresh, ClearAuth
  <2>2. AppStep /\ crossed => crossed'
    BY Zenon DEF AppStep, NothingToLoad, Kill, HydrateFromSecureStore, Expire, RevokeAll,
       Keep, Storm
  <2> QED BY <2>1, <2>2, MobileSteps
<1>2. LoginAlone /\ \E o \in Users \cup {Nobody} : Belong(o) BY <1>1 DEF OneSessionKept
<1>3. PICK o \in Users \cup {Nobody} : Belong(o) BY <1>2
<1>4. ASSUME NEW c \in Calls, CallStep(c)
      PROVE  LoginAlone' /\ \E v \in Users \cup {Nobody} : Belong(v)'
  BY <1>2, <1>3, <1>4, LoginStaysAlone, BelongMoves
<1>5. CASE Kill
  <2>1. /\ owner' = owner /\ disk' = disk /\ user' = Nobody
        /\ accessToken' = NoPair /\ refreshToken' = NoPair
        /\ \A c \in Calls : calls'[c] = Idle
    BY <1>5 DEF Kill, serverVars
  <2>2. LoginAlone' BY <2>1, CallForms DEF LoginAlone
  <2>3. \A c \in Calls : calls[c].kind = "setAuth" => ~At(c, "saveRefresh")
    BY <1>5, Zenon DEF Kill
  <2>4. CASE \A c \in Calls : calls[c].kind = "setAuth" => At(c, "saveAccess")
    <3>1. IsOf(disk.access, o, owner) /\ IsOf(disk.refresh, o, owner) BY <1>3, <2>4 DEF Belong
    <3>2. Belong(o)' BY <2>1, <3>1, CallForms DEF Belong, IsOf
    <3> QED BY <2>2, <3>2
  <2>5. CASE \E c \in Calls : calls[c].kind = "setAuth" /\ ~At(c, "saveAccess")
    <3>1. PICK c \in Calls : calls[c].kind = "setAuth" /\ ~At(c, "saveAccess") BY <2>5
    <3>2. At(c, "saved") BY <2>3, <3>1 DEF Whole, CallIsWhole, StoringPcs, At
    <3>3. owner[calls[c].pair] = calls[c].who /\ disk.access = calls[c].pair /\ disk.refresh = calls[c].pair
      BY <1>2, <3>1, <3>2 DEF LoginAlone, At
    <3>4. PICK v \in Users \cup {Nobody} : v = calls[c].who BY DEF MobileTypeOK, Call
    <3>5. Belong(v)' BY <2>1, <3>3, <3>4, CallForms DEF Belong, IsOf
    <3> QED BY <2>2, <3>5
  <2> QED BY <2>4, <2>5
<1>6. CASE HydrateFromSecureStore
  <2>1. \A c \in Calls : calls[c].kind # "setAuth"
    BY <1>6 DEF HydrateFromSecureStore, Whole, CallIsWhole, At
  <2>2. IsOf(disk.access, o, owner) /\ IsOf(disk.refresh, o, owner) BY <1>3, <2>1 DEF Belong
  <2>3. UNCHANGED <<owner, disk, calls>> /\ user' = Nobody
        /\ accessToken' = disk.access /\ refreshToken' = disk.refresh
    BY <1>6 DEF HydrateFromSecureStore, serverVars
  <2>4. Belong(o)' BY <1>3, <2>2, <2>3 DEF Belong
  <2>5. LoginAlone' BY <2>1, <2>3 DEF LoginAlone
  <2> QED BY <2>4, <2>5
<1>7. CASE NothingToLoad \/ (\E p \in Pairs : Expire(p)) \/ (\E u \in Users : RevokeAll(u))
  <2>1. UNCHANGED <<owner, disk, calls, user, accessToken, refreshToken>>
    BY <1>7 DEF NothingToLoad, Expire, RevokeAll, serverVars, storeVars
  <2>2. Belong(o)' BY <1>3, <2>1 DEF Belong, At
  <2>3. LoginAlone' BY <1>2, <2>1 DEF LoginAlone, At
  <2> QED BY <2>2, <2>3
<1> QED BY <1>4, <1>5, <1>6, <1>7, MobileSteps DEF AppStep

\* In calm weather the memory, the secure store and the server agree but for the
\* one call that is saving, or those that are clearing, the tokens.
CallIsCalm(c) ==
    /\ calls[c].pc \in Given =>
          \A d \in Calls : d # c => calls[d].pc \notin Given \cup Wiped
    /\ calls[c].kind = "setAuth" => \A d \in Calls : d # c => calls[d].pc = "idle"
    /\ calls[c].pc \in {"refreshing", "accepted"} => calls[c].pair = refreshToken
    /\ calls[c].pc \in StoringPcs => calls[c].pair \in live \cap fresh
    /\ calls[c].pc = "saveAccess" => disk.access = accessToken /\ disk.refresh = accessToken
    /\ calls[c].pc = "saveRefresh" => disk.access = calls[c].pair /\ disk.refresh = accessToken
    /\ calls[c].pc = "saved" => disk.access = calls[c].pair /\ disk.refresh = calls[c].pair
    /\ calls[c].pc \in {"dropRefresh", "dropped"} => disk.access = NoPair
    /\ calls[c].pc = "dropped" => disk.refresh = NoPair
    /\ calls[c].pc \in Wiped /\ calls[c].kind # "logout" => accessToken = NoPair
    /\ calls[c].pc = "sent" /\ calls[c].retried /\ calls[c].kind # "login" => calls[c].good

Calm ==
    /\ accessToken = refreshToken
    /\ (\A c \in Calls : calls[c].pc \notin StoringPcs) =>
          accessToken \in live \cup {NoPair} /\ disk.access \in live \cup {NoPair}
    /\ (\A c \in Calls : calls[c].pc \notin StoringPcs \cup Wiped) =>
          disk.access = disk.refresh /\ (isHydrated => disk.access = accessToken)
    /\ (\E c \in Calls : calls[c].pc \in Wiped) =>
          /\ disk.access \in {accessToken, NoPair}
          /\ disk.refresh \in {accessToken, NoPair}
    /\ \A c \in Calls : CallIsCalm(c)

\* A request starts or ends.
LEMMA CalmRequests ==
  ASSUME Calm, NEW c \in Calls,
         UNCHANGED <<accessToken, refreshToken, disk, live, fresh, isHydrated>>,
         \A d \in Calls : d # c => calls'[d] = calls[d],
         calls[c].pc \in {"idle", "sent"}, calls[c].kind # "setAuth",
         \/ calls'[c].pc = "idle"
         \/ /\ calls'[c].pc = "sent" /\ ~calls'[c].retried
            /\ \A d \in Calls : calls[d].kind # "setAuth",
         calls'[c].kind # "setAuth"
  PROVE  Calm'
<1>1. calls[c].pc \notin Given \cup Wiped /\ calls'[c].pc \notin Given \cup Wiped
  BY DEF Given, Wiped
<1>2. StoringPcs \subseteq Given BY DEF StoringPcs, Given
<1>3. ASSUME NEW d \in Calls PROVE CallIsCalm(d)'
  <2>1. CASE d = c
    BY <1>1, <2>1 DEF CallIsCalm, Given, StoringPcs, Wiped
  <2>2. CASE d # c
    <3>1. CallIsCalm(d) /\ calls'[d] = calls[d] BY <2>2 DEF Calm
    <3>2. calls[d].kind = "setAuth" => \A e \in Calls : e # d => calls'[e].pc = "idle"
      BY <3>1 DEF CallIsCalm
    <3>3. calls[d].pc \in Given => \A e \in Calls : e # d => calls'[e].pc \notin Given \cup Wiped
      BY <1>1, <3>1 DEF CallIsCalm
    <3> QED BY <3>1, <3>2, <3>3 DEF CallIsCalm
  <2> QED BY <2>1, <2>2
<1> QED BY <1>1, <1>2, <1>3 DEF Calm

\* A call begins to clear the session beside none that saves or refreshes.
LEMMA CalmWipe ==
  ASSUME Calm, isHydrated, NEW c \in Calls,
         UNCHANGED <<accessToken, refreshToken, disk, live, fresh, isHydrated>>,
         \A d \in Calls : d # c => calls'[d] = calls[d] /\ calls[d].pc \notin Given,
         \A d \in Calls : calls[d].kind # "setAuth",
         calls[c].pc \in {"idle", "sent"}, calls'[c].pc = "dropAccess",
         calls'[c].kind # "logout" => accessToken = NoPair,
         calls'[c].kind # "setAuth"
  PROVE  Calm'
<1>1. calls[c].pc \notin Given \cup Wiped /\ calls'[c].pc \in Wiped /\ calls'[c].pc \notin Given
  BY DEF Given, Wiped
<1>2. StoringPcs \subseteq Given BY DEF StoringPcs, Given
<1>3. \A d \in Calls : calls[d].pc \notin StoringPcs /\ calls'[d].pc \notin Given BY <1>1, <1>2
<1>4. disk.access \in {accessToken, NoPair} /\ disk.refresh \in {accessToken, NoPair}
  <2>1. CASE \E d \in Calls : calls[d].pc \in Wiped BY <2>1 DEF Calm
  <2>2. CASE \A d \in Calls : calls[d].pc \notin Wiped BY <1>3, <2>2 DEF Calm
  <2> QED BY <2>1, <2>2
<1>5. ASSUME NEW d \in Calls PROVE CallIsCalm(d)'
  <2>1. CASE d = c
    BY <1>1, <2>1 DEF CallIsCalm, Given, StoringPcs, Wiped
  <2>2. CASE d # c
    <3>1. CallIsCalm(d) /\ calls'[d] = calls[d] BY <2>2 DEF Calm
    <3>2. calls[d].pc \notin Given /\ calls[d].kind # "setAuth" BY <2>2
    <3> QED BY <3>1, <3>2 DEF CallIsCalm, Given, StoringPcs
  <2> QED BY <2>1, <2>2
<1> QED BY <1>1, <1>2, <1>3, <1>4, <1>5 DEF Calm

\* The calls that write the secure store.
LEMMA CalmSaves ==
  ASSUME Calm, NEW c \in Calls, NEW pc \in {"saveRefresh", "saved"},
         UNCHANGED <<accessToken, refreshToken, live, fresh, isHydrated>>,
         \A d \in Calls : d # c => calls'[d] = calls[d],
         calls'[c].pc = pc, calls'[c].pair = calls[c].pair, calls'[c].kind = calls[c].kind,
         \/ /\ calls[c].pc = "saveAccess" /\ pc = "saveRefresh"
            /\ disk'.access = calls[c].pair /\ disk'.refresh = disk.refresh
         \/ /\ calls[c].pc = "saveRefresh" /\ pc = "saved"
            /\ disk'.access = disk.access /\ disk'.refresh = calls[c].pair
  PROVE  Calm'
<1>1. calls[c].pc \in StoringPcs /\ calls'[c].pc \in StoringPcs /\ calls[c].pc \in Given
      /\ calls'[c].pc \in Given /\ calls'[c].pc \notin Wiped
  BY DEF StoringPcs, Given, Wiped
<1>2. StoringPcs \subseteq Given BY DEF StoringPcs, Given
<1>3. CallIsCalm(c) BY DEF Calm
<1>4. \A d \in Calls : d # c => calls'[d].pc \notin Given \cup Wiped
  BY <1>1, <1>3 DEF CallIsCalm
<1>5. CallIsCalm(c)'
  BY <1>1, <1>3, <1>4 DEF CallIsCalm, Given, StoringPcs, Wiped
<1>6. ASSUME NEW d \in Calls, d # c PROVE CallIsCalm(d)'
  <2>1. CallIsCalm(d) /\ calls'[d] = calls[d] BY <1>6 DEF Calm
  <2>2. calls[d].kind # "setAuth"
    <3> SUFFICES ASSUME calls[d].kind = "setAuth" PROVE FALSE OBVIOUS
    <3>1. calls[c].pc = "idle" BY <1>6, <2>1 DEF CallIsCalm
    <3> QED BY <3>1
  <2> QED BY <1>4, <1>6, <2>1, <2>2 DEF CallIsCalm, Given, StoringPcs, Wiped
<1> QED BY <1>1, <1>2, <1>4, <1>5, <1>6 DEF Calm

\* The last step of setAuth and of updateTokens.
LEMMA CalmSaved ==
  ASSUME Calm, NEW c \in Calls,
         UNCHANGED <<disk, live, fresh, isHydrated>>,
         \A d \in Calls : d # c => calls'[d] = calls[d],
         calls[c].pc = "saved",
         accessToken' = calls[c].pair, refreshToken' = calls[c].pair,
         calls'[c].kind # "setAuth",
         \/ calls'[c].pc = "idle"
         \/ calls'[c].pc = "sent" /\ (calls'[c].kind # "login" => calls'[c].good)
  PROVE  Calm'
<1>1. calls[c].pc \in StoringPcs /\ calls[c].pc \in Given
      /\ calls'[c].pc \notin Given \cup Wiped
  BY DEF StoringPcs, Given, Wiped
<1>2. StoringPcs \subseteq Given BY DEF StoringPcs, Given
<1>3. CallIsCalm(c) BY DEF Calm
<1>4. \A d \in Calls : d # c => calls'[d].pc \notin Given \cup Wiped
  BY <1>1, <1>3 DEF CallIsCalm
<1>5. \A d \in Calls : calls'[d].pc \notin Given \cup Wiped BY <1>1, <1>4
<1>6. /\ calls[c].pair \in live \cap fresh
      /\ disk.access = calls[c].pair /\ disk.refresh = calls[c].pair
  BY <1>1, <1>3 DEF CallIsCalm
<1>7. CallIsCalm(c)'
  BY <1>5 DEF CallIsCalm, Given, StoringPcs, Wiped
<1>8. ASSUME NEW d \in Calls, d # c PROVE CallIsCalm(d)'
  <2>1. CallIsCalm(d) /\ calls'[d] = calls[d] BY <1>8 DEF Calm
  <2>2. calls[d].kind # "setAuth"
    <3> SUFFICES ASSUME calls[d].kind = "setAuth" PROVE FALSE OBVIOUS
    <3>1. calls[c].pc = "idle" BY <1>8, <2>1 DEF CallIsCalm
    <3> QED BY <3>1
  <2> QED BY <1>4, <1>8, <2>1, <2>2 DEF CallIsCalm, Given, StoringPcs, Wiped
<1> QED BY <1>5, <1>6, <1>7, <1>8, <1>2 DEF Calm

\* The first two steps of clearAuth.
LEMMA CalmDrops ==
  ASSUME Calm, NEW c \in Calls,
         UNCHANGED <<accessToken, refreshToken, live, fresh, isHydrated>>,
         \A d \in Calls : d # c => calls'[d] = calls[d],
         calls'[c].kind = calls[c].kind, calls[c].kind # "setAuth",
         \/ /\ calls[c].pc = "dropAccess" /\ calls'[c].pc = "dropRefresh"
            /\ disk'.access = NoPair /\ disk'.refresh = disk.refresh
         \/ /\ calls[c].pc = "dropRefresh" /\ calls'[c].pc = "dropped"
            /\ disk'.access = disk.access /\ disk'.refresh = NoPair
  PROVE  Calm'
<1>1. calls[c].pc \in Wiped /\ calls'[c].pc \in Wiped /\ calls'[c].pc \notin Given
      /\ calls[c].pc \notin Given
  BY DEF Given, Wiped
<1>2. StoringPcs \subseteq Given BY DEF StoringPcs, Given
<1>3. CallIsCalm(c) BY DEF Calm
<1>4. \A d \in Calls : calls[d].pc \notin Given
  <2> SUFFICES ASSUME NEW d \in Calls, calls[d].pc \in Given PROVE FALSE OBVIOUS
  <2>1. CallIsCalm(d) /\ d # c BY <1>1 DEF Calm
  <2> QED BY <1>1, <2>1 DEF CallIsCalm
<1>5. \A d \in Calls : calls'[d].pc \notin Given BY <1>1, <1>4
<1>6. /\ disk.access \in {accessToken, NoPair} /\ disk.refresh \in {accessToken, NoPair}
      /\ disk.access \in live \cup {NoPair} /\ accessToken \in live \cup {NoPair}
  BY <1>1, <1>2, <1>4 DEF Calm
<1>7. disk'.access \in {disk.access, NoPair} /\ disk'.refresh \in {disk.refresh, NoPair}
  OBVIOUS
<1>8. CallIsCalm(c)'
  BY <1>1, <1>3 DEF CallIsCalm, Given, StoringPcs, Wiped
<1>9. ASSUME NEW d \in Calls, d # c PROVE CallIsCalm(d)'
  <2>1. CallIsCalm(d) /\ calls'[d] = calls[d] BY <1>9 DEF Calm
  <2>2. calls[d].kind # "setAuth"
    <3> SUFFICES ASSUME calls[d].kind = "setAuth" PROVE FALSE OBVIOUS
    <3>1. calls[c].pc = "idle" BY <1>9, <2>1 DEF CallIsCalm
    <3> QED BY <3>1
  <2> QED BY <1>5, <1>7, <1>9, <2>1, <2>2 DEF CallIsCalm, Given, StoringPcs, Wiped
<1> QED BY <1>1, <1>6, <1>7, <1>8, <1>9 DEF Calm

\* The last step of clearAuth.
LEMMA CalmCleared ==
  ASSUME Calm, NEW c \in Calls,
         UNCHANGED <<disk, live, fresh, isHydrated>>,
         \A d \in Calls : d # c => calls'[d] = calls[d],
         calls[c].pc = "dropped", calls'[c].pc \in {"idle", "dropAccess"},
         calls'[c].kind # "setAuth",
         accessToken' = NoPair, refreshToken' = NoPair
  PROVE  Calm'
<1>1. calls[c].pc \in Wiped /\ calls'[c].pc \notin Given /\ calls[c].pc \notin Given
  BY DEF Given, Wiped
<1>2. StoringPcs \subseteq Given BY DEF StoringPcs, Given
<1>3. CallIsCalm(c) BY DEF Calm
<1>4. \A d \in Calls : calls[d].pc \notin Given
  <2> SUFFICES ASSUME NEW d \in Calls, calls[d].pc \in Given PROVE FALSE OBVIOUS
  <2>1. CallIsCalm(d) /\ d # c BY <1>1 DEF Calm
  <2> QED BY <1>1, <2>1 DEF CallIsCalm
<1>5. \A d \in Calls : calls'[d].pc \notin Given BY <1>1, <1>4
<1>6. disk'.access = NoPair /\ disk'.refresh = NoPair BY <1>3 DEF CallIsCalm
<1>8. CallIsCalm(c)'
  BY <1>1, <1>6 DEF CallIsCalm, Given, StoringPcs, Wiped
<1>9. ASSUME NEW d \in Calls, d # c PROVE CallIsCalm(d)'
  <2>1. CallIsCalm(d) /\ calls'[d] = calls[d] BY <1>9 DEF Calm
  <2>2. calls[d].kind # "setAuth"
    <3> SUFFICES ASSUME calls[d].kind = "setAuth" PROVE FALSE OBVIOUS
    <3>1. calls[c].pc = "idle" BY <1>9, <2>1 DEF CallIsCalm
    <3> QED BY <3>1
  <2> QED BY <1>5, <1>6, <1>9, <2>1, <2>2 DEF CallIsCalm, Given, StoringPcs, Wiped
<1> QED BY <1>6, <1>8, <1>9 DEF Calm

\* A refresh begins, or is accepted, beside no other call that saves or clears.
LEMMA CalmRefresh ==
  ASSUME Calm, NEW c \in Calls,
         UNCHANGED <<accessToken, refreshToken, disk, live, fresh, isHydrated>>,
         \A d \in Calls : d # c => calls'[d] = calls[d] /\ calls[d].pc \notin Given \cup Wiped,
         \A d \in Calls : calls[d].kind # "setAuth",
         calls[c].pc \in {"sent", "refreshing"}, calls'[c].pc \in {"refreshing", "accepted"},
         calls'[c].pair = refreshToken, calls'[c].kind = calls[c].kind
  PROVE  Calm'
<1>1. /\ calls[c].pc \notin StoringPcs \cup Wiped /\ calls'[c].pc \notin StoringPcs \cup Wiped
      /\ calls'[c].pc \in Given
  BY DEF Given, StoringPcs, Wiped
<1>2. StoringPcs \subseteq Given BY DEF StoringPcs, Given
<1>3. \A d \in Calls : calls[d].pc \notin StoringPcs \cup Wiped /\ calls'[d].pc \notin StoringPcs \cup Wiped
  BY <1>1, <1>2
<1>4. CallIsCalm(c)'
  BY <1>1 DEF CallIsCalm, Given, StoringPcs, Wiped
<1>5. ASSUME NEW d \in Calls, d # c PROVE CallIsCalm(d)'
  <2>1. CallIsCalm(d) /\ calls'[d] = calls[d] BY <1>5 DEF Calm
  <2>2. calls[d].pc \notin Given \cup Wiped /\ calls[d].kind # "setAuth" BY <1>5
  <2> QED BY <2>1, <2>2 DEF CallIsCalm, Given, StoringPcs, Wiped
<1> QED BY <1>3, <1>4, <1>5 DEF Calm

\* A new pair arrives, beside no other call that saves or clears.
LEMMA CalmReceives ==
  ASSUME Calm, isHydrated, NEW c \in Calls, NEW p \in Pairs,
         UNCHANGED <<accessToken, refreshToken, disk, isHydrated>>,
         \A d \in Calls : d # c => calls'[d] = calls[d] /\ calls[d].pc \notin Given \cup Wiped,
         \A d \in Calls : calls[d].kind # "setAuth",
         calls[c].pc \in {"sent", "accepted"}, calls'[c].pc = "saveAccess",
         calls'[c].pair = p, p \in live' \cap fresh',
         calls'[c].kind = "setAuth" => \A d \in Calls : d # c => calls[d].pc = "idle"
  PROVE  Calm'
<1>1. /\ calls[c].pc \notin StoringPcs \cup Wiped
      /\ calls'[c].pc \in StoringPcs /\ calls'[c].pc \in Given /\ calls'[c].pc \notin Wiped
  BY DEF Given, StoringPcs, Wiped
<1>2. StoringPcs \subseteq Given BY DEF StoringPcs, Given
<1>3. \A d \in Calls : calls[d].pc \notin StoringPcs \cup Wiped /\ calls'[d].pc \notin Wiped
  BY <1>1, <1>2
<1>4. disk.access = disk.refresh /\ disk.access = accessToken /\ accessToken = refreshToken
  BY <1>3 DEF Calm
<1>5. CallIsCalm(c)'
  BY <1>1, <1>4 DEF CallIsCalm, Given, StoringPcs, Wiped
<1>6. ASSUME NEW d \in Calls, d # c PROVE CallIsCalm(d)'
  <2>1. CallIsCalm(d) /\ calls'[d] = calls[d] BY <1>6 DEF Calm
  <2>2. calls[d].pc \notin Given \cup Wiped /\ calls[d].kind # "setAuth" BY <1>6
  <2> QED BY <2>1, <2>2 DEF CallIsCalm, Given, StoringPcs, Wiped
<1> QED BY <1>1, <1>3, <1>4, <1>5, <1>6 DEF Calm

\* What is left calm was calm.
LEMMA CalmBefore == ASSUME MobileTypeOK, MobileStep, calm' PROVE calm
<1>1. calm \in BOOLEAN BY DEF MobileTypeOK
<1>2. \A c \in Calls : CallStep(c) => calm
  BY <1>1, Zenon DEF CallStep, StartApi, LoadUser, Send, Crosses, Logout, Login, Keep, Accepted,
     LoggedIn, NoAnswer, Unauthorized, UnauthorizedAgain, NothingToRefresh, CalmIfAlone,
     Verify, Rotated, Refused, LoseRefresh, Storm, SaveAccess, SaveRefresh, SetAuth,
     UpdateTokens, DropAccess, DropRefresh, ClearAuth
<1>3. AppStep => calm
  BY <1>1, Zenon DEF AppStep, NothingToLoad, Kill, HydrateFromSecureStore, Expire, RevokeAll,
     Keep, Storm
<1> QED BY <1>2, <1>3, MobileSteps

\* While nothing but time goes wrong, one call at a time changes the session,
\* and memory and secure store hold the same pair.
LEMMA CalmCallKeeps ==
  ASSUME ServerTypeOK, MobileTypeOK, Whole, Calm, NEW c \in Calls, CallStep(c), calm, calm'
  PROVE  Calm'
<1> DEFINE q == calls[c]
<1>1. /\ calls \in [Calls -> Call] /\ TRUE \in BOOLEAN /\ FALSE \in BOOLEAN
      /\ calls' \in [Calls -> Call]
      /\ \A d \in Calls : d # c => calls'[d] = calls[d]
  BY CallsMove DEF MobileTypeOK
<1>2. isHydrated BY MovesHydrated
<1>3. CallIsWhole(q) /\ CallIsCalm(c) BY DEF Whole, Calm
<1>4. \A d \in Calls : calls[d].kind = "setAuth" => calls[d].pc \in StoringPcs
  BY DEF Whole, CallIsWhole
<1>5. \A d \in Calls : calls[d].pc \in Given <=> Refreshing(d) \/ Saving(d)
  BY DEF Given, Refreshing, Saving
<1>6. \A d \in Calls : calls[d].pc \in Wiped <=> Wiping(d) BY DEF Wiped, Wiping
<1>7. StoringPcs \subseteq Given BY DEF StoringPcs, Given
<1>8. ASSUME q.pc \in Given
      PROVE  \A d \in Calls : d # c => calls[d].pc \notin Given \cup Wiped
  BY <1>3, <1>8 DEF CallIsCalm
<1>9. CASE StartApi(c) \/ LoadUser(c)
  <2>1. PICK kind \in {"api", "me"} : Send(c, kind)
        /\ UNCHANGED <<accessToken, refreshToken, isHydrated>>
    BY <1>9 DEF StartApi, LoadUser, storeVars
  <2>2. \A d \in Calls : calls[d].kind # "setAuth"
    <3>1. calm' = (calm /\ ~Storing) BY <2>1 DEF Send, Crosses
    <3>2. ~Storing BY <3>1, Zenon
    <3> QED BY <3>2 DEF Storing
  <2>3. q.pc = "idle" /\ UNCHANGED <<disk, live, fresh>> BY <2>1 DEF Send, At, serverVars
  <2>4. calls'[c].pc = "sent" /\ ~calls'[c].retried /\ calls'[c].kind # "setAuth"
    BY <2>1, SendMoves
  <2> QED BY <1>1, <2>1, <2>2, <2>3, <2>4, CalmRequests
<1>10. CASE \E u \in Users, right \in BOOLEAN : Login(c, u, right)
  <2>1. PICK u \in Users, right \in BOOLEAN : Login(c, u, right) BY <1>10
  <2>2. \A d \in Calls : calls[d].kind # "setAuth" BY <2>1 DEF Login
  <2>3. /\ q.pc = "idle"
        /\ UNCHANGED <<accessToken, refreshToken, isHydrated, disk, live, fresh>>
    BY <2>1 DEF Login, At, serverVars, storeVars
  <2>4. calls'[c].pc = "sent" /\ ~calls'[c].retried /\ calls'[c].kind # "setAuth"
    BY <1>1, <2>1, LoginMoves
  <2> QED BY <1>1, <2>2, <2>3, <2>4, CalmRequests
<1>11. ASSUME q.pc \in {"idle", "sent"} PROVE q.kind # "setAuth"
  BY <1>4, <1>11 DEF StoringPcs
<1>12. CASE Accepted(c) \/ NoAnswer(c)
  <2>1. q.pc = "sent" /\ End(c)
        /\ UNCHANGED <<accessToken, refreshToken, isHydrated, disk, live, fresh>>
    BY <1>12 DEF Accepted, NoAnswer, At, serverVars
  <2>2. calls'[c].pc = "idle" /\ calls'[c].kind # "setAuth" BY <1>1, <2>1, EndMoves
  <2> QED BY <1>1, <1>11, <2>1, <2>2, CalmRequests
<1>13. CASE UnauthorizedAgain(c)
  <2>1. q.pc = "sent" /\ ~q.good /\ q.retried
        /\ UNCHANGED <<accessToken, refreshToken, isHydrated, disk, live, fresh>>
    BY <1>13 DEF UnauthorizedAgain, At, serverVars, storeVars
  <2>2. q.kind = "login" BY <1>3, <2>1 DEF CallIsCalm
  <2>3. End(c) BY <1>13, <2>2 DEF UnauthorizedAgain
  <2>4. calls'[c].pc = "idle" /\ calls'[c].kind # "setAuth" BY <1>1, <2>3, EndMoves
  <2> QED BY <1>1, <1>11, <2>1, <2>4, CalmRequests
<1>14. ASSUME calm' = (calm /\ \A d \in Others(c) : ~Refreshing(d) /\ ~Saving(d)),
              q.pc \in {"idle", "sent"}
       PROVE  /\ \A d \in Calls : d # c => calls[d].pc \notin Given
              /\ \A d \in Calls : calls[d].kind # "setAuth"
  <2>1. \A d \in Others(c) : ~Refreshing(d) /\ ~Saving(d) BY <1>14, Zenon
  <2>2. \A d \in Calls : d # c => calls[d].pc \notin Given BY <1>5, <2>1 DEF Others
  <2> QED BY <1>4, <1>7, <1>11, <1>14, <2>2
<1>15. CASE NothingToRefresh(c)
  <2>1. /\ q.pc = "sent" /\ refreshToken = NoPair /\ Wipe(c, TRUE) /\ CalmIfAlone(c)
        /\ UNCHANGED <<accessToken, refreshToken, isHydrated, disk, live, fresh>>
    BY <1>15 DEF NothingToRefresh, At, serverVars, storeVars
  <2>2. calls'[c].pc = "dropAccess" /\ calls'[c].kind = q.kind BY <1>1, <2>1, WipeMoves
  <2>3. /\ \A d \in Calls : d # c => calls[d].pc \notin Given
        /\ \A d \in Calls : calls[d].kind # "setAuth"
    BY <1>14, <2>1 DEF CalmIfAlone
  <2>4. accessToken = NoPair BY <2>1 DEF Calm
  <2> QED BY <1>1, <1>2, <2>1, <2>2, <2>3, <2>4, CalmWipe
<1>16. CASE Logout(c)
  <2>1. /\ q.pc = "idle"
        /\ UNCHANGED <<accessToken, refreshToken, isHydrated, disk, live, fresh>>
    BY <1>16 DEF Logout, At, serverVars, storeVars
  <2>2. calls'[c].pc = "dropAccess" /\ calls'[c].kind = "logout" BY <1>1, <1>16, LogoutMoves
  <2>3. /\ \A d \in Calls : d # c => calls[d].pc \notin Given
        /\ \A d \in Calls : calls[d].kind # "setAuth"
    BY <1>14, <1>16, <2>1 DEF Logout
  <2> QED BY <1>1, <1>2, <2>1, <2>2, <2>3, CalmWipe
<1>17. ASSUME Refused(c) PROVE FALSE
  <2>1. q.pc = "refreshing" /\ q.pair \notin live BY <1>17 DEF Refused, At
  <2>2. q.pc \in Given /\ q.pc \notin StoringPcs BY <2>1 DEF Given, StoringPcs
  <2>3. q.pair = accessToken /\ q.pair # NoPair
    BY <1>3, <2>1, <2>2 DEF Calm, CallIsCalm, CallIsWhole
  <2>4. \A d \in Calls : calls[d].pc \notin StoringPcs BY <1>7, <1>8, <2>2
  <2>5. accessToken \in live \cup {NoPair} BY <2>4 DEF Calm
  <2> QED BY <2>1, <2>3, <2>5
<1>18. ASSUME LoseRefresh(c) PROVE FALSE
  BY <1>18 DEF LoseRefresh, Storm
<1>19. CASE Unauthorized(c)
  <2>1. /\ q.pc = "sent"
        /\ UNCHANGED <<accessToken, refreshToken, isHydrated, disk, live, fresh>>
        /\ calm' = (calm /\ \A d \in Others(c) : ~Refreshing(d) /\ ~Saving(d) /\ ~Wiping(d))
    BY <1>19 DEF Unauthorized, At, serverVars, storeVars
  <2>2. \A d \in Others(c) : ~Refreshing(d) /\ ~Saving(d) /\ ~Wiping(d) BY <2>1, Zenon
  <2>3. \A d \in Calls : d # c => calls[d].pc \notin Given \cup Wiped
    BY <1>5, <1>6, <2>2 DEF Others
  <2>4. \A d \in Calls : calls[d].kind # "setAuth" BY <1>4, <1>7, <1>11, <2>1, <2>3
  <2>5. /\ calls'[c].pc = "refreshing" /\ calls'[c].pair = refreshToken
        /\ calls'[c].kind = q.kind
    BY <1>19, UnauthorizedMoves
  <2> QED BY <1>1, <2>1, <2>3, <2>4, <2>5, CalmRefresh
<1>20. CASE Verify(c)
  <2>1. /\ q.pc = "refreshing" /\ Move(c, "accepted")
        /\ UNCHANGED <<accessToken, refreshToken, isHydrated, disk, live, fresh>>
    BY <1>20 DEF Verify, At, serverVars, storeVars
  <2>2. q.pc \in Given /\ "accepted" \in Places BY <2>1 DEF Given, Places
  <2>3. \A d \in Calls : d # c => calls[d].pc \notin Given \cup Wiped BY <1>8, <2>2
  <2>4. q.kind # "setAuth" BY <1>4, <2>1 DEF StoringPcs
  <2>5. \A d \in Calls : calls[d].kind # "setAuth" BY <1>4, <1>7, <2>3, <2>4
  <2>6. calls'[c].pc = "accepted" /\ calls'[c].pair = q.pair /\ calls'[c].kind = q.kind
    BY <1>1, <2>1, <2>2, MoveMoves
  <2>7. q.pair = refreshToken BY <1>3, <2>1 DEF CallIsCalm
  <2> QED BY <1>1, <2>1, <2>3, <2>5, <2>6, <2>7, CalmRefresh
<1>21. CASE Rotated(c)
  <2>1. PICK p \in Pairs :
           /\ Rotate(q.pair, p)
           /\ calls' = [calls EXCEPT ![c].pc = "saveAccess", ![c].pair = p]
    BY <1>21 DEF Rotated
  <2>2. q.pc = "accepted" /\ UNCHANGED <<accessToken, refreshToken, isHydrated, disk>>
    BY <1>21 DEF Rotated, At, storeVars
  <2>3. p \in live' \cap fresh' BY <2>1 DEF Rotate
  <2>4. calls'[c].pc = "saveAccess" /\ calls'[c].pair = p /\ calls'[c].kind = q.kind
    BY <1>1, <2>1, RotatedMoves
  <2>5. \A d \in Calls : d # c => calls[d].pc \notin Given \cup Wiped
    <3>1. q.pc \in Given BY <2>2 DEF Given
    <3> QED BY <1>8, <3>1
  <2>6. q.kind # "setAuth" BY <1>4, <2>2 DEF StoringPcs
  <2>7. \A d \in Calls : calls[d].kind # "setAuth" BY <1>4, <1>7, <2>5, <2>6
  <2> QED BY <1>1, <1>2, <2>2, <2>3, <2>4, <2>5, <2>6, <2>7, CalmReceives
<1>22. CASE LoggedIn(c)
  <2>1. PICK p \in Pairs :
           /\ Issue(q.who, p)
           /\ calls' = [calls EXCEPT ![c].kind = "setAuth", ![c].pc = "saveAccess", ![c].pair = p]
    BY <1>22 DEF LoggedIn
  <2>2. q.pc = "sent" /\ UNCHANGED <<accessToken, refreshToken, isHydrated, disk>>
    BY <1>22 DEF LoggedIn, At, storeVars
  <2>3. p \in live' \cap fresh' BY <2>1 DEF Issue
  <2>4. calls'[c].pc = "saveAccess" /\ calls'[c].pair = p BY <1>1, <2>1, LoggedInMoves
  <2>5. \A d \in Calls : d # c => calls[d].pc = "idle"
    <3>1. calm' = (calm /\ ~\E d \in Others(c) : ~At(d, "idle")) BY <1>22 DEF LoggedIn, Crosses
    <3>2. ~\E d \in Others(c) : ~At(d, "idle") BY <3>1, Zenon
    <3> QED BY <3>2 DEF Others, At
  <2>6. \A d \in Calls : d # c => calls[d].pc \notin Given \cup Wiped BY <2>5 DEF Given, Wiped
  <2>7. \A d \in Calls : calls[d].kind # "setAuth"
    BY <1>4, <1>7, <1>11, <2>2, <2>6
  <2> QED BY <1>1, <1>2, <2>2, <2>3, <2>4, <2>5, <2>6, <2>7, CalmReceives
<1>23. CASE SaveAccess(c)
  <2>1. /\ q.pc = "saveAccess" /\ Move(c, "saveRefresh")
        /\ disk' = [disk EXCEPT !.access = q.pair]
        /\ UNCHANGED <<accessToken, refreshToken, isHydrated, live, fresh>>
    BY <1>23 DEF SaveAccess, At, serverVars, storeVars
  <2>2. disk'.access = q.pair /\ disk'.refresh = disk.refresh BY <2>1 DEF MobileTypeOK
  <2>3. /\ calls'[c].pc = "saveRefresh" /\ calls'[c].pair = q.pair /\ calls'[c].kind = q.kind
    BY <1>1, <2>1, MoveMoves DEF Places
  <2> QED BY <1>1, <2>1, <2>2, <2>3, CalmSaves
<1>24. CASE SaveRefresh(c)
  <2>1. /\ q.pc = "saveRefresh" /\ Move(c, "saved")
        /\ disk' = [disk EXCEPT !.refresh = q.pair]
        /\ UNCHANGED <<accessToken, refreshToken, isHydrated, live, fresh>>
    BY <1>24 DEF SaveRefresh, At, serverVars, storeVars
  <2>2. disk'.refresh = q.pair /\ disk'.access = disk.access BY <2>1 DEF MobileTypeOK
  <2>3. /\ calls'[c].pc = "saved" /\ calls'[c].pair = q.pair /\ calls'[c].kind = q.kind
    BY <1>1, <2>1, MoveMoves DEF Places
  <2> QED BY <1>1, <2>1, <2>2, <2>3, CalmSaves
<1>25. CASE SetAuth(c)
  <2>1. /\ q.pc = "saved" /\ End(c)
        /\ accessToken' = q.pair /\ refreshToken' = q.pair
        /\ UNCHANGED <<isHydrated, disk, live, fresh>>
    BY <1>25 DEF SetAuth, At, serverVars
  <2>2. calls'[c].pc = "idle" /\ calls'[c].kind # "setAuth" BY <1>1, <2>1, EndMoves
  <2> QED BY <1>1, <2>1, <2>2, CalmSaved
<1>26. CASE UpdateTokens(c)
  <2>1. /\ q.pc = "saved" /\ q.kind # "setAuth"
        /\ accessToken' = q.pair /\ refreshToken' = q.pair
        /\ UNCHANGED <<isHydrated, disk, live, fresh>>
    BY <1>26 DEF UpdateTokens, At, serverVars
  <2>2. q.pair \in fresh BY <1>3, <2>1 DEF CallIsCalm, StoringPcs
  <2>3. /\ calls'[c].pc = "sent" /\ calls'[c].kind # "setAuth"
        /\ calls'[c].kind # "login" => calls'[c].good
    BY <1>1, <1>26, <2>1, <2>2, UpdateMoves
  <2> QED BY <1>1, <2>1, <2>3, CalmSaved
<1>27. CASE DropAccess(c)
  <2>1. /\ q.pc = "dropAccess" /\ Move(c, "dropRefresh")
        /\ disk' = [disk EXCEPT !.access = NoPair]
        /\ UNCHANGED <<accessToken, refreshToken, isHydrated, live, fresh>>
    BY <1>27 DEF DropAccess, At, serverVars, storeVars
  <2>2. disk'.access = NoPair /\ disk'.refresh = disk.refresh BY <2>1 DEF MobileTypeOK
  <2>3. calls'[c].pc = "dropRefresh" /\ calls'[c].kind = q.kind
    BY <1>1, <2>1, MoveMoves DEF Places
  <2>4. q.kind # "setAuth" BY <1>4, <2>1 DEF StoringPcs
  <2> QED BY <1>1, <2>1, <2>2, <2>3, <2>4, CalmDrops
<1>28. CASE DropRefresh(c)
  <2>1. /\ q.pc = "dropRefresh" /\ Move(c, "dropped")
        /\ disk' = [disk EXCEPT !.refresh = NoPair]
        /\ UNCHANGED <<accessToken, refreshToken, isHydrated, live, fresh>>
    BY <1>28 DEF DropRefresh, At, serverVars, storeVars
  <2>2. disk'.refresh = NoPair /\ disk'.access = disk.access BY <2>1 DEF MobileTypeOK
  <2>3. calls'[c].pc = "dropped" /\ calls'[c].kind = q.kind
    BY <1>1, <2>1, MoveMoves DEF Places
  <2>4. q.kind # "setAuth" BY <1>4, <2>1 DEF StoringPcs
  <2> QED BY <1>1, <2>1, <2>2, <2>3, <2>4, CalmDrops
<1>29. CASE ClearAuth(c)
  <2>1. /\ q.pc = "dropped" /\ accessToken' = NoPair /\ refreshToken' = NoPair
        /\ Wipe(c, FALSE) \/ End(c)
        /\ UNCHANGED <<isHydrated, disk, live, fresh>>
    BY <1>29 DEF ClearAuth, At, serverVars
  <2>2. q.kind # "setAuth" BY <1>4, <2>1 DEF StoringPcs
  <2>3. calls'[c].pc \in {"idle", "dropAccess"} /\ calls'[c].kind # "setAuth"
    BY <1>1, <2>1, <2>2, EndMoves, WipeMoves
  <2> QED BY <1>1, <2>1, <2>3, CalmCleared
<1> QED BY <1>9, <1>10, <1>12, <1>13, <1>15, <1>16, <1>17, <1>18, <1>19, <1>20, <1>21, <1>22,
           <1>23, <1>24, <1>25, <1>26, <1>27, <1>28, <1>29 DEF CallStep

LEMMA CalmKeeps ==
  ASSUME ServerTypeOK, MobileTypeOK, Whole, calm => Calm, MobileStep
  PROVE  calm' => Calm'
<1> SUFFICES ASSUME calm' PROVE Calm' OBVIOUS
<1>1. calm /\ Calm BY CalmBefore
<1>2. CASE \E c \in Calls : CallStep(c) BY <1>1, <1>2, CalmCallKeeps
<1>3. CASE NothingToLoad
  <2>1. UNCHANGED <<accessToken, refreshToken, isHydrated, disk, calls, live, fresh>>
    BY <1>3 DEF NothingToLoad, serverVars
  <2> QED BY <1>1, <2>1 DEF Calm, CallIsCalm
<1>4. CASE Kill
  <2>1. /\ calm' = (calm /\ \A c \in Calls : ~Refreshing(c) /\ ~Saving(c) /\ ~Wiping(c))
        /\ accessToken' = NoPair /\ refreshToken' = NoPair /\ isHydrated' = FALSE
        /\ UNCHANGED <<disk, live, fresh>>
        /\ \A c \in Calls : calls'[c] = Idle
    BY <1>4 DEF Kill, serverVars
  <2>2. \A c \in Calls : ~Refreshing(c) /\ ~Saving(c) /\ ~Wiping(c) BY <2>1, Zenon
  <2>3. \A c \in Calls : calls[c].pc \notin StoringPcs \cup Wiped
    BY <2>2 DEF Saving, Wiping, StoringPcs, Wiped
  <2>4. \A c \in Calls : calls'[c].pc = "idle" /\ calls'[c].kind = "api" BY <2>1, CallForms
  <2>5. disk.access = disk.refresh /\ disk.access \in live \cup {NoPair} BY <1>1, <2>3 DEF Calm
  <2>6. \A c \in Calls : CallIsCalm(c)'
    BY <2>4 DEF CallIsCalm, Given, StoringPcs, Wiped
  <2> QED BY <2>1, <2>4, <2>5, <2>6 DEF Calm, StoringPcs, Wiped
<1>5. CASE HydrateFromSecureStore
  <2>1. /\ accessToken' = disk.access /\ refreshToken' = disk.refresh
        /\ UNCHANGED <<disk, live, fresh, calls>>
    BY <1>5 DEF HydrateFromSecureStore, serverVars
  <2>2. \A c \in Calls : calls[c].pc = "idle" /\ calls[c].kind = "api"
    BY <1>5 DEF HydrateFromSecureStore, Whole, At, CallIsWhole
  <2>3. disk.access = disk.refresh /\ disk.access \in live \cup {NoPair}
    BY <1>1, <2>2 DEF Calm, StoringPcs, Wiped
  <2>4. \A c \in Calls : CallIsCalm(c)'
    BY <2>1, <2>2 DEF CallIsCalm, Given, StoringPcs, Wiped
  <2> QED BY <2>1, <2>2, <2>3, <2>4 DEF Calm, StoringPcs, Wiped
<1>6. CASE \E p \in Pairs : Expire(p)
  <2>1. PICK p \in Pairs : Expire(p) BY <1>6
  <2>2. /\ UNCHANGED <<accessToken, refreshToken, isHydrated, disk, calls, live>>
        /\ fresh' = fresh \ {p}
        /\ calm' = (calm /\ \A c \in Calls : Saving(c) => calls[c].pair # p)
    BY <2>1 DEF Expire, storeVars
  <2>3. \A c \in Calls : Saving(c) => calls[c].pair # p BY <2>2, Zenon
  <2>4. \A c \in Calls : CallIsCalm(c)'
    BY <1>1, <2>2, <2>3 DEF Calm, CallIsCalm, Saving, StoringPcs
  <2> QED BY <1>1, <2>2, <2>4 DEF Calm
<1>7. CASE \E u \in Users : RevokeAll(u) BY <1>7 DEF RevokeAll, Storm
<1> QED BY <1>2, <1>3, <1>4, <1>5, <1>6, <1>7, MobileSteps DEF AppStep

-----------------------------------------------------------------------------
(* The secure store *)

\* As long as deletions and saves have kept apart: how far a call has come tells what
\* the store holds, and the memory is not empty while the store is not.
StoreIsWhole ==
    /\ \A c, d \in Calls : ~(calls[c].pc \in StoringPcs /\ calls[d].pc \in Wiped)
    /\ \A c \in Calls :
          /\ calls[c].pc \in {"dropRefresh", "dropped"} => disk.access = NoPair
          /\ calls[c].pc = "dropped" => disk.refresh = NoPair
          /\ calls[c].pc \in {"saveRefresh", "saved"} => disk.access # NoPair
    /\ disk.access = NoPair /\ (\A c \in Calls : calls[c].pc \notin Wiped)
         => disk.refresh = NoPair
    /\ isHydrated /\ accessToken = NoPair /\ (\A c \in Calls : calls[c].pc \notin StoringPcs)
         => refreshToken = NoPair /\ disk.access = NoPair /\ disk.refresh = NoPair

\* A step that neither writes nor is in the middle of a save or a deletion.
LEMMA StoreUntouched ==
  ASSUME StoreIsWhole, NEW c \in Calls,
         calls[c].pc \notin StoringPcs \cup Wiped,
         calls'[c].pc \notin {"dropRefresh", "dropped", "saveRefresh", "saved"},
         \A d \in Calls : d # c => calls'[d] = calls[d],
         \A x, d \in Calls : ~(calls'[x].pc \in StoringPcs /\ calls'[d].pc \in Wiped),
         UNCHANGED <<disk, accessToken, refreshToken, isHydrated>>
  PROVE  StoreIsWhole'
<1>1. \A d \in Calls : calls[d].pc \in StoringPcs => calls'[d].pc \in StoringPcs OBVIOUS
<1>2. \A d \in Calls : calls[d].pc \in Wiped => calls'[d].pc \in Wiped OBVIOUS
<1>3. \A d \in Calls : calls'[d].pc \in {"dropRefresh", "dropped", "saveRefresh", "saved"}
                         => calls'[d].pc = calls[d].pc
  OBVIOUS
<1> QED BY <1>1, <1>2, <1>3 DEF StoreIsWhole

LEMMA StoreStep ==
  ASSUME MobileTypeOK, Whole, StoreIsWhole, NEW c \in Calls, CallStep(c),
         \A x, d \in Calls : ~(calls'[x].pc \in StoringPcs /\ calls'[d].pc \in Wiped)
  PROVE  StoreIsWhole'
<1> USE DEF StoringPcs, Wiped
<1>1. /\ calls \in [Calls -> Call] /\ disk \in [access : Tokens, refresh : Tokens]
      /\ TRUE \in BOOLEAN /\ FALSE \in BOOLEAN
  BY DEF MobileTypeOK
<1>2. \A d \in Calls : d # c => calls'[d] = calls[d] BY CallsMove
<1>3. CallIsWhole(calls[c]) BY DEF Whole
<1>4. calls[c].pc \in StoringPcs => calls[c].pair # NoPair BY <1>3 DEF CallIsWhole, Given
<1>5. isHydrated' = isHydrated
  BY DEF CallStep, StartApi, LoadUser, Logout, Login, Accepted,
     LoggedIn, NoAnswer, Unauthorized, UnauthorizedAgain, NothingToRefresh,
     Verify, Rotated, Refused, LoseRefresh, SaveAccess, SaveRefresh, SetAuth,
     UpdateTokens, DropAccess, DropRefresh, ClearAuth, storeVars
<1>6. CASE SaveAccess(c) \/ SaveRefresh(c)
  <2>1. {"saveRefresh", "saved"} \subseteq Places BY DEF Places
  <2>2. /\ calls[c].pc \in {"saveAccess", "saveRefresh"}
        /\ calls'[c].pc \in {"saveRefresh", "saved"}
        /\ calls[c].pc = "saveRefresh" => disk'.access = disk.access
        /\ calls[c].pc = "saveAccess" => disk'.access = calls[c].pair
    BY <1>1, <1>6, <2>1, MoveMoves DEF SaveAccess, SaveRefresh, At
  <2>3. disk'.access # NoPair BY <1>4, <2>2 DEF StoreIsWhole
  <2>4. \A d \in Calls : calls'[d].pc \notin Wiped BY <1>2, <2>2 DEF StoreIsWhole
  <2> QED BY <2>2, <2>3, <2>4 DEF StoreIsWhole
<1>7. CASE SetAuth(c) \/ UpdateTokens(c)
  <2>1. /\ calls[c].pc = "saved" /\ calls'[c].pc \in {"idle", "sent"}
        /\ accessToken' = calls[c].pair /\ disk' = disk
    BY <1>1, <1>7, EndMoves, UpdateMoves DEF SetAuth, UpdateTokens, At
  <2>2. accessToken' # NoPair BY <1>4, <2>1
  <2>3. \A d \in Calls : calls'[d].pc \notin Wiped BY <1>2, <2>1 DEF StoreIsWhole
  <2>4. disk'.access # NoPair BY <2>1 DEF StoreIsWhole
  <2>5. \A d \in Calls : calls[d].pc \notin Wiped BY <2>1 DEF StoreIsWhole
  <2> QED BY <2>2, <2>3, <2>4 DEF StoreIsWhole
<1>8. CASE DropAccess(c) \/ DropRefresh(c)
  <2>1. {"dropRefresh", "dropped"} \subseteq Places BY DEF Places
  <2>2. /\ calls[c].pc \in {"dropAccess", "dropRefresh"} /\ calls'[c].pc \in {"dropRefresh", "dropped"}
        /\ disk'.access = NoPair
        /\ disk'.refresh \in {disk.refresh, NoPair}
        /\ calls'[c].pc = "dropped" => disk'.refresh = NoPair
        /\ UNCHANGED <<accessToken, refreshToken>>
    <3>1. CASE DropAccess(c)
      BY <1>1, <2>1, <3>1, MoveMoves DEF DropAccess, At, storeVars
    <3>2. CASE DropRefresh(c)
      <4>1. disk.access = NoPair BY <3>2 DEF StoreIsWhole, DropRefresh, At
      <4> QED BY <1>1, <2>1, <3>2, <4>1, MoveMoves DEF DropRefresh, At, storeVars
    <3> QED BY <1>8, <3>1, <3>2
  <2>3. \A d \in Calls : calls[d].pc \notin StoringPcs /\ calls'[d].pc \notin StoringPcs
    BY <1>2, <2>2 DEF StoreIsWhole
  <2>4. \A d \in Calls : calls'[d].pc = "dropped" => disk'.refresh = NoPair
    BY <1>2, <2>2 DEF StoreIsWhole
  <2>5. isHydrated' /\ accessToken' = NoPair => refreshToken' = NoPair /\ disk'.refresh = NoPair
    BY <1>5, <2>2, <2>3 DEF StoreIsWhole
  <2> QED BY <2>2, <2>3, <2>4, <2>5 DEF StoreIsWhole
<1>9. CASE ClearAuth(c)
  <2>1. /\ calls[c].pc = "dropped" /\ calls'[c].pc \in {"idle", "dropAccess"}
        /\ refreshToken' = NoPair /\ disk' = disk
    BY <1>1, <1>9, EndMoves, WipeMoves DEF ClearAuth, At
  <2>2. disk'.access = NoPair /\ disk'.refresh = NoPair BY <2>1 DEF StoreIsWhole
  <2>3. \A d \in Calls : calls'[d].pc \notin StoringPcs BY <1>2, <2>1 DEF StoreIsWhole
  <2> QED BY <2>1, <2>2, <2>3 DEF StoreIsWhole
<1>10. ASSUME NEW pc \in {"idle", "sent", "refreshing", "accepted", "saveAccess", "dropAccess"},
              calls'[c].pc = pc, calls[c].pc \notin StoringPcs \cup Wiped,
              UNCHANGED <<disk, accessToken, refreshToken>>
       PROVE  StoreIsWhole'
  BY <1>2, <1>5, <1>10, StoreUntouched
<1>11. CASE StartApi(c) \/ LoadUser(c) \/ Logout(c) \/ \E u \in Users, right \in BOOLEAN : Login(c, u, right)
  <2>1. calls'[c].pc \in {"sent", "dropAccess"}
    BY <1>1, <1>11, SendMoves, LogoutMoves, LoginMoves DEF StartApi, LoadUser
  <2>2. calls[c].pc = "idle" /\ UNCHANGED <<disk, accessToken, refreshToken>>
    BY <1>11 DEF StartApi, LoadUser, Send, Logout, Login, At, storeVars
  <2> QED BY <1>10, <2>1, <2>2
<1>12. CASE Accepted(c) \/ NoAnswer(c) \/ UnauthorizedAgain(c) \/ NothingToRefresh(c)
            \/ Unauthorized(c) \/ LoggedIn(c)
  <2>1. calls'[c].pc \in {"idle", "dropAccess", "refreshing", "saveAccess"}
    BY <1>1, <1>12, EndMoves, WipeMoves, UnauthorizedMoves, LoggedInMoves
       DEF Accepted, NoAnswer, UnauthorizedAgain, NothingToRefresh, LoggedIn
  <2>2. calls[c].pc = "sent" /\ UNCHANGED <<disk, accessToken, refreshToken>>
    BY <1>12 DEF Accepted, NoAnswer, UnauthorizedAgain, NothingToRefresh, Unauthorized, LoggedIn,
       At, storeVars
  <2> QED BY <1>10, <2>1, <2>2
<1>13. CASE Verify(c) \/ Rotated(c) \/ Refused(c) \/ LoseRefresh(c)
  <2>1. "accepted" \in Places BY DEF Places
  <2>2. calls'[c].pc \in {"accepted", "saveAccess", "dropAccess"}
    BY <1>1, <1>13, <2>1, MoveMoves, RotatedMoves, WipeMoves DEF Verify, Rotated, Refused, LoseRefresh
  <2>3. calls[c].pc \in {"refreshing", "accepted"} /\ UNCHANGED <<disk, accessToken, refreshToken>>
    BY <1>13 DEF Verify, Rotated, Refused, LoseRefresh, Refreshing, At, storeVars
  <2> QED BY <1>10, <2>2, <2>3
<1> QED BY <1>6, <1>7, <1>8, <1>9, <1>11, <1>12, <1>13 DEF CallStep

LEMMA StoreKeeps ==
  ASSUME MobileTypeOK, Whole, ~torn => StoreIsWhole, MobileNext, ~torn'
  PROVE  StoreIsWhole'
<1>1. StoreIsWhole /\ ~Tears BY DEF MobileNext
<1>2. \A x, d \in Calls : ~(calls'[x].pc \in StoringPcs /\ calls'[d].pc \in Wiped)
  BY <1>1 DEF Tears, Saving, Wiping, StoringPcs, Wiped
<1>3. ASSUME NEW c \in Calls, CallStep(c) PROVE StoreIsWhole'
  BY <1>1, <1>2, <1>3, StoreStep
<1>4. CASE Kill
  <2>1. \A c \in Calls : calls[c].pc \notin Wiped BY <1>1, <1>4 DEF Tears, Kill, Wiping, Wiped
  <2>2. \A c \in Calls : calls'[c].pc = "idle" BY <1>4, CallForms DEF Kill
  <2>3. disk' = disk /\ isHydrated' = FALSE BY <1>4 DEF Kill
  <2> QED BY <1>1, <2>1, <2>2, <2>3 DEF StoreIsWhole, StoringPcs, Wiped
<1>5. CASE HydrateFromSecureStore
  <2>1. \A c \in Calls : calls[c].pc = "idle" /\ calls' = calls
    BY <1>5 DEF HydrateFromSecureStore, Whole, At
  <2>2. accessToken' = disk.access /\ refreshToken' = disk.refresh /\ disk' = disk
    BY <1>5 DEF HydrateFromSecureStore
  <2> QED BY <1>1, <2>1, <2>2 DEF StoreIsWhole, StoringPcs, Wiped
<1>6. CASE AppStep /\ ~Kill /\ ~HydrateFromSecureStore
  <2>1. UNCHANGED <<calls, isHydrated, accessToken, refreshToken, disk>>
    BY <1>6 DEF AppStep, NothingToLoad, Expire, RevokeAll, storeVars
  <2> QED BY <1>1, <2>1 DEF StoreIsWhole
<1> QED BY <1>3, <1>4, <1>5, <1>6, MobileSteps DEF MobileNext

-----------------------------------------------------------------------------
(* The preferences *)

\* What a quiet phone knows of a change under way.
ChangeIsTrue(x, u) ==
    /\ x.pc \in {"sent", "applied"}
    /\ x.who = u
    /\ cache = x.want
    /\ x.before # x.want
    /\ x.pc = "sent" /\ u \in told => wish[u] = x.before
    /\ x.pc = "applied" => wish[u] = x.want

ChangesAreTrue ==
    \A s \in Saves : saves[s].pc # "idle" =>
        /\ ChangeIsTrue(saves[s], person)
        /\ \A x \in Saves : saves[x].pc # "idle" => x = s

ChangesAlone ==
    Changing => person # Nobody /\ NothingRead /\ fetching = "no" /\ ~failed /\ hydrated

\* Nobody is signed in.
AtRestNow ==
    person = Nobody =>
        /\ cache = Unset
        /\ ~failed
        /\ ~Reading("prime") /\ ~Reading("fallback")

\* Of whom and what the reads under way will tell.
ReadsAreTrue ==
    /\ \A e \in Effects : Reading(e) /\ reads[e].who \in told =>
           reads[e].value = wish[reads[e].who]
    /\ \A e \in Effects : Reading(e) /\ (e = "hydrate" => person # Nobody) =>
           reads[e].who = person
    /\ Reading("hydrate") /\ person # Nobody => ~hydrated /\ ~Reading("prime")
    /\ Reading("prime") \/ (Reading("hydrate") /\ person # Nobody) =>
           cache = Unset /\ ~profile /\ fetching = "no" /\ ~failed
    /\ Reading("fallback") =>
           failed /\ hydrated /\ (~leaving => reads["fallback"].value = cache)

\* A phone that was told has kept it and shows it.
CopiesAreTrue ==
    /\ \A u \in told : ~SaveOf(u) => kept[u] = wish[u]
    /\ person \in told /\ ~Changing =>
           /\ cache # Unset => cache = wish[person]
           /\ hydrated => shown = wish[person]

QueryIsTrue ==
    /\ fetching # "no" => cache # Unset
    /\ fetching \in Setting => fetching = wish[person]
    /\ failed => cache # Unset
    /\ (fetching # "no" \/ failed \/ profile) /\ ~leaving => kept[person] = cache
    /\ profile => hydrated /\ shown = cache

Agreed ==
    /\ ChangesAreTrue
    /\ ChangesAlone
    /\ AtRestNow
    /\ ReadsAreTrue
    /\ CopiesAreTrue
    /\ QueryIsTrue

\* Whatever has met: nothing is begun without a user.
Vacant ==
    /\ person = Nobody => ~profile /\ fetching = "no" /\ ~leaving
    /\ \A s \in Saves : saves[s].pc # "idle" => saves[s].who # Nobody
    /\ profile => cache # Unset

PrefInv ==
    /\ PrefTypeOK
    /\ Vacant
    /\ quiet => Agreed

LEMMA PrefStarts == PrefInit => PrefInv
<1> SUFFICES ASSUME PrefInit PROVE PrefInv OBVIOUS
<1> USE DEF PrefInit
<1>1. NoSave \in Save /\ NoSave.pc = "idle" BY DEF Save, NoSave, Setting, Default
<1>2. NoRead \in [who : Users \cup {Nobody}, value : Setting] /\ NoRead.who = Nobody
  BY DEF NoRead, Setting, Default
<1>3. PrefTypeOK BY <1>1, <1>2 DEF PrefTypeOK, Setting, Default, Unset
<1>4. (\A s \in Saves : saves[s].pc = "idle") /\ NothingRead
  BY <1>1, <1>2 DEF NothingRead, Reading
<1>5. ~Reading("hydrate") /\ ~Reading("prime") /\ ~Reading("fallback")
  BY <1>4 DEF NothingRead, Effects
<1> HIDE DEF PrefInit
<1>6. /\ person = Nobody /\ cache = Unset /\ fetching = "no" /\ told = {}
      /\ ~hydrated /\ ~failed /\ ~profile /\ ~leaving
  BY DEF PrefInit
<1>7. Vacant BY <1>4, <1>6 DEF Vacant
<1>8. ChangesAreTrue /\ ChangesAlone /\ AtRestNow
  BY <1>4, <1>5, <1>6 DEF ChangesAreTrue, ChangesAlone, Changing, AtRestNow
<1>9. ReadsAreTrue BY <1>4, <1>5, <1>6 DEF ReadsAreTrue, NothingRead
<1>10. CopiesAreTrue /\ QueryIsTrue
  BY <1>6 DEF CopiesAreTrue, QueryIsTrue, Setting
<1> QED BY <1>3, <1>7, <1>8, <1>9, <1>10 DEF PrefInv, Agreed

LEMMA PrefTyped ==
  ASSUME PrefTypeOK, Vacant, PrefNext
  PROVE  PrefTypeOK'
<1> DEFINE Read == [who : Users \cup {Nobody}, value : Setting]
           Wishes == [Users -> Setting \cup {Unset}]
<1> USE UsersAssumption DEF PrefTypeOK, Vacant, storeVarsOfPrefs, queryVars, Mishap,
        SetNotificationPreferences, SetQueryData, StartRead, EndRead
<1>1. NoSave \in Save /\ NoSave.pc = "idle"
  BY DEF Save, NoSave, Setting, Default
<1>2. /\ NoRead \in Read
      /\ \A u \in Users : ReadFor(u) \in Read
      /\ \A e \in Effects : reads[e] \in Read
      /\ \A e \in Effects, r \in Read : [reads EXCEPT ![e] = r] \in [Effects -> Read]
  BY DEF NoRead, ReadFor, Stored, Setting, Default, Unset
<1>3. \A v \in Setting, to \in Wishes : Persisted(v, to) \in Wishes
  BY DEF Persisted
<1>4. /\ Default \in Setting /\ \A v \in Setting : Other(v) \in Setting
      /\ Unset \notin Setting /\ "no" \notin Setting /\ "sent" \notin Setting
      /\ "hydrate" \in Effects /\ "prime" \in Effects /\ "fallback" \in Effects
  BY DEF Default, Setting, Other, Unset, Effects
<1>5. \A e \in Effects : reads[e].value \in Setting
  BY <1>2
<1>6. \A s \in Saves : /\ saves[s] \in Save /\ saves[s].want \in Setting
                        /\ saves[s].before \in Setting /\ saves[s].who \in Users \cup {Nobody}
                        /\ \A x \in Save : [saves EXCEPT ![s] = x] \in [Saves -> Save]
                        /\ [saves[s] EXCEPT !.pc = "applied"] \in Save
                        /\ [saves[s] EXCEPT !.pc = "late", !.here = FALSE] \in Save
                        /\ [saves[s] EXCEPT !.here = FALSE] \in Save
  BY DEF Save
<1>7. \A u \in Users, want, before \in Setting :
        [pc |-> "sent", who |-> u, want |-> want, before |-> before, here |-> TRUE] \in Save
  BY DEF Save
<1> HIDE DEF Read, Wishes
<1>8. CASE \E u \in Users : SignInWithPrefs(u)
  <2>1. PICK u \in Users : SignInWithPrefs(u) BY <1>8
  <2>2. wish' \in [Users -> Setting] /\ kept' \in Wishes BY <2>1 DEF SignInWithPrefs, Wishes, Read
  <2>3. saves' \in [Saves -> Save] BY <2>1 DEF SignInWithPrefs
  <2>4. reads' \in [Effects -> Read] BY <1>2, <1>4, <2>1 DEF SignInWithPrefs, Read
  <2>6. /\ cache' \in Setting \cup {Unset}
        /\ shown' \in Setting
        /\ person' \in Users \cup {Nobody}
        /\ fetching' \in Setting \cup {"no", "sent"}
    BY <2>1 DEF SignInWithPrefs
  <2>7. {hydrated, recent, failed, profile, due, leaving, quiet}' \subseteq BOOLEAN
    BY <2>1 DEF SignInWithPrefs
  <2>8. registering' \subseteq Users /\ told' \subseteq Users BY <2>1 DEF SignInWithPrefs
  <2> QED BY <2>2, <2>3, <2>4, <2>6, <2>7, <2>8 DEF Wishes, Read
<1>9. CASE \E u \in Users : ChangedElsewhere(u)
  <2>1. PICK u \in Users : ChangedElsewhere(u) BY <1>9
  <2>2. wish' \in [Users -> Setting] /\ kept' \in Wishes
    BY <1>4, <2>1 DEF ChangedElsewhere, Wishes, Read
  <2>3. saves' \in [Saves -> Save] BY <2>1 DEF ChangedElsewhere
  <2>4. reads' \in [Effects -> Read] BY <2>1 DEF ChangedElsewhere, Wishes, Read
  <2>6. /\ cache' \in Setting \cup {Unset}
        /\ shown' \in Setting
        /\ person' \in Users \cup {Nobody}
        /\ fetching' \in Setting \cup {"no", "sent"}
    BY <2>1 DEF ChangedElsewhere
  <2>7. {hydrated, recent, failed, profile, due, leaving, quiet}' \subseteq BOOLEAN
    BY <2>1 DEF ChangedElsewhere
  <2>8. registering' \subseteq Users /\ told' \subseteq Users BY <2>1 DEF ChangedElsewhere
  <2> QED BY <2>2, <2>3, <2>4, <2>6, <2>7, <2>8 DEF Wishes, Read
<1>10. CASE Hydrate
  BY <1>2, <1>4, <1>5, <1>10 DEF Hydrate, Wishes, Read
<1>11. CASE PrimeQueryCache
  BY <1>2, <1>3, <1>4, <1>5, <1>11 DEF PrimeQueryCache, Wishes, Read
<1>12. CASE EmptyStorage
  BY <1>12 DEF EmptyStorage
<1>13. CASE EndSession
  BY <1>1, <1>2, <1>4, <1>5, <1>6, <1>13 DEF EndSession, Reset, Wishes, Read
<1>14. CASE KillWithPrefs
  BY <1>1, <1>2, <1>4, <1>5, <1>6, <1>14 DEF KillWithPrefs, Reset, Wishes, Read
<1>15. CASE OpenProfile
  <2>1. OpenProfile BY <1>15
  <2>2. wish' \in [Users -> Setting] /\ kept' \in Wishes BY <1>4, <2>1 DEF OpenProfile, Wishes, Read
  <2>3. saves' \in [Saves -> Save] BY <2>1 DEF OpenProfile
  <2>4. reads' \in [Effects -> Read]
    <3>1. person \in Users BY <2>1 DEF OpenProfile
    <3>2. UNCHANGED reads \/ StartRead("fallback") BY <2>1 DEF OpenProfile
    <3> QED BY <1>2, <1>4, <3>1, <3>2 DEF Read
  <2>6. /\ cache' \in Setting \cup {Unset}
        /\ shown' \in Setting
        /\ person' \in Users \cup {Nobody}
        /\ fetching' \in Setting \cup {"no", "sent"}
    BY <1>4, <2>1 DEF OpenProfile
  <2>7. {hydrated, recent, failed, profile, due, leaving, quiet}' \subseteq BOOLEAN
    BY <2>1 DEF OpenProfile
  <2>8. registering' \subseteq Users /\ told' \subseteq Users BY <2>1 DEF OpenProfile
  <2> QED BY <2>2, <2>3, <2>4, <2>6, <2>7, <2>8 DEF Wishes, Read
<1>16. CASE CloseProfile
  BY <1>4, <1>5, <1>6, <1>16 DEF CloseProfile
<1>17. CASE Age
  BY <1>17 DEF Age
<1>18. CASE Collect
  BY <1>18 DEF Collect
<1>19. CASE GetUserPreferences
  BY <1>19 DEF GetUserPreferences
<1>20. CASE Fetched
  BY <1>3, <1>4, <1>5, <1>6, <1>20 DEF Fetched, Wishes, Read
<1>21. CASE FetchFails
  <2>1. FetchFails BY <1>21
  <2>2. wish' \in [Users -> Setting] /\ kept' \in Wishes BY <2>1 DEF FetchFails, Wishes, Read
  <2>3. saves' \in [Saves -> Save] BY <2>1 DEF FetchFails
  <2>4. reads' \in [Effects -> Read]
    <3>1. UNCHANGED reads \/ (StartRead("fallback") /\ profile) BY <2>1 DEF FetchFails
    <3>2. profile => person \in Users OBVIOUS
    <3> QED BY <1>2, <1>4, <3>1, <3>2 DEF Read
  <2>6. /\ cache' \in Setting \cup {Unset}
        /\ shown' \in Setting
        /\ person' \in Users \cup {Nobody}
        /\ fetching' \in Setting \cup {"no", "sent"}
    BY <2>1 DEF FetchFails
  <2>7. {hydrated, recent, failed, profile, due, leaving, quiet}' \subseteq BOOLEAN
    BY <2>1 DEF FetchFails
  <2>8. registering' \subseteq Users /\ told' \subseteq Users BY <2>1 DEF FetchFails
  <2> QED BY <2>2, <2>3, <2>4, <2>6, <2>7, <2>8 DEF Wishes, Read
<1>22. CASE FallBack
  BY <1>2, <1>3, <1>4, <1>5, <1>22 DEF FallBack, Wishes, Read
<1>23. CASE RunRegistration
  BY <1>23 DEF RunRegistration
<1>24. CASE \E s \in Saves : Toggle(s)
  <2>1. PICK s \in Saves : Toggle(s) BY <1>24
  <2>2. wish' \in [Users -> Setting] /\ kept' \in Wishes
    BY <1>3, <1>4, <1>5, <1>6, <2>1 DEF Toggle, Wishes, Read
  <2>3. saves' \in [Saves -> Save]
    <3>1. person \in Users /\ cache \in Setting BY <2>1 DEF Toggle
    <3>2. saves' = [saves EXCEPT ![s] = [pc |-> "sent", who |-> person, want |-> Other(shown),
                                        before |-> cache, here |-> TRUE]]
      BY <2>1 DEF Toggle
    <3> QED BY <1>4, <1>6, <1>7, <3>1, <3>2
  <2>4. reads' \in [Effects -> Read] BY <2>1 DEF Toggle, Wishes, Read
  <2>6. /\ cache' \in Setting \cup {Unset}
        /\ shown' \in Setting
        /\ person' \in Users \cup {Nobody}
        /\ fetching' \in Setting \cup {"no", "sent"}
    BY <1>4, <2>1 DEF Toggle
  <2>7. {hydrated, recent, failed, profile, due, leaving, quiet}' \subseteq BOOLEAN
    BY <2>1 DEF Toggle
  <2>8. registering' \subseteq Users /\ told' \subseteq Users BY <2>1 DEF Toggle
  <2> QED BY <2>2, <2>3, <2>4, <2>6, <2>7, <2>8 DEF Wishes, Read
<1>25. CASE \E s \in Saves : UpsertUserPreferences(s)
  <2>1. PICK s \in Saves : UpsertUserPreferences(s) BY <1>25
  <2>2. wish' \in [Users -> Setting] /\ kept' \in Wishes
    BY <1>4, <1>5, <1>6, <2>1 DEF UpsertUserPreferences, Wishes, Read
  <2>3. saves' \in [Saves -> Save]
    <3>1. PICK x \in Save : saves' = [saves EXCEPT ![s] = x]
      BY <1>1, <1>6, <2>1 DEF UpsertUserPreferences
    <3> QED BY <1>6, <3>1
  <2>4. reads' \in [Effects -> Read] BY <2>1 DEF UpsertUserPreferences, Wishes, Read
  <2>6. /\ cache' \in Setting \cup {Unset}
        /\ shown' \in Setting
        /\ person' \in Users \cup {Nobody}
        /\ fetching' \in Setting \cup {"no", "sent"}
    BY <2>1 DEF UpsertUserPreferences
  <2>7. {hydrated, recent, failed, profile, due, leaving, quiet}' \subseteq BOOLEAN
    BY <2>1 DEF UpsertUserPreferences
  <2>8. registering' \subseteq Users /\ told' \subseteq Users BY <2>1 DEF UpsertUserPreferences
  <2> QED BY <2>2, <2>3, <2>4, <2>6, <2>7, <2>8 DEF Wishes, Read
<1>26. CASE \E s \in Saves : Saved(s)
  <2>1. PICK s \in Saves : Saved(s) BY <1>26
  <2>2. wish' \in [Users -> Setting] /\ kept' \in Wishes
    BY <1>3, <1>4, <1>5, <1>6, <2>1 DEF Saved, Wishes, Read
  <2>3. saves' \in [Saves -> Save] BY <1>1, <1>4, <1>6, <1>7, <2>1 DEF Saved
  <2>4. reads' \in [Effects -> Read] BY <2>1 DEF Saved, Wishes, Read
  <2>6. /\ cache' \in Setting \cup {Unset}
        /\ shown' \in Setting
        /\ person' \in Users \cup {Nobody}
        /\ fetching' \in Setting \cup {"no", "sent"}
    BY <1>4, <1>5, <1>6, <2>1 DEF Saved
  <2>7. {hydrated, recent, failed, profile, due, leaving, quiet}' \subseteq BOOLEAN
    BY <2>1 DEF Saved
  <2>8. registering' \subseteq Users /\ told' \subseteq Users
    BY <1>4, <1>5, <1>6, <2>1 DEF Saved
  <2> QED BY <2>2, <2>3, <2>4, <2>6, <2>7, <2>8 DEF Wishes, Read
<1>27. CASE \E s \in Saves : SaveFails(s)
  <2>1. PICK s \in Saves : SaveFails(s) BY <1>27
  <2>2. wish' \in [Users -> Setting] /\ kept' \in Wishes
    BY <1>3, <1>4, <1>5, <1>6, <2>1 DEF SaveFails, Wishes, Read
  <2>3. saves' \in [Saves -> Save]
    <3>1. \/ saves' = [saves EXCEPT ![s] = NoSave]
          \/ saves' = [saves EXCEPT ![s] = [saves[s] EXCEPT !.pc = "late", !.here = FALSE]]
      BY <2>1 DEF SaveFails
    <3> QED BY <1>1, <1>6, <3>1
  <2>4. reads' \in [Effects -> Read] BY <2>1 DEF SaveFails, Wishes, Read
  <2>6. /\ cache' \in Setting \cup {Unset}
        /\ shown' \in Setting
        /\ person' \in Users \cup {Nobody}
        /\ fetching' \in Setting \cup {"no", "sent"}
    BY <1>4, <1>5, <1>6, <2>1 DEF SaveFails
  <2>7. {hydrated, recent, failed, profile, due, leaving, quiet}' \subseteq BOOLEAN
    BY <2>1 DEF SaveFails
  <2>8. registering' \subseteq Users /\ told' \subseteq Users BY <2>1 DEF SaveFails
  <2> QED BY <2>2, <2>3, <2>4, <2>6, <2>7, <2>8 DEF Wishes, Read
<1> QED
  BY <1>8, <1>9, <1>10, <1>11, <1>12, <1>13, <1>14, <1>15, <1>16, <1>17, <1>18, <1>19, <1>20,
     <1>21, <1>22, <1>23, <1>24, <1>25, <1>26, <1>27
     DEF PrefNext

LEMMA VacantKeeps ==
  ASSUME PrefTypeOK, Vacant, PrefNext
  PROVE  Vacant'
<1> USE UsersAssumption DEF PrefTypeOK, storeVarsOfPrefs, queryVars, Mishap,
        SetNotificationPreferences, SetQueryData, StartRead, EndRead
<1>1. NoSave.pc = "idle" BY DEF NoSave
<1>2. /\ Default \in Setting /\ \A v \in Setting : Other(v) \in Setting
      /\ Unset \notin Setting /\ "no" \notin Setting /\ "sent" \notin Setting
      /\ "hydrate" \in Effects /\ "prime" \in Effects /\ "fallback" \in Effects
  BY DEF Default, Setting, Other, Unset, Effects
<1>3. /\ \A e \in Effects : reads[e].value \in Setting
      /\ \A s \in Saves : saves[s].want \in Setting /\ saves[s].before \in Setting
  BY DEF Save
<1>4. \A s \in Saves : /\ [saves[s] EXCEPT !.here = FALSE].pc = saves[s].pc
                        /\ [saves[s] EXCEPT !.here = FALSE].who = saves[s].who
                        /\ [saves[s] EXCEPT !.pc = "late", !.here = FALSE].who = saves[s].who
  BY DEF Save
<1>5. CASE \E u \in Users : SignInWithPrefs(u)
  BY <1>1, <1>2, <1>3, <1>5 DEF Vacant, SignInWithPrefs
<1>6. CASE \E u \in Users : ChangedElsewhere(u)
  BY <1>1, <1>2, <1>3, <1>6 DEF Vacant, ChangedElsewhere
<1>7. CASE Hydrate BY <1>1, <1>2, <1>3, <1>7 DEF Vacant, Hydrate
<1>8. CASE PrimeQueryCache BY <1>1, <1>2, <1>3, <1>8 DEF Vacant, PrimeQueryCache
<1>9. CASE EmptyStorage BY <1>1, <1>2, <1>3, <1>9 DEF Vacant, EmptyStorage
<1>10. CASE EndSession
  <2>1. \A s \in Saves : saves'[s].pc # "idle" =>
          saves[s].pc # "idle" /\ saves'[s].who = saves[s].who
    BY <1>1, <1>4, <1>10 DEF EndSession
  <2>2. /\ person' \in {person, Nobody}
        /\ ~profile'
        /\ person' = Nobody => fetching' = "no" /\ ~leaving'
    BY <1>10 DEF Vacant, EndSession, Reset
  <2> QED BY <2>1, <2>2 DEF Vacant
<1>11. CASE KillWithPrefs
  <2>1. \A s \in Saves : saves'[s].pc # "idle" =>
          saves[s].pc # "idle" /\ saves'[s].who = saves[s].who
    BY <1>1, <1>4, <1>11 DEF KillWithPrefs
  <2>2. /\ person' \in {person, Nobody}
        /\ ~profile'
        /\ person' = Nobody => fetching' = "no" /\ ~leaving'
    BY <1>11 DEF Vacant, KillWithPrefs, Reset
  <2> QED BY <2>1, <2>2 DEF Vacant
<1>12. CASE OpenProfile BY <1>1, <1>2, <1>3, <1>12 DEF Vacant, OpenProfile
<1>13. CASE CloseProfile
  <2>1. \A s \in Saves : saves'[s].pc # "idle" =>
          saves[s].pc # "idle" /\ saves'[s].who = saves[s].who
    BY <1>1, <1>4, <1>13 DEF CloseProfile
  <2>2. /\ person' \in {person, Nobody}
        /\ ~profile'
        /\ person' = Nobody => fetching' = "no" /\ ~leaving'
    BY <1>13 DEF Vacant, CloseProfile
  <2> QED BY <2>1, <2>2 DEF Vacant
<1>14. CASE Age BY <1>1, <1>2, <1>3, <1>14 DEF Vacant, Age
<1>15. CASE Collect BY <1>1, <1>2, <1>3, <1>15 DEF Vacant, Collect
<1>16. CASE GetUserPreferences BY <1>1, <1>2, <1>3, <1>16 DEF Vacant, GetUserPreferences
<1>17. CASE Fetched BY <1>1, <1>2, <1>3, <1>17 DEF Vacant, Fetched
<1>18. CASE FetchFails BY <1>1, <1>2, <1>3, <1>18 DEF Vacant, FetchFails
<1>19. CASE FallBack BY <1>1, <1>2, <1>3, <1>19 DEF Vacant, FallBack
<1>20. CASE RunRegistration BY <1>1, <1>2, <1>3, <1>20 DEF Vacant, RunRegistration
<1>21. CASE \E s \in Saves : Toggle(s) BY <1>1, <1>2, <1>3, <1>21 DEF Vacant, Toggle
<1>22. CASE \E s \in Saves : UpsertUserPreferences(s)
  BY <1>1, <1>2, <1>3, <1>22 DEF Vacant, UpsertUserPreferences
<1>23. CASE \E s \in Saves : Saved(s) BY <1>1, <1>2, <1>3, <1>23 DEF Vacant, Saved
<1>24. CASE \E s \in Saves : SaveFails(s)
  <2>1. PICK s \in Saves : SaveFails(s) BY <1>24
  <2>2. saves' = [saves EXCEPT ![s] = NoSave]
        \/ saves' = [saves EXCEPT ![s] = [saves[s] EXCEPT !.pc = "late", !.here = FALSE]]
    BY <2>1 DEF SaveFails
  <2>3. \A x \in Saves : saves'[x].pc # "idle" =>
          saves[x].pc # "idle" /\ saves'[x].who = saves[x].who
    BY <1>1, <1>4, <2>1, <2>2 DEF SaveFails
  <2>4. UNCHANGED <<person, profile, fetching, leaving>> /\ cache' \in Setting
    BY <1>3, <2>1 DEF SaveFails
  <2> QED BY <1>2, <2>3, <2>4 DEF Vacant
<1> QED
  BY <1>5, <1>6, <1>7, <1>8, <1>9, <1>10, <1>11, <1>12, <1>13, <1>14, <1>15, <1>16, <1>17,
     <1>18, <1>19, <1>20, <1>21, <1>22, <1>23, <1>24
     DEF PrefNext

LEMMA AgreedKeeps ==
  ASSUME PrefTypeOK, Vacant, Agreed, PrefNext, quiet'
  PROVE  Agreed'
<1> USE UsersAssumption DEF storeVarsOfPrefs, queryVars, Mishap,
        SetNotificationPreferences, SetQueryData, StartRead, EndRead, Reading
<1>1. NoSave.pc = "idle" /\ NoRead.who = Nobody BY DEF NoSave, NoRead
<1>2. /\ Default \in Setting /\ \A v \in Setting : Other(v) \in Setting /\ Other(v) # v
      /\ Unset \notin Setting /\ "no" \notin Setting /\ "sent" \notin Setting
      /\ Effects = {"hydrate", "prime", "fallback"}
  BY DEF Default, Setting, Other, Unset, Effects
<1>3. /\ \A e \in Effects : reads[e].value \in Setting
      /\ \A s \in Saves : saves[s].want \in Setting /\ saves[s].before \in Setting
  BY DEF Save, PrefTypeOK
<1>4. \A u \in Users \cup {Nobody} : ReadFor(u).who = u /\ ReadFor(u).value = Stored(u)
  BY DEF ReadFor
<1>0. \A s \in Saves : /\ [saves[s] EXCEPT !.here = FALSE].pc = saves[s].pc
                        /\ [saves[s] EXCEPT !.here = FALSE].who = saves[s].who
                        /\ [saves[s] EXCEPT !.here = FALSE].want = saves[s].want
                        /\ [saves[s] EXCEPT !.here = FALSE].before = saves[s].before
  BY DEF Save, PrefTypeOK
<1>5. CASE \E u \in Users : SignInWithPrefs(u)
  <2>1. PICK u \in Users : SignInWithPrefs(u) BY <1>5
  <2>2. ChangesAreTrue'
    BY <1>1, <1>2, <2>1
       DEF Agreed, SignInWithPrefs, ChangesAreTrue, ChangeIsTrue, PrefTypeOK, AtRestNow,
          ChangesAlone, Changing, NothingRead, Vacant, Persisted, Stored
  <2>3. ChangesAlone'
    BY <2>1 DEF Agreed, SignInWithPrefs, ChangesAlone, Changing, NothingRead
  <2>4. AtRestNow'
    BY <2>1 DEF Agreed, SignInWithPrefs, AtRestNow
  <2>5. ReadsAreTrue'
    BY <1>1, <1>2, <1>3, <1>4, <2>1
       DEF Agreed, SignInWithPrefs, ReadsAreTrue, PrefTypeOK, AtRestNow, ChangesAlone, Changing,
          NothingRead, Vacant, ChangesAreTrue, CopiesAreTrue, QueryIsTrue, ChangeIsTrue, SaveOf,
          Persisted, Stored
  <2>6. CopiesAreTrue'
    BY <1>1, <1>2, <2>1
       DEF Agreed, SignInWithPrefs, CopiesAreTrue, SaveOf, Changing, PrefTypeOK, AtRestNow,
          ChangesAlone, NothingRead, Vacant, Persisted, Stored
  <2>7. QueryIsTrue'
    BY <1>1, <1>2, <2>1
       DEF Agreed, SignInWithPrefs, QueryIsTrue, PrefTypeOK, AtRestNow, ChangesAlone, Changing,
          NothingRead, Vacant, Persisted, Stored
  <2> QED BY <2>2, <2>3, <2>4, <2>5, <2>6, <2>7 DEF Agreed
<1>6. CASE \E u \in Users : ChangedElsewhere(u)
  <2>1. PICK u \in Users : ChangedElsewhere(u) BY <1>6
  <2>0. ~SaveOf(u) /\ ~(u = person /\ fetching # "no") BY <2>1, Zenon DEF ChangedElsewhere
  <2>2. ChangesAreTrue'
    BY <1>1, <1>2, <2>1, <2>0
       DEF Agreed, ChangedElsewhere, ChangesAreTrue, ChangeIsTrue, PrefTypeOK, AtRestNow,
          ChangesAlone, Changing, NothingRead, Vacant, ReadsAreTrue, CopiesAreTrue, QueryIsTrue,
          SaveOf, Persisted, Stored
  <2>3. ChangesAlone'
    BY <2>1, <2>0 DEF Agreed, ChangedElsewhere, ChangesAlone, Changing, NothingRead
  <2>4. AtRestNow'
    BY <2>1, <2>0 DEF Agreed, ChangedElsewhere, AtRestNow
  <2>5. ReadsAreTrue'
    BY <2>1, <2>0 DEF Agreed, ChangedElsewhere, ReadsAreTrue
  <2>6. CopiesAreTrue'
    BY <2>1, <2>0 DEF Agreed, ChangedElsewhere, CopiesAreTrue, SaveOf, Changing
  <2>7. QueryIsTrue'
    BY <1>1, <1>2, <2>1, <2>0 DEF Agreed, ChangedElsewhere, QueryIsTrue
  <2> QED BY <2>2, <2>3, <2>4, <2>5, <2>6, <2>7 DEF Agreed
<1>7. CASE Hydrate
  <2>1. Hydrate BY <1>7
  <2>2. ChangesAreTrue'
    BY <2>1 DEF Agreed, Hydrate, ChangesAreTrue, ChangeIsTrue
  <2>3. ChangesAlone'
    BY <1>1, <1>2, <2>1 DEF Agreed, Hydrate, ChangesAlone, Changing, NothingRead
  <2>4. AtRestNow'
    BY <2>1 DEF Agreed, Hydrate, AtRestNow
  <2>5. ReadsAreTrue'
    BY <1>1, <1>2, <1>3, <1>4, <2>1
       DEF Agreed, Hydrate, ReadsAreTrue, PrefTypeOK, AtRestNow, ChangesAlone, Changing,
          NothingRead, Vacant, ChangesAreTrue, CopiesAreTrue, QueryIsTrue, ChangeIsTrue, SaveOf,
          Persisted, Stored
  <2>6. CopiesAreTrue'
    BY <1>1, <1>2, <2>1
       DEF Agreed, Hydrate, CopiesAreTrue, SaveOf, Changing, PrefTypeOK, AtRestNow, ChangesAlone,
          NothingRead, Vacant, ChangesAreTrue, ReadsAreTrue, QueryIsTrue, ChangeIsTrue,
          Persisted, Stored
  <2>7. QueryIsTrue'
    BY <1>1, <1>2, <2>1
       DEF Agreed, Hydrate, QueryIsTrue, PrefTypeOK, AtRestNow, ChangesAlone, Changing,
          NothingRead, Vacant, ChangesAreTrue, ReadsAreTrue, CopiesAreTrue, ChangeIsTrue, SaveOf,
          Persisted, Stored
  <2> QED BY <2>2, <2>3, <2>4, <2>5, <2>6, <2>7 DEF Agreed
<1>8. CASE PrimeQueryCache
  <2>1. PrimeQueryCache BY <1>8
  <2>2. ChangesAreTrue'
    BY <1>1, <1>2, <2>1
       DEF Agreed, PrimeQueryCache, ChangesAreTrue, ChangeIsTrue, PrefTypeOK, AtRestNow,
          ChangesAlone, Changing, NothingRead, Vacant, Persisted, Stored
  <2>3. ChangesAlone'
    BY <2>1 DEF Agreed, PrimeQueryCache, ChangesAlone, Changing, NothingRead
  <2>4. AtRestNow'
    BY <2>1 DEF Agreed, PrimeQueryCache, AtRestNow
  <2>5. ReadsAreTrue'
    BY <1>1, <1>2, <2>1 DEF Agreed, PrimeQueryCache, ReadsAreTrue, PrefTypeOK, Persisted, Stored
  <2>6. CopiesAreTrue'
    BY <1>1, <1>2, <2>1
       DEF Agreed, PrimeQueryCache, CopiesAreTrue, SaveOf, Changing, PrefTypeOK, AtRestNow,
          ChangesAlone, NothingRead, Vacant, ChangesAreTrue, ReadsAreTrue, QueryIsTrue,
          ChangeIsTrue, Persisted, Stored
  <2>7. QueryIsTrue'
    BY <1>1, <1>2, <2>1
       DEF Agreed, PrimeQueryCache, QueryIsTrue, PrefTypeOK, AtRestNow, ChangesAlone, Changing,
          NothingRead, Vacant, ChangesAreTrue, ReadsAreTrue, CopiesAreTrue, ChangeIsTrue, SaveOf,
          Persisted, Stored
  <2> QED BY <2>2, <2>3, <2>4, <2>5, <2>6, <2>7 DEF Agreed
<1>9. CASE EmptyStorage
  <2>1. EmptyStorage BY <1>9
  <2>2. ChangesAreTrue'
    BY <2>1 DEF Agreed, EmptyStorage, ChangesAreTrue, ChangeIsTrue
  <2>3. ChangesAlone'
    BY <2>1 DEF Agreed, EmptyStorage, ChangesAlone, Changing, NothingRead
  <2>4. AtRestNow'
    BY <2>1 DEF Agreed, EmptyStorage, AtRestNow
  <2>5. ReadsAreTrue'
    BY <2>1 DEF Agreed, EmptyStorage, ReadsAreTrue
  <2>6. CopiesAreTrue'
    BY <2>1 DEF Agreed, EmptyStorage, CopiesAreTrue, SaveOf, Changing
  <2>7. QueryIsTrue'
    BY <2>1 DEF Agreed, EmptyStorage, QueryIsTrue
  <2> QED BY <2>2, <2>3, <2>4, <2>5, <2>6, <2>7 DEF Agreed
<1>10. CASE EndSession
  <2>1. EndSession BY <1>10
  <2>0. \A s \in Saves : /\ saves'[s].pc = saves[s].pc /\ saves'[s].who = saves[s].who
                        /\ saves'[s].want = saves[s].want /\ saves'[s].before = saves[s].before
    BY <1>0, <2>1 DEF EndSession, PrefTypeOK
  <2>2. ChangesAreTrue'
    BY <1>1, <1>2, <2>1, <2>0
       DEF Agreed, EndSession, Reset, ChangesAreTrue, ChangeIsTrue, PrefTypeOK, AtRestNow,
          ChangesAlone, Changing, NothingRead, Vacant, Persisted, Stored
  <2>3. ChangesAlone'
    BY <2>1, <2>0 DEF Agreed, EndSession, Reset, ChangesAlone, Changing, NothingRead
  <2>4. AtRestNow'
    BY <1>1, <1>2, <2>1, <2>0
       DEF Agreed, EndSession, Reset, AtRestNow, PrefTypeOK, Persisted, Stored
  <2>5. ReadsAreTrue'
    BY <1>1, <1>2, <2>1, <2>0
       DEF Agreed, EndSession, Reset, ReadsAreTrue, PrefTypeOK, Persisted, Stored
  <2>6. CopiesAreTrue'
    BY <2>1, <2>0 DEF Agreed, EndSession, Reset, CopiesAreTrue, SaveOf, Changing
  <2>7. QueryIsTrue'
    BY <1>1, <1>2, <2>1, <2>0 DEF Agreed, EndSession, Reset, QueryIsTrue
  <2> QED BY <2>2, <2>3, <2>4, <2>5, <2>6, <2>7 DEF Agreed
<1>11. CASE KillWithPrefs
  <2>1. KillWithPrefs BY <1>11
  <2>2. ChangesAreTrue'
    BY <1>1, <1>2, <2>1
       DEF Agreed, KillWithPrefs, Reset, ChangesAreTrue, ChangeIsTrue, PrefTypeOK, AtRestNow,
          ChangesAlone, Changing, NothingRead, Vacant, Persisted, Stored
  <2>3. ChangesAlone'
    BY <1>1, <1>2, <2>1 DEF Agreed, KillWithPrefs, Reset, ChangesAlone, Changing, NothingRead
  <2>4. AtRestNow'
    BY <1>1, <1>2, <2>1 DEF Agreed, KillWithPrefs, Reset, AtRestNow
  <2>5. ReadsAreTrue'
    BY <1>1, <1>2, <2>1 DEF Agreed, KillWithPrefs, Reset, ReadsAreTrue
  <2>6. CopiesAreTrue'
    BY <2>1 DEF Agreed, KillWithPrefs, Reset, CopiesAreTrue, SaveOf, Changing
  <2>7. QueryIsTrue'
    BY <1>1, <1>2, <2>1 DEF Agreed, KillWithPrefs, Reset, QueryIsTrue
  <2> QED BY <2>2, <2>3, <2>4, <2>5, <2>6, <2>7 DEF Agreed
<1>12. CASE OpenProfile
  <2>1. OpenProfile BY <1>12
  <2>2. ChangesAreTrue'
    BY <2>1 DEF Agreed, OpenProfile, ChangesAreTrue, ChangeIsTrue
  <2>3. ChangesAlone'
    BY <2>1 DEF Agreed, OpenProfile, ChangesAlone, Changing, NothingRead
  <2>4. AtRestNow'
    BY <2>1 DEF Agreed, OpenProfile, AtRestNow
  <2>5. ReadsAreTrue'
    BY <1>1, <1>2, <1>3, <1>4, <2>1
       DEF Agreed, OpenProfile, ReadsAreTrue, PrefTypeOK, AtRestNow, ChangesAlone, Changing,
          NothingRead, Vacant, ChangesAreTrue, CopiesAreTrue, QueryIsTrue, ChangeIsTrue, SaveOf,
          Persisted, Stored
  <2>6. CopiesAreTrue'
    BY <1>1, <1>2, <2>1
       DEF Agreed, OpenProfile, CopiesAreTrue, SaveOf, Changing, PrefTypeOK, AtRestNow,
          ChangesAlone, NothingRead, Vacant, ChangesAreTrue, ReadsAreTrue, QueryIsTrue,
          ChangeIsTrue, Persisted, Stored
  <2>7. QueryIsTrue'
    BY <1>1, <1>2, <2>1 DEF Agreed, OpenProfile, QueryIsTrue, PrefTypeOK, Persisted, Stored
  <2> QED BY <2>2, <2>3, <2>4, <2>5, <2>6, <2>7 DEF Agreed
<1>13. CASE CloseProfile
  <2>1. CloseProfile BY <1>13
  <2>0. \A s \in Saves : /\ saves'[s].pc = saves[s].pc /\ saves'[s].who = saves[s].who
                        /\ saves'[s].want = saves[s].want /\ saves'[s].before = saves[s].before
    BY <1>0, <2>1 DEF CloseProfile, PrefTypeOK
  <2>2. ChangesAreTrue'
    BY <2>1, <2>0 DEF Agreed, CloseProfile, ChangesAreTrue, ChangeIsTrue
  <2>3. ChangesAlone'
    BY <2>1, <2>0 DEF Agreed, CloseProfile, ChangesAlone, Changing, NothingRead
  <2>4. AtRestNow'
    BY <2>1, <2>0 DEF Agreed, CloseProfile, AtRestNow
  <2>5. ReadsAreTrue'
    BY <2>1, <2>0 DEF Agreed, CloseProfile, ReadsAreTrue
  <2>6. CopiesAreTrue'
    <3>1. (\A u \in told : SaveOf(u)' <=> SaveOf(u)) /\ (Changing' <=> Changing)
      BY <2>0 DEF SaveOf, Changing
    <3>2. UNCHANGED <<wish, person, hydrated, shown, cache, kept, told>>
      BY <2>1 DEF CloseProfile
    <3> QED BY <3>1, <3>2 DEF Agreed, CopiesAreTrue
  <2>7. QueryIsTrue'
    BY <2>1, <2>0 DEF Agreed, CloseProfile, QueryIsTrue
  <2> QED BY <2>2, <2>3, <2>4, <2>5, <2>6, <2>7 DEF Agreed
<1>14. CASE Age
  <2>1. Age BY <1>14
  <2>2. ChangesAreTrue'
    BY <2>1 DEF Agreed, Age, ChangesAreTrue, ChangeIsTrue
  <2>3. ChangesAlone'
    BY <2>1 DEF Agreed, Age, ChangesAlone, Changing, NothingRead
  <2>4. AtRestNow'
    BY <2>1 DEF Agreed, Age, AtRestNow
  <2>5. ReadsAreTrue'
    BY <2>1 DEF Agreed, Age, ReadsAreTrue
  <2>6. CopiesAreTrue'
    BY <2>1 DEF Agreed, Age, CopiesAreTrue, SaveOf, Changing
  <2>7. QueryIsTrue'
    BY <2>1 DEF Agreed, Age, QueryIsTrue
  <2> QED BY <2>2, <2>3, <2>4, <2>5, <2>6, <2>7 DEF Agreed
<1>15. CASE Collect
  <2>1. Collect BY <1>15
  <2>2. ChangesAreTrue'
    BY <1>1, <1>2, <2>1
       DEF Agreed, Collect, ChangesAreTrue, ChangeIsTrue, PrefTypeOK, AtRestNow, ChangesAlone,
          Changing, NothingRead, Vacant, Persisted, Stored
  <2>3. ChangesAlone'
    BY <2>1 DEF Agreed, Collect, ChangesAlone, Changing, NothingRead
  <2>4. AtRestNow'
    BY <2>1 DEF Agreed, Collect, AtRestNow
  <2>5. ReadsAreTrue'
    BY <1>1, <1>2, <2>1
       DEF Agreed, Collect, ReadsAreTrue, PrefTypeOK, AtRestNow, ChangesAlone, Changing,
          NothingRead, Vacant, Persisted, Stored
  <2>6. CopiesAreTrue'
    BY <2>1 DEF Agreed, Collect, CopiesAreTrue, SaveOf, Changing
  <2>7. QueryIsTrue'
    BY <2>1 DEF Agreed, Collect, QueryIsTrue
  <2> QED BY <2>2, <2>3, <2>4, <2>5, <2>6, <2>7 DEF Agreed
<1>16. CASE GetUserPreferences
  <2>1. GetUserPreferences BY <1>16
  <2>2. ChangesAreTrue'
    BY <2>1 DEF Agreed, GetUserPreferences, ChangesAreTrue, ChangeIsTrue
  <2>3. ChangesAlone'
    BY <2>1 DEF Agreed, GetUserPreferences, ChangesAlone, Changing, NothingRead
  <2>4. AtRestNow'
    BY <2>1 DEF Agreed, GetUserPreferences, AtRestNow
  <2>5. ReadsAreTrue'
    BY <2>1 DEF Agreed, GetUserPreferences, ReadsAreTrue
  <2>6. CopiesAreTrue'
    BY <2>1 DEF Agreed, GetUserPreferences, CopiesAreTrue, SaveOf, Changing
  <2>7. QueryIsTrue'
    BY <2>1 DEF Agreed, GetUserPreferences, QueryIsTrue
  <2> QED BY <2>2, <2>3, <2>4, <2>5, <2>6, <2>7 DEF Agreed
<1>17. CASE Fetched
  <2>1. Fetched BY <1>17
  <2>2. ChangesAreTrue'
    BY <1>1, <1>2, <2>1
       DEF Agreed, Fetched, ChangesAreTrue, ChangeIsTrue, PrefTypeOK, AtRestNow, ChangesAlone,
          Changing, NothingRead, Vacant, Persisted, Stored
  <2>3. ChangesAlone'
    BY <2>1 DEF Agreed, Fetched, ChangesAlone, Changing, NothingRead
  <2>4. AtRestNow'
    BY <1>1, <1>2, <2>1
       DEF Agreed, Fetched, AtRestNow, PrefTypeOK, ChangesAlone, Changing, NothingRead, Vacant,
          Persisted, Stored
  <2>5. ReadsAreTrue'
    BY <1>1, <1>2, <2>1
       DEF Agreed, Fetched, ReadsAreTrue, PrefTypeOK, AtRestNow, ChangesAlone, Changing,
          NothingRead, Vacant, Persisted, Stored
  <2>6. CopiesAreTrue'
    BY <1>1, <1>2, <2>1
       DEF Agreed, Fetched, CopiesAreTrue, SaveOf, Changing, PrefTypeOK, AtRestNow, ChangesAlone,
          NothingRead, Vacant, ChangesAreTrue, ReadsAreTrue, QueryIsTrue, ChangeIsTrue,
          Persisted, Stored
  <2>7. QueryIsTrue'
    BY <1>1, <1>2, <2>1
       DEF Agreed, Fetched, QueryIsTrue, PrefTypeOK, AtRestNow, ChangesAlone, Changing,
          NothingRead, Vacant, Persisted, Stored
  <2> QED BY <2>2, <2>3, <2>4, <2>5, <2>6, <2>7 DEF Agreed
<1>18. CASE FetchFails
  <2>1. FetchFails BY <1>18
  <2>2. ChangesAreTrue'
    BY <2>1 DEF Agreed, FetchFails, ChangesAreTrue, ChangeIsTrue
  <2>3. ChangesAlone'
    BY <2>1 DEF Agreed, FetchFails, ChangesAlone, Changing, NothingRead
  <2>4. AtRestNow'
    BY <1>1, <1>2, <2>1
       DEF Agreed, FetchFails, AtRestNow, PrefTypeOK, ChangesAlone, Changing, NothingRead,
          Vacant, Persisted, Stored
  <2>5. ReadsAreTrue'
    BY <1>1, <1>2, <1>3, <1>4, <2>1
       DEF Agreed, FetchFails, ReadsAreTrue, PrefTypeOK, AtRestNow, ChangesAlone, Changing,
          NothingRead, Vacant, ChangesAreTrue, CopiesAreTrue, QueryIsTrue, ChangeIsTrue, SaveOf,
          Persisted, Stored
  <2>6. CopiesAreTrue'
    BY <2>1 DEF Agreed, FetchFails, CopiesAreTrue, SaveOf, Changing
  <2>7. QueryIsTrue'
    BY <1>1, <1>2, <2>1 DEF Agreed, FetchFails, QueryIsTrue
  <2> QED BY <2>2, <2>3, <2>4, <2>5, <2>6, <2>7 DEF Agreed
<1>19. CASE FallBack
  <2>1. FallBack BY <1>19
  <2>2. ChangesAreTrue'
    BY <1>1, <1>2, <2>1
       DEF Agreed, FallBack, ChangesAreTrue, ChangeIsTrue, PrefTypeOK, AtRestNow, ChangesAlone,
          Changing, NothingRead, Vacant, Persisted, Stored
  <2>3. ChangesAlone'
    BY <2>1 DEF Agreed, FallBack, ChangesAlone, Changing, NothingRead
  <2>4. AtRestNow'
    BY <2>1 DEF Agreed, FallBack, AtRestNow
  <2>5. ReadsAreTrue'
    BY <1>1, <1>2, <2>1 DEF Agreed, FallBack, ReadsAreTrue, PrefTypeOK, Persisted, Stored
  <2>6. CopiesAreTrue'
    BY <1>1, <1>2, <2>1
       DEF Agreed, FallBack, CopiesAreTrue, SaveOf, Changing, PrefTypeOK, AtRestNow,
          ChangesAlone, NothingRead, Vacant, ChangesAreTrue, ReadsAreTrue, QueryIsTrue,
          ChangeIsTrue, Persisted, Stored
  <2>7. QueryIsTrue'
    BY <1>1, <1>2, <2>1
       DEF Agreed, FallBack, QueryIsTrue, PrefTypeOK, AtRestNow, ChangesAlone, Changing,
          NothingRead, Vacant, ChangesAreTrue, ReadsAreTrue, CopiesAreTrue, ChangeIsTrue, SaveOf,
          Persisted, Stored
  <2> QED BY <2>2, <2>3, <2>4, <2>5, <2>6, <2>7 DEF Agreed
<1>20. CASE RunRegistration
  <2>1. RunRegistration BY <1>20
  <2>2. ChangesAreTrue'
    BY <2>1 DEF Agreed, RunRegistration, ChangesAreTrue, ChangeIsTrue
  <2>3. ChangesAlone'
    BY <2>1 DEF Agreed, RunRegistration, ChangesAlone, Changing, NothingRead
  <2>4. AtRestNow'
    BY <2>1 DEF Agreed, RunRegistration, AtRestNow
  <2>5. ReadsAreTrue'
    BY <2>1 DEF Agreed, RunRegistration, ReadsAreTrue
  <2>6. CopiesAreTrue'
    <3>1. UNCHANGED <<wish, person, kept, saves, told, cache>> /\ hydrated
      BY <2>1 DEF RunRegistration
    <3>2. shown' = IF cache = Unset THEN shown ELSE cache
      BY <2>1 DEF RunRegistration
    <3>3. (\A u \in told : SaveOf(u)' <=> SaveOf(u)) /\ (Changing' <=> Changing)
      BY <3>1 DEF SaveOf, Changing
    <3> QED BY <3>1, <3>2, <3>3 DEF Agreed, CopiesAreTrue
  <2>7. QueryIsTrue'
    BY <2>1 DEF Agreed, RunRegistration, QueryIsTrue
  <2> QED BY <2>2, <2>3, <2>4, <2>5, <2>6, <2>7 DEF Agreed
<1>21. CASE \E s \in Saves : Toggle(s)
  <2>1. PICK s \in Saves : Toggle(s) BY <1>21
  <2>2. ChangesAreTrue'
    BY <1>1, <1>2, <2>1
       DEF Agreed, Toggle, ChangesAreTrue, ChangeIsTrue, PrefTypeOK, AtRestNow, ChangesAlone,
          Changing, NothingRead, Vacant, ReadsAreTrue, CopiesAreTrue, QueryIsTrue, SaveOf,
          Persisted, Stored
  <2>3. ChangesAlone'
    BY <1>1, <1>2, <2>1
       DEF Agreed, Toggle, ChangesAlone, Changing, NothingRead, PrefTypeOK, AtRestNow, Vacant,
          Persisted, Stored
  <2>4. AtRestNow'
    BY <1>1, <1>2, <2>1
       DEF Agreed, Toggle, AtRestNow, PrefTypeOK, ChangesAlone, Changing, NothingRead, Vacant,
          Persisted, Stored
  <2>5. ReadsAreTrue'
    BY <1>1, <1>2, <2>1
       DEF Agreed, Toggle, ReadsAreTrue, PrefTypeOK, AtRestNow, ChangesAlone, Changing,
          NothingRead, Vacant, Persisted, Stored
  <2>6. CopiesAreTrue'
    BY <1>1, <1>2, <2>1
       DEF Agreed, Toggle, CopiesAreTrue, SaveOf, Changing, PrefTypeOK, Persisted, Stored
  <2>7. QueryIsTrue'
    BY <1>1, <1>2, <2>1
       DEF Agreed, Toggle, QueryIsTrue, PrefTypeOK, AtRestNow, ChangesAlone, Changing,
          NothingRead, Vacant, Persisted, Stored
  <2> QED BY <2>2, <2>3, <2>4, <2>5, <2>6, <2>7 DEF Agreed
<1>22. CASE \E s \in Saves : UpsertUserPreferences(s)
  <2>1. PICK s \in Saves : UpsertUserPreferences(s) BY <1>22
  <2>2. ChangesAreTrue'
    BY <1>1, <1>2, <2>1
       DEF Agreed, UpsertUserPreferences, ChangesAreTrue, ChangeIsTrue, PrefTypeOK, AtRestNow,
          ChangesAlone, Changing, NothingRead, Vacant, Persisted, Stored
  <2>3. ChangesAlone'
    BY <2>1 DEF Agreed, UpsertUserPreferences, ChangesAlone, Changing, NothingRead
  <2>4. AtRestNow'
    BY <2>1 DEF Agreed, UpsertUserPreferences, AtRestNow
  <2>5. ReadsAreTrue'
    BY <1>1, <1>2, <2>1
       DEF Agreed, UpsertUserPreferences, ReadsAreTrue, PrefTypeOK, AtRestNow, ChangesAlone,
          Changing, NothingRead, Vacant, Persisted, Stored
  <2>6. CopiesAreTrue'
    BY <1>1, <1>2, <2>1
       DEF Agreed, UpsertUserPreferences, CopiesAreTrue, SaveOf, Changing, PrefTypeOK, AtRestNow,
          ChangesAlone, NothingRead, Vacant, ChangesAreTrue, ReadsAreTrue, QueryIsTrue,
          ChangeIsTrue, Persisted, Stored
  <2>7. QueryIsTrue'
    BY <1>1, <1>2, <2>1
       DEF Agreed, UpsertUserPreferences, QueryIsTrue, PrefTypeOK, AtRestNow, ChangesAlone,
          Changing, NothingRead, Vacant, Persisted, Stored
  <2> QED BY <2>2, <2>3, <2>4, <2>5, <2>6, <2>7 DEF Agreed
<1>23. CASE \E s \in Saves : Saved(s)
  <2>1. PICK s \in Saves : Saved(s) BY <1>23
  <2>2. ChangesAreTrue'
    BY <1>1, <1>2, <2>1 DEF Agreed, Saved, ChangesAreTrue, ChangeIsTrue
  <2>3. ChangesAlone'
    BY <2>1 DEF Agreed, Saved, ChangesAlone, Changing, NothingRead
  <2>4. AtRestNow'
    BY <1>1, <1>2, <2>1
       DEF Agreed, Saved, AtRestNow, PrefTypeOK, ChangesAlone, Changing, NothingRead, Vacant,
          Persisted, Stored
  <2>5. ReadsAreTrue'
    BY <1>1, <1>2, <2>1
       DEF Agreed, Saved, ReadsAreTrue, PrefTypeOK, AtRestNow, ChangesAlone, Changing,
          NothingRead, Vacant, Persisted, Stored
  <2>6. CopiesAreTrue'
    BY <1>1, <1>2, <2>1
       DEF Agreed, Saved, CopiesAreTrue, SaveOf, Changing, PrefTypeOK, AtRestNow, ChangesAlone,
          NothingRead, Vacant, ChangesAreTrue, ReadsAreTrue, QueryIsTrue, ChangeIsTrue,
          Persisted, Stored
  <2>7. QueryIsTrue'
    BY <1>1, <1>2, <2>1
       DEF Agreed, Saved, QueryIsTrue, PrefTypeOK, AtRestNow, ChangesAlone, Changing,
          NothingRead, Vacant, Persisted, Stored
  <2> QED BY <2>2, <2>3, <2>4, <2>5, <2>6, <2>7 DEF Agreed
<1>24. CASE \E s \in Saves : SaveFails(s)
  <2>1. PICK s \in Saves : SaveFails(s) BY <1>24
  <2>0. /\ saves[s].pc = "sent"
        /\ saves[s].who = person
        /\ profile
        /\ saves' = [saves EXCEPT ![s] = NoSave]
    <3>1. ~(\/ saves[s].pc = "applied"
            \/ saves'[s].pc = "late"
            \/ ~profile
            \/ saves[s].who # person)
      BY <2>1, Zenon DEF SaveFails
    <3>2. [saves EXCEPT ![s].pc = "late", ![s].here = FALSE][s].pc = "late"
      BY DEF PrefTypeOK, Save
    <3> QED BY <2>1, <3>1, <3>2 DEF SaveFails
  <2>2. ChangesAreTrue'
    BY <1>1, <1>2, <2>1, <2>0
       DEF Agreed, SaveFails, ChangesAreTrue, ChangeIsTrue, PrefTypeOK, Persisted, Stored
  <2>3. ChangesAlone'
    BY <2>1, <2>0 DEF Agreed, SaveFails, ChangesAlone, Changing, NothingRead
  <2>4. AtRestNow'
    BY <1>1, <1>2, <2>1, <2>0
       DEF Agreed, SaveFails, AtRestNow, PrefTypeOK, ChangesAlone, Changing, NothingRead, Vacant,
          Persisted, Stored
  <2>5. ReadsAreTrue'
    BY <1>1, <1>2, <2>1, <2>0
       DEF Agreed, SaveFails, ReadsAreTrue, PrefTypeOK, AtRestNow, ChangesAlone, Changing,
          NothingRead, Vacant, Persisted, Stored
  <2>6. CopiesAreTrue'
    BY <1>1, <1>2, <2>1, <2>0
       DEF Agreed, SaveFails, CopiesAreTrue, SaveOf, Changing, PrefTypeOK, AtRestNow,
          ChangesAlone, NothingRead, Vacant, ChangesAreTrue, ReadsAreTrue, QueryIsTrue,
          ChangeIsTrue, Persisted, Stored
  <2>7. QueryIsTrue'
    BY <1>1, <1>2, <2>1, <2>0
       DEF Agreed, SaveFails, QueryIsTrue, PrefTypeOK, AtRestNow, ChangesAlone, Changing,
          NothingRead, Vacant, Persisted, Stored
  <2> QED BY <2>2, <2>3, <2>4, <2>5, <2>6, <2>7 DEF Agreed
<1> QED
  BY <1>5, <1>6, <1>7, <1>8, <1>9, <1>10, <1>11, <1>12, <1>13, <1>14, <1>15, <1>16, <1>17,
     <1>18, <1>19, <1>20, <1>21, <1>22, <1>23, <1>24
     DEF PrefNext

\* Once the copies may be at odds they stay so.
LEMMA QuietBefore == ASSUME PrefNext, quiet' PROVE quiet
<1> USE DEF Mishap
<1>1. CASE \E u \in Users : SignInWithPrefs(u) \/ ChangedElsewhere(u)
  BY <1>1, Zenon DEF SignInWithPrefs, ChangedElsewhere
<1>2. CASE Hydrate \/ PrimeQueryCache \/ EmptyStorage \/ EndSession \/ KillWithPrefs
  BY <1>2, Zenon DEF Hydrate, PrimeQueryCache, EmptyStorage, EndSession, KillWithPrefs
<1>3. CASE OpenProfile \/ CloseProfile \/ Age \/ Collect
  <2>1. CASE OpenProfile BY <2>1, Zenon DEF OpenProfile
  <2>2. CASE CloseProfile \/ Age \/ Collect BY <2>2, Zenon DEF CloseProfile, Age, Collect
  <2> QED BY <1>3, <2>1, <2>2
<1>4. CASE GetUserPreferences \/ Fetched \/ FetchFails \/ FallBack
  BY <1>4, Zenon DEF GetUserPreferences, Fetched, FetchFails, FallBack
<1>5. CASE \E s \in Saves : Toggle(s) \/ UpsertUserPreferences(s) \/ Saved(s) \/ SaveFails(s)
  BY <1>5, Zenon DEF Toggle, UpsertUserPreferences, Saved, SaveFails
<1>6. CASE RunRegistration BY <1>6 DEF RunRegistration
<1> QED BY <1>1, <1>2, <1>3, <1>4, <1>5, <1>6 DEF PrefNext

LEMMA PrefKeeps == PrefInv /\ PrefNext => PrefInv'
BY PrefTyped, VacantKeeps, QuietBefore, AgreedKeeps DEF PrefInv

LEMMA PrefFrame ==
  ASSUME PrefInv, UNCHANGED prefVars
  PROVE  PrefInv'
<1> USE DEF prefVars, Reading, Changing, SaveOf, NothingRead
<1>1. PrefTypeOK' /\ Vacant' BY DEF PrefInv, PrefTypeOK, Vacant
<1>2. ASSUME quiet PROVE Agreed'
  <2>1. ChangesAreTrue' /\ ChangesAlone' /\ AtRestNow'
    BY <1>2 DEF PrefInv, Agreed, ChangesAreTrue, ChangeIsTrue, ChangesAlone, AtRestNow
  <2>2. ReadsAreTrue' BY <1>2 DEF PrefInv, Agreed, ReadsAreTrue
  <2>3. CopiesAreTrue' /\ QueryIsTrue'
    BY <1>2 DEF PrefInv, Agreed, CopiesAreTrue, QueryIsTrue
  <2> QED BY <2>1, <2>2, <2>3 DEF Agreed
<1> QED BY <1>1, <1>2 DEF PrefInv

-----------------------------------------------------------------------------
(* The four parts together *)

MobileInv ==
    /\ ServerTypeOK
    /\ MobileTypeOK
    /\ Whole
    /\ Known
    /\ OneSessionKept
    /\ calm => Calm
    /\ ~torn => StoreIsWhole

LEMMA MobileStarts == ServerInit /\ MobileInit => MobileInv
<1> SUFFICES ASSUME ServerInit, MobileInit PROVE MobileInv OBVIOUS
<1> USE DEF MobileInit
<1>1. ServerTypeOK BY DEF ServerInit, ServerTypeOK
<1>2. \A c \in Calls : calls[c] = Idle OBVIOUS
<1>3. MobileTypeOK
  <2>1. Idle \in Call BY CallForms
  <2>2. NoPair \in Tokens BY DEF Tokens
  <2> QED BY <2>1, <2>2 DEF MobileTypeOK
<1>4. \A c \in Calls : /\ calls[c].pc = "idle" /\ calls[c].kind = "api"
                       /\ calls[c].token = NoPair /\ calls[c].pair = NoPair
  BY <1>2, CallForms
<1> HIDE DEF MobileInit
<1>5. /\ user = Nobody /\ accessToken = NoPair /\ refreshToken = NoPair
      /\ disk.access = NoPair /\ disk.refresh = NoPair /\ ~isHydrated /\ torn = FALSE
  BY DEF MobileInit
<1>6. Whole BY <1>4, <1>5 DEF Whole, CallIsWhole, Given, StoringPcs, Wiped, At
<1>7. Known BY <1>4, <1>5 DEF Known, IsIssued, ServerInit
<1>8. OneSessionKept
  <2>1. LoginAlone BY <1>4 DEF LoginAlone
  <2>2. Belong(Nobody) BY <1>4, <1>5 DEF Belong, IsOf
  <2> QED BY <2>1, <2>2 DEF OneSessionKept
<1>9. Calm
  <2>1. \A c \in Calls : CallIsCalm(c) BY <1>4 DEF CallIsCalm, Given, StoringPcs, Wiped
  <2> QED BY <1>4, <1>5, <2>1 DEF Calm, StoringPcs, Wiped
<1>10. StoreIsWhole BY <1>4, <1>5 DEF StoreIsWhole, StoringPcs, Wiped
<1> QED BY <1>1, <1>3, <1>6, <1>7, <1>8, <1>9, <1>10 DEF MobileInv

LEMMA MobileKeeps == MobileInv /\ MobileNext => MobileInv'
<1> SUFFICES ASSUME MobileInv, MobileNext PROVE MobileInv' OBVIOUS
<1>1. MobileStep /\ torn' \in BOOLEAN BY Zenon DEF MobileNext
<1>2. ServerTypeOK' /\ MobileTypeOK' /\ Whole' BY <1>1, MobileTyped, WholeKeeps DEF MobileInv
<1>3. Known' /\ OneSessionKept' /\ (calm' => Calm')
  BY <1>1, KnownKeeps, OneSessionStays, CalmKeeps DEF MobileInv
<1>4. ~torn' => StoreIsWhole' BY StoreKeeps DEF MobileInv
<1> QED BY <1>2, <1>3, <1>4 DEF MobileInv

LEMMA MobileFrame ==
  ASSUME MobileInv, UNCHANGED <<serverVars, mobileVars>>
  PROVE  MobileInv'
<1> USE DEF serverVars, mobileVars
<1>1. ServerTypeOK' /\ MobileTypeOK' BY DEF MobileInv, ServerTypeOK, MobileTypeOK
<1>2. Whole' BY DEF MobileInv, Whole, At
<1>3. Known' BY DEF MobileInv, Known
<1>4. OneSessionKept' BY DEF MobileInv, OneSessionKept, LoginAlone, Belong, At
<1>5. calm' => Calm' BY DEF MobileInv, Calm, CallIsCalm
<1>6. ~torn' => StoreIsWhole' BY DEF MobileInv, StoreIsWhole
<1> QED BY <1>1, <1>2, <1>3, <1>4, <1>5, <1>6 DEF MobileInv

LEMMA WebFrame ==
  ASSUME WebInv, UNCHANGED <<serverVars, webVars>>
  PROVE  WebInv'
<1> USE DEF serverVars, webVars
<1>1. ServerTypeOK' /\ WebTypeOK' BY DEF WebInv, ServerTypeOK, WebTypeOK
<1>2. Accepting' /\ Shut' /\ Retries' BY DEF WebInv, Accepting, Shut, Retries
<1>3. steady' => OneSession' BY DEF WebInv, OneSession
<1> QED BY <1>1, <1>2, <1>3 DEF WebInv

\* The part that moves keeps its invariant, the others are as they began.
ClientsInv ==
    \/ part = "mobile" /\ MobileInv /\ WebInit /\ PushInit /\ PrefInit
    \/ part = "web" /\ WebInv /\ MobileInit /\ PushInit /\ PrefInit
    \/ part = "push" /\ PushInv /\ ServerInit /\ MobileInit /\ WebInit /\ PrefInit
    \/ part = "preferences" /\ PrefInv /\ ServerInit /\ MobileInit /\ WebInit /\ PushInit

LEMMA ClientsKeep == Spec => []ClientsInv
<1>1. Init => ClientsInv
  BY MobileStarts, WebStarts, PushStarts, PrefStarts DEF Init, Parts, ClientsInv
<1>2. ClientsInv /\ [Next]_vars => ClientsInv'
  <2> SUFFICES ASSUME ClientsInv, [Next]_vars PROVE ClientsInv' OBVIOUS
  <2>1. UNCHANGED mobileVars /\ MobileInit => MobileInit' BY DEF mobileVars, MobileInit
  <2>2. UNCHANGED webVars /\ WebInit => WebInit' BY DEF webVars, WebInit
  <2>3. UNCHANGED pushVars /\ PushInit => PushInit' BY DEF pushVars, PushInit
  <2>4. UNCHANGED serverVars /\ ServerInit => ServerInit' BY DEF serverVars, ServerInit
  <2>5. UNCHANGED prefVars /\ PrefInit => PrefInit' BY DEF prefVars, PrefInit
  <2>6. CASE MobileMoves
    BY <2>2, <2>3, <2>5, <2>6, MobileKeeps DEF MobileMoves, ClientsInv
  <2>7. CASE WebMoves
    BY <2>1, <2>3, <2>5, <2>7, WebKeeps DEF WebMoves, ClientsInv
  <2>8. CASE PushMoves
    BY <2>1, <2>2, <2>4, <2>5, <2>8, PushKeeps DEF PushMoves, ClientsInv
  <2>9. CASE PreferencesMove
    BY <2>1, <2>2, <2>3, <2>4, <2>9, PrefKeeps DEF PreferencesMove, ClientsInv
  <2>10. CASE UNCHANGED vars
    BY <2>1, <2>2, <2>3, <2>4, <2>5, <2>10, MobileFrame, WebFrame, PushFrame, PrefFrame
       DEF vars, ClientsInv
  <2> QED BY <2>6, <2>7, <2>8, <2>9, <2>10 DEF Next
<1> QED BY <1>1, <1>2, PTL DEF Spec

LEMMA AtRest ==
  /\ MobileInit => MobileTypeOK /\ SignOutSticks /\ ShownUserOwnsTokens
  /\ WebInit => WebTypeOK /\ WebSignOutSticks
<1>1. Idle \in Call /\ NoPair \in Tokens BY CallForms DEF Tokens
<1>2. NoRequest \in Request /\ NoRefresh \in [pc : {"none", "sent", "accepted"}, pair : Held]
  BY DEF Request, NoRequest, NoRefresh, Held
<1>3. ASSUME MobileInit PROVE MobileTypeOK
  <2> USE <1>3 DEF MobileInit
  <2> QED BY <1>1 DEF MobileTypeOK
<1>4. MobileInit => SignOutSticks /\ ShownUserOwnsTokens
  BY DEF MobileInit, SignOutSticks, ShownUserOwnsTokens
<1>5. ASSUME WebInit PROVE WebTypeOK
  <2> USE <1>5 DEF WebInit
  <2> QED BY <1>2 DEF WebTypeOK, Held, Phases
<1>6. WebInit => WebSignOutSticks BY DEF WebInit, WebSignOutSticks
<1> QED BY <1>3, <1>4, <1>5, <1>6

\* Every variable of the two apps, of the sessions they share with the API, of
\* the push registration and of the preferences keeps its type.
THEOREM Typed == Spec => []TypeOK
<1>1. ClientsInv => TypeOK
  BY AtRest, PushStarts, PrefStarts
     DEF ClientsInv, Parts, MobileInv, WebInv, PushInv, PrefInv, TypeOK, ServerInit, ServerTypeOK
<1> QED BY <1>1, ClientsKeep, PTL

\* A sign-out of the mobile app sticks, whatever has failed, been refused or been
\* refreshed side by side before: once its memory holds no token and none is being
\* saved, the secure store holds none either, unless the deletions of a sign-out have
\* overlapped the saves of a refresh or a login, or the app has ended between them
\* (authStore.ts, clearAuth).
THEOREM SignOut == Spec => []SignOutSticks
<1>1. MobileInv => SignOutSticks
  <2> SUFFICES ASSUME MobileInv, ~torn, isHydrated, accessToken = NoPair,
                      \A c \in Calls : ~Saving(c)
               PROVE  refreshToken = NoPair /\ disk = [access |-> NoPair, refresh |-> NoPair]
    BY DEF SignOutSticks
  <2>1. \A c \in Calls : calls[c].pc \notin StoringPcs
    BY DEF Saving, StoringPcs
  <2>2. refreshToken = NoPair /\ disk.access = NoPair /\ disk.refresh = NoPair
    BY <2>1 DEF MobileInv, StoreIsWhole
  <2> QED BY <2>2 DEF MobileInv, MobileTypeOK
<1>2. ClientsInv => SignOutSticks BY <1>1, AtRest DEF ClientsInv
<1> QED BY <1>2, ClientsKeep, PTL

\* The user the mobile app shows is the one its tokens act for, unless calls of
\* an earlier session were still under way at a login (App.tsx, loadUser).
THEOREM ShownUser == Spec => []ShownUserOwnsTokens
<1>1. MobileInv => ShownUserOwnsTokens
  BY DEF MobileInv, OneSessionKept, Belong, IsOf, ShownUserOwnsTokens
<1>2. ClientsInv => ShownUserOwnsTokens BY <1>1, AtRest DEF ClientsInv
<1> QED BY <1>2, ClientsKeep, PTL

\* While no refresh is lost, refused or run beside another or a sign-out, and no two
\* sessions' calls cross, the mobile app loses its tokens only to the sign-out button or
\* to its end (client.ts, the 401 interceptor).
THEOREM OnlyMishaps == Spec => OnlyMishapsSignOut
<1> DEFINE Kept == calm' /\ accessToken # NoPair /\ accessToken' = NoPair =>
        ~isHydrated' \/ \E c \in Calls : calls[c].kind = "logout" /\ At(c, "dropped")
<1>1. ASSUME MobileInv, MobileStep PROVE Kept
  <2> SUFFICES ASSUME calm', accessToken # NoPair, accessToken' = NoPair, isHydrated'
               PROVE  \E c \in Calls : calls[c].kind = "logout" /\ At(c, "dropped")
    OBVIOUS
  <2>1. Calm /\ Whole BY <1>1, CalmBefore DEF MobileInv
  <2>2. ASSUME NEW c \in Calls, CallStep(c) PROVE ClearAuth(c)
    <3>1. CallIsWhole(calls[c]) BY <2>1 DEF Whole
    <3>2. At(c, "saved") => calls[c].pair # NoPair BY <3>1 DEF At, CallIsWhole, Given
    <3> QED BY <2>2, <3>2 DEF CallStep, StartApi, LoadUser, Logout, Login, Accepted,
            LoggedIn, NoAnswer, Unauthorized, UnauthorizedAgain, NothingToRefresh,
            Verify, Rotated, Refused, LoseRefresh, SaveAccess, SaveRefresh, SetAuth,
            UpdateTokens, DropAccess, DropRefresh, storeVars
  <2>3. ASSUME NEW c \in Calls, ClearAuth(c) PROVE calls[c].kind = "logout" /\ At(c, "dropped")
    <3>1. At(c, "dropped") BY <2>3 DEF ClearAuth
    <3>2. CallIsCalm(c) BY <2>1 DEF Calm
    <3> QED BY <3>1, <3>2 DEF CallIsCalm, At, Wiped
  <2>4. ~AppStep
    <3>1. ~isHydrated => accessToken = NoPair BY <2>1 DEF Whole
    <3> QED BY <3>1 DEF AppStep, NothingToLoad, Kill, HydrateFromSecureStore, Expire, RevokeAll,
            storeVars
  <2> QED BY <1>1, <2>2, <2>3, <2>4, MobileSteps
<1>2. ClientsInv /\ [Next]_vars => [Kept]_mobileVars
  <2> SUFFICES ASSUME ClientsInv, Next, ~UNCHANGED mobileVars PROVE Kept
    BY DEF vars
  <2>1. MobileInv /\ MobileNext
    BY DEF ClientsInv, Next, MobileMoves, WebMoves, PushMoves, PreferencesMove
  <2> QED BY <1>1, <2>1 DEF MobileNext
<1> QED BY <1>2, ClientsKeep, PTL DEF Spec, OnlyMishapsSignOut

\* A sign-out of the web app sticks: until the next login no token is stored or
\* held, unless another tab was open or a refresh under way then, or an answer was lost
\* or a session revoked before (authStore.ts).
THEOREM WebSignOut == Spec => []WebSignOutSticks
<1>1. WebInv => WebSignOutSticks
  <2> SUFFICES ASSUME WebInv, steady, signedOut
               PROVE  storage = NoPair /\ \A t \in Tabs : held[t] = NoPair
    BY DEF WebSignOutSticks
  <2>1. OneSession /\ Shut BY DEF WebInv
  <2> QED BY <2>1 DEF OneSession, Shut
<1>2. ClientsInv => WebSignOutSticks BY <1>1, AtRest DEF ClientsInv
<1> QED BY <1>2, ClientsKeep, PTL

\* With one tab open at a time, and while no answer is lost, no request fails for
\* another reason than its token and no session is revoked, the web app loses its tokens
\* only by leaving the page or by signing out (httpClient.ts, the 401 interceptor).
THEOREM OneTabKeeps == Spec => OneTabKeepsSession
<1> DEFINE Kept == \A t \in Tabs :
         steady' /\ held[t] # NoPair /\ held'[t] = NoPair =>
             phase'[t] \in {"closed", "leaving"}
<1>1. ASSUME WebInv, WebNext PROVE Kept
  BY <1>1, OneSessionKeeps
<1>2. ClientsInv /\ [Next]_vars => [Kept]_webVars
  <2> SUFFICES ASSUME ClientsInv, Next, ~UNCHANGED webVars PROVE Kept
    BY DEF vars
  <2>1. WebInv /\ WebNext
    BY DEF ClientsInv, Next, MobileMoves, WebMoves, PushMoves, PreferencesMove
  <2> QED BY <1>1, <2>1
<1> QED BY <1>2, ClientsKeep, PTL DEF Spec, OneTabKeepsSession

\* A phone that believes it is registered for the user signed in is registered
\* for that user (usePushRegistration.ts:135), unless a sign-out failed to
\* remove the flags or overtook a registration.
THEOREM FlagsAreRight == Spec => []FlagsTellTheTruth
<1>1. PushInv => FlagsTellTheTruth
  BY DEF PushInv, Tidy, FlagsAreTrue, FlagsTellTheTruth, AlreadyRegistered, PushTypeOK,
         PushTokens, NoToken
<1>2. ClientsInv => FlagsTellTheTruth BY <1>1, PushStarts DEF ClientsInv
<1> QED BY <1>2, ClientsKeep, PTL

\* Once the server has told the phone what its user wants, and with nothing under
\* way, the switch of the profile screen shows it and the storage has it
\* (hooks.ts, useUserPreferencesMutation), but for the mishaps that `quiet` names.
THEOREM SwitchIsTrue == Spec => []SwitchTellsTheTruth
<1>1. PrefInv => SwitchTellsTheTruth
  <2> SUFFICES ASSUME PrefInv, quiet, profile, person \in told, ~leaving, ~Changing
               PROVE  cache = wish[person] /\ shown = wish[person] /\ kept[person] = wish[person]
    BY DEF SwitchTellsTheTruth
  <2> QED BY DEF PrefInv, Vacant, Agreed, CopiesAreTrue, QueryIsTrue
<1>2. ClientsInv => SwitchTellsTheTruth BY <1>1, PrefStarts DEF ClientsInv
<1> QED BY <1>2, ClientsKeep, PTL

\* A phone that was told that its user wants no alerts begins no registration for
\* that user (usePushRegistration.ts:122), but for the same mishaps.
THEOREM DisabledIsSilent == Spec => DisabledStaysSilent
<1> DEFINE Silent == \A u \in registering' \ registering :
         quiet /\ u \in told /\ ~SaveOf(u) => wish[u] = "on"
<1>1. ASSUME PrefInv, PrefNext PROVE Silent
  <2> SUFFICES ASSUME NEW u \in registering' \ registering, quiet, u \in told, ~SaveOf(u)
               PROVE  wish[u] = "on"
    OBVIOUS
  <2>1. ~RunRegistration => registering' \subseteq registering
    BY <1>1 DEF PrefNext, SignInWithPrefs, ChangedElsewhere, Hydrate, PrimeQueryCache,
       EmptyStorage, EndSession, KillWithPrefs, Reset, OpenProfile, CloseProfile, Age, Collect,
       GetUserPreferences, Fetched, FetchFails, FallBack, Toggle, UpsertUserPreferences,
       Saved, SaveFails
  <2>2. RunRegistration BY <2>1
  <2>3. u = person /\ hydrated /\ (IF cache = Unset THEN shown ELSE cache) = "on"
    BY <2>2 DEF RunRegistration
  <2>4. ~Changing
    BY <1>1, <2>3 DEF PrefInv, Agreed, ChangesAreTrue, ChangeIsTrue, Changing, SaveOf
  <2> QED BY <1>1, <2>3, <2>4 DEF PrefInv, Agreed, CopiesAreTrue
<1>2. ClientsInv /\ [Next]_vars => [Silent]_prefVars
  <2> SUFFICES ASSUME ClientsInv, Next, ~UNCHANGED prefVars PROVE Silent
    BY DEF vars
  <2>1. PrefInv /\ PrefNext
    BY DEF ClientsInv, Next, MobileMoves, WebMoves, PushMoves, PreferencesMove
  <2> QED BY <1>1, <2>1
<1> QED BY <1>2, ClientsKeep, PTL DEF Spec, DisabledStaysSilent
=============================================================================

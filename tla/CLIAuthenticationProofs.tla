----------------------- MODULE CLIAuthenticationProofs -----------------------
(***************************************************************************)
(* Proofs about signing in and out, for any number of commands and users   *)
(* and any number of lost answers, failing calls and killed commands.      *)
(***************************************************************************)
EXTENDS CLIAuthentication, TLAPS

\* The steps of one command.
ProcessStep(p) ==
    \/ StartLogin(p) \/ StartLogout(p) \/ Work(p)
    \/ PollLost(p) \/ WriteFails(p) \/ RevokeUnconfirmed(p) \/ Crash(p)

LEMMA StepCases ==
  ASSUME [Next]_vars
  PROVE  ServerStep \/ (\E p \in Processes : ProcessStep(p)) \/ UNCHANGED vars
BY DEF Next, ProcessStep

\* The states rows and commands can be in.
LEMMA States ==
  /\ {"none", "pending", "approved_unclaimed", "denied", "expired", "claimed"} \subseteq GrantStates
  /\ {"none", "active", "cli_logout", "revoked"} \subseteq CredStates
  /\ {"idle", "create", "poll", "sent", "unlock", "revoke", "lock", "unlink", "check", "write",
      "done", "dead"} \subseteq Stages
  /\ {"none", "swapped", "conflict", "failed"} \subseteq Answers
BY DEF GrantStates, CredStates, Stages, Answers, Holding, LockWait, Ended

-----------------------------------------------------------------------------
(* Types                                                                   *)

LEMMA GrantType ==
  ASSUME grant \in [Processes -> GrantRows], NEW p \in Processes, NEW s \in GrantStates, SetGrant(p, s)
  PROVE  grant' \in [Processes -> GrantRows]
BY DEF SetGrant, GrantRows

LEMMA PollTypes ==
  ASSUME TypeOK, NEW p \in Processes, PollCLIDeviceAuthorization(p)
  PROVE  grant' \in [Processes -> GrantRows] /\ cred' \in [Credentials -> CredRows]
<1>1. p \in Credentials /\ grant[p].user \in Users \cup {None}
  BY DEF Credentials, TypeOK, GrantRows
<1>2. grant' \in [Processes -> GrantRows]
  BY GrantType, States DEF TypeOK, PollCLIDeviceAuthorization
<1>3. [status |-> "active", user |-> grant[p].user] \in CredRows
  BY <1>1, States DEF CredRows
<1> QED BY <1>1, <1>2, <1>3 DEF TypeOK, PollCLIDeviceAuthorization

LEMMA RevokeAllType ==
  ASSUME TypeOK, NEW u \in Users, RevokeAll(u)
  PROVE  cred' \in [Credentials -> CredRows]
BY States DEF TypeOK, RevokeAll, CredRows

LEMMA ServerTypes == TypeOK /\ ServerStep => TypeOK'
<1> SUFFICES ASSUME TypeOK, ServerStep PROVE TypeOK'
  OBVIOUS
<1> USE DEF TypeOK, client, ghost
<1>1. ASSUME NEW p \in Processes, Tick(p) PROVE TypeOK'
  BY <1>1 DEF Tick
<1>2. ASSUME NEW p \in Processes, Maintain(p) PROVE TypeOK'
  BY <1>2, GrantType, States DEF Maintain
<1>3. ASSUME NEW u \in Users, DisableUser(u) PROVE TypeOK'
  <2>1. grant' \in [Processes -> GrantRows]
    BY <1>3, States DEF DisableUser, GrantRows
  <2> QED BY <1>3, <2>1, RevokeAllType DEF DisableUser
<1>4. ASSUME NEW u \in Users, RevokeCLICredentials(u) PROVE TypeOK'
  BY <1>4, RevokeAllType DEF RevokeCLICredentials
<1>5. ASSUME NEW u \in Users, NEW p \in Processes, Resolve(u, p) PROVE TypeOK'
  <2>1. grant' \in [Processes -> GrantRows]
    BY <1>5 DEF Resolve, GrantRows
  <2> QED BY <1>5, <2>1 DEF Resolve
<1>6. ASSUME NEW u \in Users, NEW p \in Processes, Decide(u, p) PROVE TypeOK'
  <2>1. CASE SetGrant(p, "expired")
    BY <1>6, <2>1, GrantType, States DEF Decide
  <2>2. ASSUME NEW s \in GrantStates, grant' = [grant EXCEPT ![p].status = s, ![p].user = u]
        PROVE  grant' \in [Processes -> GrantRows]
    <3> DEFINE g == [grant EXCEPT ![p].status = s]
    <3>1. g \in [Processes -> GrantRows]
      BY DEF GrantRows
    <3>2. grant' = [g EXCEPT ![p].user = u]
      BY <2>2
    <3> HIDE DEF g
    <3> QED BY <3>1, <3>2 DEF GrantRows
  <2> QED BY <1>6, <2>1, <2>2, States DEF Decide
<1> QED BY <1>1, <1>2, <1>3, <1>4, <1>5, <1>6 DEF ServerStep

\* What revoking a credential leaves.
LEMMA RevokeCurrentType ==
  ASSUME TypeOK, NEW c \in Credentials, RevokeCurrent(c)
  PROVE  cred' \in [Credentials -> CredRows]
BY States DEF TypeOK, RevokeCurrent, CredRows

\* A command in "revoke" has something to revoke, and what it revokes is a
\* credential.
LEMMA ToRevokeType ==
  ASSUME TypeOK, NEW p \in Processes, NEW a
  PROVE  ToRevoke(p, a) \in Credentials \cup {None}
BY DEF TypeOK, ToRevoke, Credentials

-----------------------------------------------------------------------------
(* The order of a command                                                  *)

Early == {"idle", "create", "poll", "sent"}

\* Nothing is minted before "poll", the store answers once, and a command
\* that revokes has something to revoke.
Staged(p) ==
    /\ pc[p] \in {"idle", "create"} => grant[p].status = "none"
    /\ pc[p] \in Early => cmd[p] = "login"
    /\ pc[p] \in Early \cup Holding => swap[p] = "none"
    /\ pc[p] \in {"unlock", "revoke"} => swap[p] # "none"
    /\ pc[p] = "revoke" => ToRevoke(p, swap[p]) # None
Stage == \A p \in Processes : Staged(p)

\* A command's step leaves the other commands alone.
OthersKept(p) ==
    \A q \in Processes \ {p} :
        /\ pc'[q] = pc[q] /\ cmd'[q] = cmd[q] /\ swap'[q] = swap[q]
        /\ previous'[q] = previous[q] /\ grant'[q] = grant[q]

LEMMA ProcessTypes ==
  ASSUME TypeOK, Stage, NEW p \in Processes, ProcessStep(p)
  PROVE  TypeOK' /\ OthersKept(p) /\ Staged(p)'
<1> DEFINE Goal == TypeOK' /\ OthersKept(p) /\ Staged(p)'
<1>0. p \in Credentials /\ Staged(p) /\ p # None /\ pc \in [Processes -> Stages]
  BY BoundsAssumption DEF Credentials, Stage, TypeOK
<1> USE States DEF TypeOK, Staged, OthersKept, Early, Holding, LockWait, Go, server, client, ghost
<1>1. CASE StartLogin(p)
  BY <1>0, <1>1 DEF StartLogin
<1>2. CASE StartLogout(p)
  BY <1>0, <1>2 DEF StartLogout
<1>3. CASE CreateDeviceAuthorization(p)
  <2>1. /\ grant' = grant \/ SetGrant(p, "pending")
        /\ pc' = [pc EXCEPT ![p] = "poll"] \/ pc' = [pc EXCEPT ![p] = "done"]
        /\ UNCHANGED <<clock, cred, active, file, lock, cmd, previous, swap, ghost>> /\ pc[p] = "create"
    BY <1>3 DEF CreateDeviceAuthorization
  <2>2. grant' \in [Processes -> GrantRows] /\ \A q \in Processes \ {p} : grant'[q] = grant[q]
    BY <2>1, GrantType DEF SetGrant
  <2> QED BY <1>0, <2>1, <2>2
<1>4. CASE Poll(p)
  BY <1>0, <1>4 DEF Poll
<1>5. CASE Deadline(p)
  BY <1>0, <1>5 DEF Deadline
<1>6. ASSUME PollCLIDeviceAuthorization(p)
      PROVE  /\ grant' \in [Processes -> GrantRows] /\ cred' \in [Credentials -> CredRows]
             /\ \A q \in Processes \ {p} : grant'[q] = grant[q]
  BY <1>6, PollTypes DEF PollCLIDeviceAuthorization, SetGrant
<1>7. CASE PollAnswered(p)
  <2>1. pc' = [pc EXCEPT ![p] = "lock"] \/ pc' = [pc EXCEPT ![p] = "poll"] \/ pc' = [pc EXCEPT ![p] = "done"]
    <3>1. CASE Claims(p)
      BY <1>7, <3>1 DEF PollAnswered, Claims
    <3>2. CASE grant[p].status = "pending" /\ ~Due(p)
      BY <1>7, <3>2 DEF PollAnswered, Claims
    <3>3. CASE ~Claims(p) /\ ~(grant[p].status = "pending" /\ ~Due(p))
      BY <1>7, <3>3 DEF PollAnswered
    <3> QED BY <3>1, <3>2, <3>3
  <2> QED BY <1>0, <1>6, <1>7, <2>1 DEF PollAnswered
<1>19. CASE PollLost(p)
  <2>1. pc' = [pc EXCEPT ![p] = "poll"] \/ pc' = [pc EXCEPT ![p] = "done"]
    BY <1>19 DEF PollLost
  <2>2. lost' \subseteq Credentials
    BY <1>0, <1>19 DEF PollLost
  <2>3. faults' \in 0..MaxFaults
    BY <1>19, BoundsAssumption DEF PollLost, Fault
  <2> QED BY <1>0, <1>6, <1>19, <2>1, <2>2, <2>3 DEF PollLost
<1>8. CASE AcquireLock(p)
  BY <1>0, <1>8 DEF AcquireLock
<1>9. CASE LockTimesOut(p)
  BY <1>0, <1>9 DEF LockTimesOut, LockFailed, ToRevoke
<1>10. CASE JudgeStale(p)
  BY <1>0, <1>10 DEF JudgeStale
<1>11. CASE UnlinkStale(p)
  BY <1>0, <1>11 DEF UnlinkStale, LockFailed, ToRevoke
<1>12. CASE Compare(p)
  BY <1>0, <1>12 DEF Compare, Answer
<1>13. CASE Write(p)
  <2>1. lost' \subseteq Credentials /\ file' \in Credentials \cup {None}
    BY <1>0, <1>13 DEF Write, Overwritten, Target
  <2> QED BY <1>0, <1>13, <2>1 DEF Write, Answer
<1>14. CASE WriteFails(p)
  <2>1. lost' \subseteq Credentials /\ file' \in Credentials \cup {None} /\ faults' \in 0..MaxFaults
    BY <1>0, <1>14, BoundsAssumption DEF WriteFails, Overwritten, Target, Fault
  <2> QED BY <1>0, <1>14, <2>1 DEF WriteFails, Answer
<1>15. CASE Unlock(p)
  BY <1>0, <1>15 DEF Unlock, ToRevoke
<1>16. CASE Revoke(p)
  <2>1. ToRevoke(p, swap[p]) \in Credentials
    BY <1>0, <1>16, ToRevokeType DEF Revoke
  <2>2. cred' \in [Credentials -> CredRows]
    BY <1>16, <2>1, RevokeCurrentType DEF Revoke
  <2> QED BY <1>0, <1>16, <2>2 DEF Revoke
<1>17. CASE RevokeUnconfirmed(p)
  <2>1. ToRevoke(p, swap[p]) \in Credentials
    BY <1>0, <1>17, ToRevokeType DEF RevokeUnconfirmed
  <2>2. cred' \in [Credentials -> CredRows]
    BY <1>17, <2>1, RevokeCurrentType DEF RevokeUnconfirmed
  <2>3. reported' \subseteq Credentials /\ faults' \in 0..MaxFaults
    BY <1>17, <2>1, BoundsAssumption DEF RevokeUnconfirmed, Fault
  <2> QED BY <1>0, <1>17, <2>2, <2>3 DEF RevokeUnconfirmed
<1>18. CASE Crash(p)
  <2>1. Held(p) \subseteq Credentials
    BY <1>0, ToRevokeType DEF Held, Target
  <2>2. crashes' \in 0..MaxCrashes
    BY <1>18, BoundsAssumption DEF Crash
  <2> QED BY <1>0, <1>18, <2>1, <2>2 DEF Crash
<1> QED BY <1>1, <1>2, <1>3, <1>4, <1>5, <1>7, <1>8, <1>9, <1>10, <1>11, <1>12, <1>13, <1>14, <1>15,
           <1>16, <1>17, <1>18, <1>19 DEF ProcessStep, Work

\* The Server never touches the commands.
LEMMA ServerEffect ==
  ASSUME TypeOK, ServerStep
  PROVE  /\ UNCHANGED <<client, ghost>>
         /\ \A p \in Processes : grant[p].status = "none" => grant'[p].status = "none"
<1> USE DEF TypeOK, GrantRows
<1>1. ASSUME NEW u \in Users, DisableUser(u)
      PROVE  \A p \in Processes : grant[p].status = "none" => grant'[p].status = "none"
  BY <1>1 DEF DisableUser
<1>2. ASSUME NEW u \in Users, NEW p \in Processes, Resolve(u, p)
      PROVE  \A q \in Processes : grant[q].status = "none" => grant'[q].status = "none"
  BY <1>2 DEF Resolve
<1>3. ASSUME NEW u \in Users, NEW p \in Processes, Decide(u, p)
      PROVE  \A q \in Processes : grant[q].status = "none" => grant'[q].status = "none"
  BY <1>3 DEF Decide, SetGrant, Due, Undecided
<1>4. ASSUME NEW p \in Processes, Maintain(p)
      PROVE  \A q \in Processes : grant[q].status = "none" => grant'[q].status = "none"
  BY <1>4 DEF Maintain, SetGrant, Due, Undecided
<1> QED BY <1>1, <1>2, <1>3, <1>4
        DEF ServerStep, Tick, Maintain, DisableUser, RevokeCLICredentials, Resolve, Decide

LEMMA OrderNext == TypeOK /\ Stage /\ [Next]_vars => TypeOK' /\ Stage'
<1> SUFFICES ASSUME TypeOK, Stage, [Next]_vars PROVE TypeOK' /\ Stage'
  OBVIOUS
<1>1. CASE ServerStep
  <2>1. Stage'
    BY <1>1, ServerEffect DEF client, Stage, Staged, ToRevoke
  <2> QED BY <1>1, <2>1, ServerTypes
<1>2. ASSUME NEW p \in Processes, ProcessStep(p) PROVE TypeOK' /\ Stage'
  <2>1. TypeOK' /\ OthersKept(p) /\ Staged(p)'
    BY <1>2, ProcessTypes
  <2>2. ASSUME NEW q \in Processes \ {p} PROVE Staged(q)'
    BY <2>1 DEF Stage, Staged, OthersKept, ToRevoke
  <2> QED BY <2>1, <2>2 DEF Stage
<1>3. CASE UNCHANGED vars
  BY <1>3 DEF TypeOK, Stage, Staged, ToRevoke, vars, server, client, ghost
<1> QED BY <1>1, <1>2, <1>3, StepCases

\* The tables, the files and the commands have their types, and every command
\* keeps to its order.
THEOREM OrderCorrect == Spec => [](TypeOK /\ Stage)
<1>1. Init => TypeOK
  <2> SUFFICES ASSUME Init PROVE TypeOK
    OBVIOUS
  <2>1. [status |-> "none", review |-> None, user |-> None] \in GrantRows
    BY States DEF GrantRows
  <2>2. cred \in [Credentials -> CredRows]
    BY States DEF Init, CredRows
  <2>3. file \in Credentials \cup {None}
    BY DEF Init, Credentials
  <2> QED BY <2>1, <2>2, <2>3, States, BoundsAssumption DEF Init, TypeOK
<1>2. Init => Stage
  BY DEF Init, Stage, Staged, Early
<1> QED BY <1>1, <1>2, OrderNext, PTL DEF Spec

-----------------------------------------------------------------------------
(* Authority                                                               *)

\* An approval carries the user that reviewed it, and the claim turns it into
\* the credential.
Reviewed(p) ==
    /\ cred[p].status # "none" <=> grant[p].status = "claimed"
    /\ grant[p].status \in {"approved_unclaimed", "claimed"} =>
          grant[p].user = grant[p].review /\ grant[p].user \in Users
    /\ cred[p].status # "none" => cred[p].user = grant[p].user
Working(c) == cred[c].status = "active" => cred[c].user \in active
Authority == (\A p \in Processes : Reviewed(p)) /\ (\A c \in Credentials : Working(c))

\* The database operations a command causes.
Minted(p) == pc[p] = "create" /\ SetGrant(p, "pending") /\ UNCHANGED <<cred, active>>
Claimed(p) == PollCLIDeviceAuthorization(p) /\ UNCHANGED active
Revoked(p) ==
    /\ pc[p] = "revoke" /\ RevokeCurrent(ToRevoke(p, swap[p]))
    /\ UNCHANGED <<grant, active>>

LEMMA CommandEffect ==
  ASSUME NEW p \in Processes, ProcessStep(p)
  PROVE  UNCHANGED <<grant, cred, active>> \/ Minted(p) \/ Claimed(p) \/ Revoked(p)
BY DEF ProcessStep, Work, Minted, Claimed, Revoked, server,
       StartLogin, StartLogout, CreateDeviceAuthorization, Poll, Deadline, PollAnswered, PollLost,
       AcquireLock, LockTimesOut, JudgeStale, UnlinkStale, Compare, Write, WriteFails, Unlock,
       Revoke, RevokeUnconfirmed, Crash

\* Revoking what a user has.
LEMMA RevokeAllEffect ==
  ASSUME TypeOK, NEW u \in Users, RevokeAll(u)
  PROVE  \A c \in Credentials :
           /\ cred'[c].user = cred[c].user
           /\ cred'[c].status = "none" <=> cred[c].status = "none"
           /\ cred'[c].status = "active" => cred[c].status = "active" /\ cred[c].user # u
           /\ cred'[c].status = "cli_logout" => cred[c].status = "cli_logout"
<1> SUFFICES ASSUME NEW c \in Credentials
             PROVE  /\ cred'[c].user = cred[c].user
                    /\ cred'[c].status = "none" <=> cred[c].status = "none"
                    /\ cred'[c].status = "active" => cred[c].status = "active" /\ cred[c].user # u
                    /\ cred'[c].status = "cli_logout" => cred[c].status = "cli_logout"
  OBVIOUS
<1>1. cred[c] \in CredRows
  BY DEF TypeOK
<1>2. CASE cred[c] = [status |-> "active", user |-> u]
  BY <1>1, <1>2 DEF RevokeAll, CredRows
<1>3. CASE cred[c] # [status |-> "active", user |-> u]
  <2>1. cred'[c] = cred[c]
    BY <1>3 DEF RevokeAll
  <2>2. ~(cred[c].status = "active" /\ cred[c].user = u)
    BY <1>1, <1>3 DEF CredRows
  <2> QED BY <2>1, <2>2
<1> QED BY <1>2, <1>3

LEMMA AuthorityServer == TypeOK /\ Authority /\ ServerStep => Authority'
<1> SUFFICES ASSUME TypeOK, Authority, ServerStep PROVE Authority'
  OBVIOUS
<1>0. Processes \subseteq Credentials /\ None \notin Users
  BY BoundsAssumption DEF Credentials
<1> USE DEF Authority, Reviewed, Working
<1>1. ASSUME NEW p \in Processes, Tick(p) PROVE Authority'
  BY <1>1 DEF Tick
<1>2. ASSUME NEW p \in Processes, Due(p), SetGrant(p, "expired"), UNCHANGED <<cred, active>> PROVE Authority'
  BY <1>2 DEF SetGrant, Due, Undecided, TypeOK, GrantRows
<1>3. ASSUME NEW u \in Users, DisableUser(u) PROVE Authority'
  <2>1. /\ RevokeAll(u) /\ active' = active \ {u}
        /\ grant' = [p \in Processes |-> IF grant[p].status = "approved_unclaimed" /\ grant[p].user = u
                                         THEN [grant[p] EXCEPT !.status = "expired"] ELSE grant[p]]
    BY <1>3 DEF DisableUser
  <2>2. \A p \in Processes : Reviewed(p)'
    BY <1>0, <2>1, RevokeAllEffect DEF TypeOK, GrantRows
  <2>3. \A c \in Credentials : Working(c)'
    BY <2>1, RevokeAllEffect
  <2> QED BY <2>2, <2>3
<1>4. ASSUME NEW u \in Users, RevokeCLICredentials(u) PROVE Authority'
  <2>1. RevokeAll(u) /\ UNCHANGED <<grant, active>>
    BY <1>4 DEF RevokeCLICredentials
  <2> QED BY <1>0, <2>1, RevokeAllEffect
<1>5. ASSUME NEW u \in Users, NEW p \in Processes, Resolve(u, p) PROVE Authority'
  <2>1. grant[p].status \notin {"approved_unclaimed", "claimed"}
    BY <1>0, <1>5 DEF Resolve, Undecided
  <2> QED BY <1>5, <2>1 DEF Resolve, TypeOK, GrantRows
<1>6. ASSUME NEW u \in Users, NEW p \in Processes, Decide(u, p) PROVE Authority'
  <2>1. ASSUME NEW s \in {"approved_unclaimed", "denied"}, grant[p].status = "pending", grant[p].review = u,
               grant' = [grant EXCEPT ![p].status = s, ![p].user = u], UNCHANGED <<cred, active>>
        PROVE  Authority'
    <3>1. /\ grant'[p].status = s /\ grant'[p].user = u /\ grant'[p].review = u
          /\ \A q \in Processes \ {p} : grant'[q] = grant[q]
      BY <2>1 DEF TypeOK, GrantRows
    <3>2. cred[p].status = "none"
      BY <2>1
    <3>3. Reviewed(p)'
      BY <2>1, <3>1, <3>2
    <3>4. \A q \in Processes \ {p} : Reviewed(q)'
      BY <2>1, <3>1
    <3> QED BY <2>1, <3>3, <3>4
  <2> QED BY <1>2, <1>6, <2>1 DEF Decide
<1> QED BY <1>1, <1>2, <1>3, <1>4, <1>5, <1>6 DEF ServerStep, Maintain

LEMMA AuthorityNext == TypeOK /\ Stage /\ Authority /\ [Next]_vars => Authority'
<1> SUFFICES ASSUME TypeOK, Stage, Authority, [Next]_vars PROVE Authority'
  OBVIOUS
<1>0. Processes \subseteq Credentials
  BY DEF Credentials
<1>1. CASE ServerStep
  BY <1>1, AuthorityServer
<1>2. ASSUME UNCHANGED <<grant, cred, active>> PROVE Authority'
  BY <1>2 DEF Authority, Reviewed, Working
<1>3. ASSUME NEW p \in Processes, Minted(p) PROVE Authority'
  BY <1>3 DEF Authority, Reviewed, Working, Minted, SetGrant, Stage, Staged, TypeOK, GrantRows
<1>4. ASSUME NEW p \in Processes, Claimed(p) PROVE Authority'
  <2>1. CASE Claims(p)
    <3>1. /\ grant'[p].status = "claimed" /\ grant'[p].user = grant[p].user /\ grant'[p].review = grant[p].review
          /\ \A q \in Processes \ {p} : grant'[q] = grant[q]
          /\ cred'[p].status = "active" /\ cred'[p].user = grant[p].user
          /\ \A c \in Credentials \ {p} : cred'[c] = cred[c]
      BY <1>0, <1>4, <2>1 DEF Claimed, PollCLIDeviceAuthorization, SetGrant, TypeOK, GrantRows
    <3>2. grant[p].status = "approved_unclaimed" /\ grant[p].user \in active /\ active' = active
      BY <1>4, <2>1 DEF Claims, Claimed
    <3> QED BY <1>0, <3>1, <3>2 DEF Authority, Reviewed, Working
  <2>2. CASE ~Claims(p)
    <3>1. /\ grant' = grant \/ (SetGrant(p, "expired") /\ grant[p].status # "claimed")
          /\ UNCHANGED <<cred, active>>
      BY <1>4, <2>2 DEF Claimed, PollCLIDeviceAuthorization, Due, Undecided
    <3> QED BY <3>1 DEF Authority, Reviewed, Working, SetGrant, TypeOK, GrantRows
  <2> QED BY <2>1, <2>2
<1>5. ASSUME NEW p \in Processes, Revoked(p) PROVE Authority'
  <2>1. ToRevoke(p, swap[p]) \in Credentials
    BY <1>5, ToRevokeType DEF Revoked, Stage, Staged
  <2>2. \A c \in Credentials :
          /\ cred'[c].user = cred[c].user
          /\ cred'[c].status = "none" <=> cred[c].status = "none"
          /\ cred'[c].status = "active" => cred[c].status = "active"
    BY <1>5, <2>1 DEF Revoked, RevokeCurrent, TypeOK, CredRows
  <2> QED BY <1>0, <1>5, <2>2 DEF Revoked, Authority, Reviewed, Working
<1> QED BY <1>1, <1>2, <1>3, <1>4, <1>5, StepCases, CommandEffect DEF vars, server

\* Authority comes from a person: an authorization yields at most the one
\* credential of its claim, of the user whose session reviewed it, and no
\* credential of a disabled user works.
THEOREM AuthorityIsApproved == Spec => []AuthorityApproved
<1>1. Init => Authority
  <2> SUFFICES ASSUME Init PROVE Authority
    OBVIOUS
  <2>1. \A p \in Processes : p \in Credentials /\ p # Earlier
    BY BoundsAssumption DEF Credentials
  <2> QED BY <2>1 DEF Init, Authority, Reviewed, Working
<1>2. Authority => AuthorityApproved
  BY DEF Authority, Reviewed, Working, AuthorityApproved
<1> QED BY <1>1, <1>2, AuthorityNext, OrderCorrect, PTL DEF Spec

-----------------------------------------------------------------------------
(* The stored credential                                                   *)

\* A credential that is or was on disk belongs to a command whose store has
\* answered; what a swap replaced never returns; and only what was replaced,
\* or never saved, is revoked by a command.
Written(c) == swap[c] \in {"swapped", "failed"}
Stored ==
    /\ \A c \in Processes : file = c => Written(c)
    /\ \A c, p \in Processes : previous[p] = c => Written(c)
    /\ \A p \in Processes : swap[p] = "swapped" /\ previous[p] # None => file # previous[p]
Discarded(c) ==
    \/ \E p \in Processes : swap[p] = "swapped" /\ previous[p] = c
    \/ c \in Processes /\ swap[c] \in {"conflict", "failed"}
Discarding == \A c \in Credentials : cred[c].status = "cli_logout" => Discarded(c)

\* What a command's step does to the store.
Swaps(p) ==
    \/ swap' = swap /\ file' = file
    \/ /\ pc[p] \in Holding /\ swap' = [swap EXCEPT ![p] = "failed"]
       /\ file' = file \/ file' = Target(p)
    \/ pc[p] \in Holding /\ swap' = [swap EXCEPT ![p] = "conflict"] /\ file' = file
    \/ pc[p] \in Holding /\ swap' = [swap EXCEPT ![p] = "swapped"] /\ file' = Target(p)
Reads(p) ==
    \/ previous' = previous
    \/ pc[p] = "idle" /\ previous' = [previous EXCEPT ![p] = file]

LEMMA StoreEffect ==
  ASSUME NEW p \in Processes, ProcessStep(p)
  PROVE  Swaps(p) /\ Reads(p)
<1> USE DEF Holding, LockWait
<1>1. Reads(p)
  BY DEF ProcessStep, Work, Reads, StartLogin, StartLogout, CreateDeviceAuthorization, Poll, Deadline,
         PollAnswered, PollLost, AcquireLock, LockTimesOut, JudgeStale, UnlinkStale, Compare, Write,
         WriteFails, Unlock, Revoke, RevokeUnconfirmed, Crash
<1>2. Swaps(p)
  BY DEF ProcessStep, Work, Swaps, StartLogin, StartLogout, CreateDeviceAuthorization, Poll, Deadline,
         PollAnswered, PollLost, AcquireLock, LockTimesOut, LockFailed, JudgeStale, UnlinkStale, Compare,
         Answer, Write, WriteFails, Unlock, Revoke, RevokeUnconfirmed, Crash
<1> QED BY <1>1, <1>2

LEMMA StoredStep ==
  ASSUME TypeOK, Stage, Stored, NEW p \in Processes, Swaps(p), Reads(p)
  PROVE  Stored' /\ \A c : Discarded(c) => Discarded(c)'
<1> USE DEF TypeOK
<1>0. pc[p] \in Holding \cup {"idle"} => swap[p] = "none"
  BY DEF Stage, Staged, Early
<1>1. \A q \in Processes : swap[q] # "none" => swap'[q] = swap[q] /\ previous'[q] = previous[q]
  BY <1>0 DEF Swaps, Reads
<1>2. \A q \in Processes : Written(q) => Written(q)'
  BY <1>1 DEF Written
<1>3. ASSUME NEW c \in Processes, file' = c PROVE Written(c)'
  BY <1>2, <1>3, BoundsAssumption DEF Stored, Swaps, Target, Written
<1>4. ASSUME NEW c \in Processes, NEW q \in Processes, previous'[q] = c PROVE Written(c)'
  BY <1>2, <1>4 DEF Stored, Reads
<1>5. ASSUME NEW q \in Processes, swap'[q] = "swapped", previous'[q] # None PROVE file' # previous'[q]
  <2>1. CASE swap[q] = "swapped"
    <3>1. previous'[q] = previous[q] /\ file # previous[q]
      BY <1>1, <1>5, <2>1 DEF Stored
    <3>2. CASE file' = file
      BY <3>1, <3>2
    <3>3. CASE file' = Target(p) /\ pc[p] \in Holding
      BY <1>0, <1>5, <3>1, <3>3 DEF Target, Stored, Written
    <3> QED BY <3>2, <3>3 DEF Swaps
  <2>2. CASE swap[q] # "swapped"
    <3>1. q = p /\ file' = Target(p) /\ pc[p] \in Holding
      BY <1>5, <2>2 DEF Swaps
    <3>2. previous'[p] = previous[p]
      BY <3>1 DEF Reads, Holding, LockWait
    <3> QED BY <1>0, <1>5, <3>1, <3>2 DEF Target, Stored, Written
  <2> QED BY <2>1, <2>2
<1>6. Stored'
  BY <1>3, <1>4, <1>5 DEF Stored
<1>7. ASSUME NEW c, Discarded(c) PROVE Discarded(c)'
  BY <1>1, <1>7 DEF Discarded
<1> QED BY <1>6, <1>7

LEMMA StoredNext == TypeOK /\ Stage /\ Stored /\ Discarding /\ [Next]_vars => Stored' /\ Discarding'
<1> SUFFICES ASSUME TypeOK, Stage, Stored, Discarding, [Next]_vars PROVE Stored' /\ Discarding'
  OBVIOUS
<1>1. ASSUME UNCHANGED client, \A c \in Credentials : cred'[c].status = "cli_logout" => cred[c].status = "cli_logout"
      PROVE  Stored' /\ Discarding'
  BY <1>1 DEF Stored, Written, Discarding, Discarded, client
<1>2. CASE ServerStep
  <2>1. \A c \in Credentials : cred'[c].status = "cli_logout" => cred[c].status = "cli_logout"
    <3>1. (\E u \in Users : RevokeAll(u)) \/ UNCHANGED cred
      BY <1>2 DEF ServerStep, Tick, Maintain, DisableUser, RevokeCLICredentials, Resolve, Decide
    <3> QED BY <3>1, RevokeAllEffect
  <2> QED BY <1>1, <1>2, <2>1, ServerEffect
<1>3. ASSUME NEW p \in Processes, ProcessStep(p) PROVE Stored' /\ Discarding'
  <2>1. Stored' /\ \A c : Discarded(c) => Discarded(c)'
    BY <1>3, StoreEffect, StoredStep
  <2>2. ASSUME NEW c \in Credentials, cred'[c].status = "cli_logout", cred[c].status # "cli_logout"
        PROVE  Discarded(c)
    <3>1. Revoked(p)
      BY <1>3, <2>2, CommandEffect DEF Minted, Claimed, PollCLIDeviceAuthorization, TypeOK, CredRows
    <3>2. ToRevoke(p, swap[p]) \in Credentials
      BY <3>1, ToRevokeType DEF Revoked, Stage, Staged
    <3>3. c = ToRevoke(p, swap[p])
      BY <2>2, <3>1, <3>2 DEF Revoked, RevokeCurrent, TypeOK, CredRows
    <3>4. swap[p] \in {"swapped", "conflict", "failed"} /\ ToRevoke(p, swap[p]) # None
      BY <3>1 DEF Revoked, Stage, Staged, TypeOK, Answers
    <3> QED BY <3>3, <3>4 DEF ToRevoke, Discarded
  <2> QED BY <2>1, <2>2 DEF Discarding
<1>4. CASE UNCHANGED vars
  BY <1>1, <1>4 DEF vars, server
<1> QED BY <1>2, <1>3, <1>4, StepCases

\* Concurrent logins and logouts never leave on disk a credential that one of
\* them has revoked, unless its login reported that it could not save.
THEOREM StoredIsNotRevoked == Spec => []StoredNotRevoked
<1>1. Init => Stored /\ Discarding
  BY BoundsAssumption DEF Init, Stored, Discarding
<1>2. TypeOK /\ Stored /\ Discarding => StoredNotRevoked
  BY DEF TypeOK, Stored, Discarding, Discarded, Written, StoredNotRevoked, Credentials
<1> QED BY <1>1, <1>2, StoredNext, OrderCorrect, PTL DEF Spec

-----------------------------------------------------------------------------
(* Credentials nobody knows of                                             *)

Accounted(c) == c = file \/ c \in reported \cup lost \/ \E p \in Processes : c \in Held(p)

\* What only other commands know of stays with them.
LEMMA HeldByOthers ==
  ASSUME NEW p \in Processes, OthersKept(p), NEW q \in Processes \ {p}
  PROVE  Held(q)' = Held(q)
BY DEF OthersKept, Held, Target, ToRevoke

\* A command hands over what it holds or minted: to the file, to the user, to
\* a fault, or to its next step.
HandsOver(p) ==
    \A c \in Credentials :
        /\ cred[c].status = "active" /\ (c = file \/ c \in Held(p)) /\ cred'[c].status = "active"
              => c = file' \/ c \in reported' \cup lost' \/ c \in Held(p)'
        /\ cred[c].status # "active" /\ cred'[c].status = "active"
              => c \in lost' \/ c \in Held(p)'

LEMMA CommandHandsOver ==
  ASSUME TypeOK, Stage, NEW p \in Processes, ProcessStep(p)
  PROVE  HandsOver(p) /\ reported \cup lost \subseteq reported' \cup lost'
<1>0. Staged(p) /\ p # None /\ p \in Credentials
  BY BoundsAssumption DEF Stage, Credentials
<1> USE DEF TypeOK, HandsOver, Held, Target, ToRevoke, Holding, LockWait, Go, Staged, Early, server, ghost
<1>1. CASE StartLogin(p) \/ StartLogout(p) \/ Poll(p) \/ Deadline(p)
  BY <1>0, <1>1 DEF StartLogin, StartLogout, Poll, Deadline
<1>2. CASE CreateDeviceAuthorization(p)
  BY <1>0, <1>2 DEF CreateDeviceAuthorization
<1>3. CASE PollAnswered(p)
  <2>1. CASE Claims(p)
    <3>0. pc' = [pc EXCEPT ![p] = "lock"]
      BY <1>3, <2>1 DEF PollAnswered, Claims
    <3>1. pc'[p] = "lock" /\ cmd' = cmd /\ cmd[p] = "login"
      BY <1>0, <1>3, <3>0 DEF PollAnswered
    <3>2. p \in Held(p)' /\ Held(p) = {}
      BY <1>0, <1>3, <3>1 DEF PollAnswered
    <3>3. /\ file' = file /\ reported' = reported /\ lost' = lost
          /\ \A c \in Credentials \ {p} : cred'[c] = cred[c]
      BY <1>0, <1>3, <2>1 DEF PollAnswered, PollCLIDeviceAuthorization
    <3> HIDE DEF Held
    <3> QED BY <3>2, <3>3
  <2>2. CASE ~Claims(p)
    BY <1>0, <1>3, <2>2 DEF PollAnswered, PollCLIDeviceAuthorization
  <2> QED BY <2>1, <2>2
<1>4. CASE PollLost(p)
  BY <1>0, <1>4 DEF PollLost, PollCLIDeviceAuthorization
<1>5. CASE AcquireLock(p) \/ JudgeStale(p)
  BY <1>0, <1>5 DEF AcquireLock, JudgeStale
<1>6. CASE LockTimesOut(p) \/ UnlinkStale(p)
  BY <1>0, <1>6 DEF LockTimesOut, UnlinkStale, LockFailed
<1>7. CASE Compare(p)
  BY <1>0, <1>7 DEF Compare, Answer
<1>8. CASE Write(p)
  <2>1. /\ file' = Target(p) /\ lost' = lost \cup ({file} \ {previous[p], None})
        /\ UNCHANGED <<cred, reported>> /\ file \in Credentials \cup {None}
    BY <1>8 DEF Write, Overwritten
  <2>2. Held(p) = {Target(p)} \ {None}
    BY <1>8 DEF Write
  <2>3. Held(p)' = {previous[p]} \ {None}
    BY <1>8 DEF Write, Answer
  <2>4. None \notin Credentials
    BY BoundsAssumption DEF Credentials
  <2> HIDE DEF Held, Target
  <2> QED BY <2>1, <2>2, <2>3, <2>4
<1>9. CASE WriteFails(p)
  <2>1. /\ \/ UNCHANGED <<file, lost>>
           \/ lost' = lost \cup ({file} \ {previous[p], None}) \cup ({previous[p]} \ {None})
        /\ UNCHANGED <<cred, reported>>
    BY <1>9 DEF WriteFails, Overwritten
  <2>2. Held(p) = {Target(p)} \ {None}
    BY <1>9 DEF WriteFails
  <2>3. Held(p)' = {Target(p)} \ {None}
    BY <1>9 DEF WriteFails, Answer
  <2>4. None \notin Credentials
    BY BoundsAssumption DEF Credentials
  <2> HIDE DEF Held, Target
  <2> QED BY <2>1, <2>2, <2>3, <2>4
<1>10. CASE Unlock(p)
  BY <1>0, <1>10 DEF Unlock
<1>11. CASE Revoke(p)
  BY <1>0, <1>11 DEF Revoke, RevokeCurrent, CredRows
<1>12. CASE RevokeUnconfirmed(p)
  BY <1>0, <1>12 DEF RevokeUnconfirmed, RevokeCurrent, CredRows
<1>13. CASE Crash(p)
  BY <1>0, <1>13 DEF Crash
<1> QED BY <1>1, <1>2, <1>3, <1>4, <1>5, <1>6, <1>7, <1>8, <1>9, <1>10, <1>11, <1>12, <1>13
        DEF ProcessStep, Work

LEMMA LeakNext == TypeOK /\ Stage /\ NoSilentLeak /\ [Next]_vars => NoSilentLeak'
<1> SUFFICES ASSUME TypeOK, Stage, NoSilentLeak, [Next]_vars,
                    NEW c \in Credentials, cred'[c].status = "active"
             PROVE  Accounted(c)'
  BY DEF NoSilentLeak, Accounted
<1>1. cred[c].status = "active" => Accounted(c)
  BY DEF NoSilentLeak, Accounted
<1>2. ASSUME UNCHANGED <<client, ghost>>, cred[c].status = "active" PROVE Accounted(c)'
  BY <1>1, <1>2 DEF Accounted, Held, Target, ToRevoke, client, ghost
<1>3. CASE ServerStep
  <2>1. (\E u \in Users : RevokeAll(u)) \/ UNCHANGED cred
    BY <1>3 DEF ServerStep, Tick, Maintain, DisableUser, RevokeCLICredentials, Resolve, Decide
  <2>2. cred[c].status = "active"
    BY <2>1, RevokeAllEffect
  <2> QED BY <1>2, <1>3, <2>2, ServerEffect
<1>4. ASSUME NEW p \in Processes, ProcessStep(p) PROVE Accounted(c)'
  <2>1. HandsOver(p) /\ reported \cup lost \subseteq reported' \cup lost' /\ OthersKept(p)
    BY <1>4, CommandHandsOver, ProcessTypes
  <2>2. CASE cred[c].status # "active"
    BY <2>1, <2>2 DEF HandsOver, Accounted
  <2>3. CASE cred[c].status = "active" /\ (c = file \/ c \in Held(p))
    BY <2>1, <2>3 DEF HandsOver, Accounted
  <2>4. CASE c \in reported \cup lost
    BY <2>1, <2>4 DEF Accounted
  <2>5. CASE \E q \in Processes \ {p} : c \in Held(q)
    <3>1. PICK q \in Processes \ {p} : c \in Held(q)
      BY <2>5
    <3>2. c \in Held(q)'
      BY <2>1, <3>1, HeldByOthers
    <3> QED BY <3>2 DEF Accounted
  <2> QED BY <1>1, <2>2, <2>3, <2>4, <2>5 DEF Accounted
<1>5. CASE UNCHANGED vars
  BY <1>2, <1>5 DEF vars, server
<1> QED BY <1>3, <1>4, <1>5, StepCases

\* Every working credential is on disk, in the hands of a running command, or
\* was reported to the user, whatever the interleaving: only the faults and
\* the overwrite that the model names lose one.
THEOREM NoneLeaksSilently == Spec => []NoSilentLeak
<1>1. Init => NoSilentLeak
  BY DEF Init, NoSilentLeak
<1> QED BY <1>1, LeakNext, OrderCorrect, PTL DEF Spec

-----------------------------------------------------------------------------
(* Two commands                                                            *)

\* A command that is between the comparison and the release of its lock.
Locked == {"check", "write", "unlock"}
AtMostTwo == \A p, q, r \in Processes : p = q \/ q = r \/ p = r

\* With two commands the lock excludes: the one that judges a lock stale has
\* the dead owner as its only rival, so nobody can take the lock before it
\* is unlinked.
Exclusive ==
    \A p \in Processes :
        /\ pc[p] \in Locked => lock = p
        /\ pc[p] = "unlink" => \A q \in Processes \ {p} : pc[q] \in Ended
        /\ pc[p] = "write" => file = previous[p]

LEMMA ExclusiveStep ==
  ASSUME TypeOK, Exclusive, AtMostTwo, NEW p \in Processes, ProcessStep(p)
  PROVE  Exclusive' /\ (file' # file => pc[p] = "write" /\ pc'[p] # pc[p])
<1> USE DEF TypeOK, Exclusive, Locked, Ended, Go
<1>0. p # None
  BY BoundsAssumption
<1>1. CASE StartLogin(p) \/ StartLogout(p) \/ Poll(p) \/ Deadline(p) \/ CreateDeviceAuthorization(p)
  BY <1>1 DEF StartLogin, StartLogout, Poll, Deadline, CreateDeviceAuthorization
<1>2. CASE PollAnswered(p) \/ PollLost(p)
  BY <1>2 DEF PollAnswered, PollLost
<1>3. CASE AcquireLock(p)
  <2>1. \A q \in Processes : pc[q] \notin Locked /\ q # None
    BY <1>3, BoundsAssumption DEF AcquireLock
  <2>2. \A q \in Processes \ {p} : pc[q] # "unlink"
    BY <1>3 DEF AcquireLock
  <2>3. pc'[p] = "check" /\ lock' = p /\ file' = file /\ \A q \in Processes \ {p} : pc'[q] = pc[q]
    BY <1>3 DEF AcquireLock
  <2> QED BY <2>1, <2>2, <2>3
<1>4. CASE JudgeStale(p)
  BY <1>4 DEF JudgeStale, AtMostTwo
<1>5. CASE LockTimesOut(p) \/ UnlinkStale(p)
  BY <1>0, <1>5 DEF LockTimesOut, UnlinkStale, LockFailed
<1>6. CASE Compare(p)
  BY <1>6 DEF Compare, Answer
<1>7. CASE Write(p) \/ WriteFails(p)
  BY <1>0, <1>7 DEF Write, WriteFails, Answer
<1>8. CASE Unlock(p)
  BY <1>0, <1>8 DEF Unlock
<1>9. CASE Revoke(p) \/ RevokeUnconfirmed(p) \/ Crash(p)
  BY <1>9 DEF Revoke, RevokeUnconfirmed, Crash
<1> QED BY <1>1, <1>2, <1>3, <1>4, <1>5, <1>6, <1>7, <1>8, <1>9 DEF ProcessStep, Work

LEMMA ExclusiveNext ==
  TypeOK /\ Exclusive /\ AtMostTwo /\ [Next]_vars =>
    Exclusive' /\ (file' # file => \E p \in Processes : pc'[p] # pc[p] /\ previous[p] = file)
<1> SUFFICES ASSUME TypeOK, Exclusive, AtMostTwo, [Next]_vars
             PROVE  Exclusive' /\ (file' # file => \E p \in Processes : pc'[p] # pc[p] /\ previous[p] = file)
  OBVIOUS
<1>1. CASE UNCHANGED client
  BY <1>1 DEF Exclusive, client
<1>2. ASSUME NEW p \in Processes, ProcessStep(p)
      PROVE  Exclusive' /\ (file' # file => \E q \in Processes : pc'[q] # pc[q] /\ previous[q] = file)
  <2>1. Exclusive' /\ (file' # file => pc[p] = "write" /\ pc'[p] # pc[p])
    BY <1>2, ExclusiveStep
  <2>2. pc[p] = "write" => previous[p] = file
    BY DEF Exclusive
  <2> QED BY <2>1, <2>2
<1> QED BY <1>1, <1>2, StepCases, ServerEffect DEF vars

\* Two commands never overwrite one another's credential: every write replaces
\* the credential that its command read.  (Of three this is false; a run shows
\* the behaviour.)
THEOREM TwoNeverOverwrite == AtMostTwo /\ Spec => NoSilentOverwrite
<1> SUFFICES ASSUME AtMostTwo PROVE Spec => NoSilentOverwrite
  OBVIOUS
<1>1. Init => Exclusive
  BY DEF Init, Exclusive, Locked
<1>2. TypeOK /\ Exclusive /\ [Next]_vars => Exclusive'
  BY ExclusiveNext
<1>3. TypeOK /\ Exclusive /\ [Next]_vars =>
        [file' # file => \E p \in Processes : pc'[p] # pc[p] /\ previous[p] = file]_vars
  BY ExclusiveNext
<1> QED BY <1>1, <1>2, <1>3, OrderCorrect, PTL DEF Spec, NoSilentOverwrite
=============================================================================

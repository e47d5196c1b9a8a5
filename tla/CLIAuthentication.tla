-------------------------- MODULE CLIAuthentication --------------------------
(***************************************************************************)
(* Signing a machine in and out: the login and logout commands of the CLI  *)
(* (packages/application/src/cliAuthentication.ts), the credential file    *)
(* they share with its lock file (authenticationLayers.ts), and the device *)
(* authorizations, users and credentials of the Server                     *)
(* (internal/authentication/cli.go, users.go).                             *)
(*                                                                         *)
(* One Process is one run of a command; a login opens at most one device   *)
(* authorization and is issued at most one credential, so both are named   *)
(* by the process.  Earlier is the credential of a login of the past.      *)
(* A database transaction is one step; a filesystem call is one step.      *)
(***************************************************************************)
EXTENDS Naturals, FiniteSets

CONSTANTS
    Processes,    \* runs of the login and logout commands
    Users,        \* people with a web session
    Earlier,      \* the credential an earlier login may have left
    None,
    MaxFaults,    \* lost answers and failing filesystem calls
    MaxCrashes,   \* commands killed before they end
    MaxDisabled   \* users an operator disables

ASSUME BoundsAssumption ==
    /\ {MaxFaults, MaxCrashes, MaxDisabled} \subseteq Nat
    /\ Earlier \notin Processes
    /\ None \notin Processes \cup Users \cup {Earlier}

Credentials == Processes \cup {Earlier}

VARIABLES
    grant,     \* auth_cli_device_authorizations: status, reviewing and approving user
    clock,     \* 0: time to poll again, 1: the client's deadline, 2: expires_at
    cred,      \* auth_cli_credentials: user and status; cli_logout is a revocation by a command
    active,    \* the users that are not disabled
    file,      \* the credential in the credential file
    lock,      \* the process whose id is in the lock file
    pc, cmd,   \* where each command is, and which command it is
    previous,  \* the credential the command read before it did anything
    swap,      \* what the store answered to replace or remove
    reported,  \* credentials the user was told may need revoking by hand
    lost,      \* credentials that a fault or an overwrite hid from every command
    faults, crashes

server == <<grant, clock, cred, active>>
client == <<file, lock, pc, cmd, previous, swap>>
ghost  == <<reported, lost, faults, crashes>>
vars   == <<server, client, ghost>>

Ended    == {"done", "dead"}
LockWait == {"lock", "unlink"}
Holding  == LockWait \cup {"check", "write"}

GrantStates == {"none", "pending", "approved_unclaimed", "denied", "expired", "claimed"}
CredStates  == {"none", "active", "cli_logout", "revoked"}
Stages      == {"idle", "create", "poll", "sent", "unlock", "revoke"} \cup Holding \cup Ended
Answers     == {"none", "swapped", "conflict", "failed"}
GrantRows   == [status : GrantStates, review : Users \cup {None}, user : Users \cup {None}]
CredRows    == [status : CredStates, user : Users \cup {None}]

TypeOK ==
    /\ grant \in [Processes -> GrantRows]
    /\ clock \in [Processes -> 0..2]
    /\ cred \in [Credentials -> CredRows]
    /\ active \subseteq Users
    /\ file \in Credentials \cup {None}
    /\ lock \in Processes \cup {None}
    /\ pc \in [Processes -> Stages]
    /\ cmd \in [Processes -> {"login", "logout"}]
    /\ previous \in [Processes -> Credentials \cup {None}]
    /\ swap \in [Processes -> Answers]
    /\ reported \cup lost \subseteq Credentials
    /\ faults \in 0..MaxFaults
    /\ crashes \in 0..MaxCrashes

Init ==
    /\ grant = [p \in Processes |-> [status |-> "none", review |-> None, user |-> None]]
    /\ clock = [p \in Processes |-> 0]
    /\ active = Users
    /\ file \in {None, Earlier}
    /\ \E u \in Users : cred = [c \in Credentials |-> IF c = Earlier /\ c = file
                                                      THEN [status |-> "active", user |-> u]
                                                      ELSE [status |-> "none", user |-> None]]
    /\ lock = None
    /\ pc = [p \in Processes |-> "idle"]
    /\ cmd = [p \in Processes |-> "login"]
    /\ previous = [p \in Processes |-> None]
    /\ swap = [p \in Processes |-> "none"]
    /\ reported = {} /\ lost = {}
    /\ faults = 0 /\ crashes = 0

Fault == faults < MaxFaults /\ faults' = faults + 1
Go(p, at) == pc' = [pc EXCEPT ![p] = at]
SetGrant(p, s) == grant' = [grant EXCEPT ![p].status = s]

-----------------------------------------------------------------------------
(* The Server.                                                             *)

Undecided == {"pending", "approved_unclaimed"}
Due(p) == clock[p] = 2 /\ grant[p].status \in Undecided

(* Time, while it can still be told: the client's deadline is a poll delay  *)
(* ahead of the Server's.                                                   *)
Tick(p) ==
    /\ clock[p] < 2
    /\ grant[p].status \in Undecided \/ pc[p] \in {"poll", "sent"}
    /\ clock' = [clock EXCEPT ![p] = @ + 1]
    /\ UNCHANGED <<grant, cred, active, client, ghost>>

(* ResolveCLIDeviceAuthorization: the first web session that enters the     *)
(* user code is the only one that may decide.                              *)
Resolve(u, p) ==
    /\ u \in active
    /\ clock[p] < 2 /\ grant[p].status \in Undecided \cup {"denied"}
    /\ grant[p].review = None
    /\ grant' = [grant EXCEPT ![p].review = u]
    /\ UNCHANGED <<clock, cred, active, client, ghost>>

(* DecideCLIDeviceAuthorization; deciding again changes nothing.            *)
Decide(u, p) ==
    /\ u \in active
    /\ grant[p].review = u
    /\ \/ Due(p) /\ SetGrant(p, "expired")
       \/ /\ ~Due(p) /\ grant[p].status = "pending"
          /\ \E s \in {"approved_unclaimed", "denied"} :
                grant' = [grant EXCEPT ![p].status = s, ![p].user = u]
    /\ UNCHANGED <<clock, cred, active, client, ghost>>

(* Maintain: ExpireCLIAuthorizationBatch.                                   *)
Maintain(p) ==
    /\ Due(p)
    /\ SetGrant(p, "expired")
    /\ UNCHANGED <<clock, cred, active, client, ghost>>

(* DisableUser: approved authorizations expire and credentials are revoked  *)
(* with the user.                                                           *)
RevokeAll(u) ==
    cred' = [c \in Credentials |-> IF cred[c] = [status |-> "active", user |-> u]
                                   THEN [cred[c] EXCEPT !.status = "revoked"] ELSE cred[c]]

\* mutant: the credentials of a disabled user keep working
DisableUserKeepsCredentials(u) ==
    /\ u \in active /\ Cardinality(Users \ active) < MaxDisabled
    /\ active' = active \ {u}
    /\ UNCHANGED <<grant, clock, cred, client, ghost>>

DisableUser(u) ==
    /\ u \in active /\ Cardinality(Users \ active) < MaxDisabled
    /\ active' = active \ {u}
    /\ grant' = [p \in Processes |-> IF grant[p].status = "approved_unclaimed" /\ grant[p].user = u
                                     THEN [grant[p] EXCEPT !.status = "expired"] ELSE grant[p]]
    /\ RevokeAll(u)
    /\ UNCHANGED <<clock, client, ghost>>

(* RevokeCLICredentials from the web, all of a user's credentials.          *)
RevokeCLICredentials(u) ==
    /\ u \in active
    /\ \E c \in Credentials : cred[c] = [status |-> "active", user |-> u]
    /\ RevokeAll(u)
    /\ UNCHANGED <<grant, clock, active, client, ghost>>

(* RevokeCurrentCLICredential: idempotent.                                  *)
RevokeCurrent(c) ==
    cred' = IF cred[c].status = "active" THEN [cred EXCEPT ![c].status = "cli_logout"] ELSE cred

(* PollCLIDeviceAuthorization, one transaction over the authorization, its  *)
(* approving user and the credential.                                       *)
Claims(p) == grant[p].status = "approved_unclaimed" /\ ~Due(p) /\ grant[p].user \in active

PollCLIDeviceAuthorization(p) ==
    IF Claims(p)
    THEN /\ SetGrant(p, "claimed")
         /\ cred' = [cred EXCEPT ![p] = [status |-> "active", user |-> grant[p].user]]
    ELSE /\ IF grant[p].status = "approved_unclaimed" \/ Due(p)
            THEN SetGrant(p, "expired") ELSE UNCHANGED grant
         /\ UNCHANGED cred

-----------------------------------------------------------------------------
(* loginCLI up to the credential.                                          *)

(* The stored credential is read before anything is minted.                 *)
StartLogin(p) ==
    /\ pc[p] = "idle"
    /\ previous' = [previous EXCEPT ![p] = file]
    /\ Go(p, "create")
    /\ UNCHANGED <<server, file, lock, cmd, swap, ghost>>

(* createDeviceAuthorization; discovery, topology, an unsafe destination    *)
(* or a lost answer end the command, with or without an authorization.      *)
CreateDeviceAuthorization(p) ==
    /\ pc[p] = "create"
    /\ \/ SetGrant(p, "pending") /\ pc' \in {[pc EXCEPT ![p] = s] : s \in {"poll", "done"}}
       \/ UNCHANGED grant /\ Go(p, "done")
    /\ UNCHANGED <<clock, cred, active, file, lock, cmd, previous, swap, ghost>>

(* The poll loop: wait, ask again, until the deadline is a delay away.      *)
Poll(p) ==
    /\ pc[p] = "poll" /\ clock[p] = 0
    /\ Go(p, "sent")
    /\ UNCHANGED <<server, file, lock, cmd, previous, swap, ghost>>

\* mutant: a login that wakes up after expires_at does not see its deadline
DeadlineMissed(p) ==
    /\ pc[p] = "poll" /\ clock[p] = 1
    /\ Go(p, "done")
    /\ UNCHANGED <<server, file, lock, cmd, previous, swap, ghost>>

Deadline(p) ==
    /\ pc[p] = "poll" /\ clock[p] > 0
    /\ Go(p, "done")
    /\ UNCHANGED <<server, file, lock, cmd, previous, swap, ghost>>

(* The answer: pending and slow_down ask again, a credential is saved, any  *)
(* other answer ends the login.                                             *)
PollAnswered(p) ==
    /\ pc[p] = "sent"
    /\ PollCLIDeviceAuthorization(p)
    /\ Go(p, CASE Claims(p) -> "lock"
               [] grant[p].status = "pending" /\ ~Due(p) -> "poll"
               [] OTHER -> "done")
    /\ UNCHANGED <<clock, active, file, lock, cmd, previous, swap, ghost>>

(* The answer is lost, late or unreadable: transport and unavailable ask    *)
(* again, decode ends the login.                                            *)
PollLost(p) ==
    /\ pc[p] = "sent"
    /\ Fault
    /\ PollCLIDeviceAuthorization(p)
    /\ pc' \in {[pc EXCEPT ![p] = s] : s \in {"poll", "done"}}
    /\ lost' = IF Claims(p) THEN lost \cup {p} ELSE lost
    /\ UNCHANGED <<clock, active, file, lock, cmd, previous, swap, reported, crashes>>

(* logoutCLI: nothing to do when nothing is stored.                         *)
StartLogout(p) ==
    /\ pc[p] = "idle"
    /\ cmd' = [cmd EXCEPT ![p] = "logout"]
    /\ previous' = [previous EXCEPT ![p] = file]
    /\ Go(p, IF file = None THEN "done" ELSE "lock")
    /\ UNCHANGED <<server, file, lock, swap, ghost>>

-----------------------------------------------------------------------------
(* The credential store: replace and remove are one compare-and-swap under  *)
(* the lock file.                                                           *)

Target(p) == IF cmd[p] = "login" THEN p ELSE None

\* mutant: the old credential is revoked whether or not the new one was saved
ToRevokePrevious(p, a) == previous[p]

(* What is revoked once the store has answered a: the replaced or removed   *)
(* credential after a swap, the new one of a login that could not save it.  *)
ToRevoke(p, a) ==
    IF a = "swapped" THEN previous[p] ELSE IF cmd[p] = "login" THEN p ELSE None

Answer(p, a) ==
    /\ swap' = [swap EXCEPT ![p] = a]
    /\ Go(p, "unlock")

\* mutant: a login that cannot lock the store forgets its new credential
LockFailedForgets(p) ==
    /\ swap' = [swap EXCEPT ![p] = "failed"]
    /\ Go(p, "done")

LockFailed(p) ==
    /\ swap' = [swap EXCEPT ![p] = "failed"]
    /\ Go(p, IF ToRevoke(p, "failed") = None THEN "done" ELSE "revoke")

(* acquireCredentialLock: the exclusive create.                             *)
AcquireLock(p) ==
    /\ pc[p] = "lock" /\ lock = None
    /\ lock' = p
    /\ Go(p, "check")
    /\ UNCHANGED <<server, file, cmd, previous, swap, ghost>>

(* Five seconds of waiting are over, or the file vanished while it was      *)
(* looked at.                                                               *)
LockTimesOut(p) ==
    /\ pc[p] = "lock" /\ lock # None
    /\ LockFailed(p)
    /\ UNCHANGED <<server, file, lock, cmd, previous, ghost>>

(* staleLock: the process named in the file is gone.  The file is unlinked  *)
(* by a later call.                                                         *)
JudgeStale(p) ==
    /\ pc[p] = "lock" /\ lock # None
    /\ pc[lock] \in Ended
    /\ Go(p, "unlink")
    /\ UNCHANGED <<server, file, lock, cmd, previous, swap, ghost>>

UnlinkStale(p) ==
    /\ pc[p] = "unlink"
    /\ \/ lock # None /\ lock' = None /\ Go(p, "lock") /\ UNCHANGED swap
       \/ lock = None /\ LockFailed(p) /\ UNCHANGED lock
    /\ UNCHANGED <<server, file, cmd, previous, ghost>>

\* mutant: the write trusts the credential read before the lock
CompareNothing(p) ==
    /\ pc[p] = "check"
    /\ Go(p, "write")
    /\ UNCHANGED <<server, file, lock, cmd, previous, swap, ghost>>

(* Under the lock the file is read again and compared.                      *)
Compare(p) ==
    /\ pc[p] = "check"
    /\ IF file = previous[p] THEN Go(p, "write") /\ UNCHANGED swap ELSE Answer(p, "conflict")
    /\ UNCHANGED <<server, file, lock, cmd, previous, ghost>>

(* What the write replaces without the command knowing: another command     *)
(* wrote after the comparison, under a lock both believe they hold.         *)
Overwritten(p) == {file} \ {previous[p], None}

(* persistCredential renames a synced temporary file into place; remove     *)
(* unlinks the file.                                                        *)
Write(p) ==
    /\ pc[p] = "write"
    /\ file' = Target(p)
    /\ Answer(p, "swapped")
    /\ lost' = lost \cup Overwritten(p)
    /\ UNCHANGED <<server, lock, cmd, previous, reported, faults, crashes>>

(* The call fails before the rename or unlink, or in the directory sync     *)
(* after it; the store answers the same.                                    *)
WriteFails(p) ==
    /\ pc[p] = "write"
    /\ Fault
    /\ Answer(p, "failed")
    /\ \/ UNCHANGED <<file, lost>>
       \/ file' = Target(p) /\ lost' = lost \cup Overwritten(p) \cup ({previous[p]} \ {None})
    /\ UNCHANGED <<server, lock, cmd, previous, reported, crashes>>

(* The release removes whatever lock file is there.                         *)
Unlock(p) ==
    /\ pc[p] = "unlock"
    /\ lock' = None
    /\ Go(p, IF ToRevoke(p, swap[p]) = None THEN "done" ELSE "revoke")
    /\ UNCHANGED <<server, file, cmd, previous, swap, ghost>>

-----------------------------------------------------------------------------
(* revokeCredential, the last step of both commands; logout reads the file  *)
(* once more, to choose its message.                                        *)
Revoke(p) ==
    /\ pc[p] = "revoke"
    /\ RevokeCurrent(ToRevoke(p, swap[p]))
    /\ Go(p, "done")
    /\ UNCHANGED <<grant, clock, active, file, lock, cmd, previous, swap, ghost>>

(* It could not be confirmed: the command says so.                          *)
RevokeUnconfirmed(p) ==
    /\ pc[p] = "revoke"
    /\ Fault
    /\ RevokeCurrent(ToRevoke(p, swap[p])) \/ UNCHANGED cred
    /\ reported' = reported \cup {ToRevoke(p, swap[p])}
    /\ Go(p, "done")
    /\ UNCHANGED <<grant, clock, active, file, lock, cmd, previous, swap, lost, crashes>>

(* Credentials only this command still knows of.                            *)
Held(p) ==
    CASE pc[p] \in Holding            -> {Target(p)} \ {None}
      [] pc[p] \in {"unlock", "revoke"} -> {ToRevoke(p, swap[p])} \ {None}
      [] OTHER                        -> {}

(* The command is killed; its lock file stays.                              *)
Crash(p) ==
    /\ pc[p] \notin Ended \cup {"idle"} /\ crashes < MaxCrashes
    /\ crashes' = crashes + 1
    /\ lost' = lost \cup Held(p)
    /\ Go(p, "dead")
    /\ UNCHANGED <<server, file, lock, cmd, previous, swap, reported, faults>>

-----------------------------------------------------------------------------
Work(p) ==
    \/ CreateDeviceAuthorization(p)
    \/ Poll(p) \/ Deadline(p) \/ PollAnswered(p)
    \/ AcquireLock(p) \/ LockTimesOut(p) \/ JudgeStale(p) \/ UnlinkStale(p)
    \/ Compare(p) \/ Write(p) \/ Unlock(p) \/ Revoke(p)

ServerStep ==
    \/ \E p \in Processes : Tick(p) \/ Maintain(p)
    \/ \E u \in Users : DisableUser(u) \/ RevokeCLICredentials(u)
    \/ \E u \in Users, p \in Processes : Resolve(u, p) \/ Decide(u, p)

Next ==
    \/ ServerStep
    \/ \E p \in Processes :
          \/ StartLogin(p) \/ StartLogout(p) \/ Work(p)
          \/ PollLost(p) \/ WriteFails(p) \/ RevokeUnconfirmed(p) \/ Crash(p)

Spec == Init /\ [][Next]_vars

(* A running command takes its next step, and time passes.                  *)
FairSpec == Spec /\ \A p \in Processes : WF_vars(Work(p)) /\ WF_vars(Tick(p))

-----------------------------------------------------------------------------
(* Authority comes from a person: an authorization yields at most the one   *)
(* credential of its claim, of the user whose own session reviewed it, and  *)
(* no credential of a disabled user works (a poll racing the decision, the  *)
(* expiry or the disabling of the user).                                    *)
AuthorityApproved ==
    /\ \A p \in Processes :
          /\ cred[p].status # "none" <=> grant[p].status = "claimed"
          /\ cred[p].status # "none" => cred[p].user = grant[p].user /\ grant[p].user = grant[p].review
    /\ \A c \in Credentials : cred[c].status = "active" => cred[c].user \in active

(* Concurrent logins and logouts never leave on disk a credential that one  *)
(* of them has revoked, unless its login reported that it could not save.   *)
StoredNotRevoked ==
    file # None /\ cred[file].status = "cli_logout" =>
        file \in Processes /\ swap[file] = "failed"

(* Every working credential is on disk, in the hands of a running command,  *)
(* or was reported to the user; only a lost answer, a failed directory sync,*)
(* a killed command or the overwrite that NoSilentOverwrite rules out for   *)
(* two commands (and not for three) loses one: no other interleaving does.  *)
NoSilentLeak ==
    \A c \in Credentials : cred[c].status = "active" =>
        c = file \/ c \in reported \cup lost \/ \E p \in Processes : c \in Held(p)

(* "Replacement and removal are compare-and-swap operations so concurrent   *)
(* login/logout processes cannot silently overwrite one another's           *)
(* authority": a write replaces the credential its command read.            *)
NoSilentOverwrite ==
    [][file' # file => \E p \in Processes : pc'[p] # pc[p] /\ previous[p] = file]_vars

(* Every command ends: an authorization nobody decides runs into the        *)
(* deadline, a lock left behind is removed or waited out.                   *)
CommandsEnd == \A p \in Processes : pc[p] # "idle" ~> pc[p] \in Ended
=============================================================================

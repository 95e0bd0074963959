----------------------------- MODULE ControlHost -----------------------------
(***************************************************************************)
(* The host of the control plane: the commands of deployer-server.         *)
(* `bootstrap server` and `bootstrap admin` create the environment file    *)
(* and admin tokens, `serve` runs the server, `backup create` and `backup  *)
(* restore` copy the database out and in.  Processes may overlap, be       *)
(* killed at any step, and the host may lose power.  One bootstrap runs    *)
(* at a time.                                                              *)
(***************************************************************************)
EXTENDS HostFiles

CONSTANTS
    Processes,                              \* process slots of the host
    MaxKeys, MaxTokens, MaxIds, MaxWrites   \* bounds on what is minted

VARIABLES
    commands,   \* the commands the operator issues in this behaviour
    disk,       \* the files: environment, database, identity, backup
    procs,      \* the running commands
    minted,     \* keys, tokens, identities and rows generated so far
    printed,    \* admin tokens the operator was shown
    told,       \* the identity last reported to a client, 0 for none
    announced   \* the backup the operator was told exists

controlVars == << commands, disk, procs, minted, printed, told, announced >>

Files == {"env", "db", "identity", "artifact"}

\* DEPLOYER_SECRET_KEY and DEPLOYER_TOKEN_HASH_KEY are generated together.
Env(key) == [kind |-> "env", key |-> key]
Database(rows) == [kind |-> "db", rows |-> rows]
Identity(id) == [kind |-> "identity", id |-> id]
TokenRow(token, key) == [token |-> token, key |-> key]
WriteRow(n) == [write |-> n]

Rows == disk["db"].now.rows

Idle == [cmd |-> "none", step |-> "none", key |-> 0, id |-> 0, token |-> 0,
         data |-> Absent, force |-> FALSE, calling |-> "no"]

\* LoadServer.  Of a torn environment file Validate may still accept a hash
\* key that was cut short (0); otherwise the command is refused.
LoadedKeys ==
    CASE disk["env"].now.kind = "env" -> {disk["env"].now.key}
      [] disk["env"].now.kind = "torn" -> {0}
      [] OTHER -> {}

Bootstraps == {"bootstrap server", "bootstrap admin"}
NoBootstrap == \A p \in Processes : procs[p].cmd \notin Bootstraps

Issue(p, cmd) == procs[p] = Idle /\ cmd \in commands
Become(p, process) == procs' = [procs EXCEPT ![p] = process]
Step(p, step) == Become(p, [procs[p] EXCEPT !.step = step])
Exit(p) == Become(p, Idle)
At(p, cmd, step) == procs[p].cmd = cmd /\ procs[p].step = step

\* A committed SQLite transaction survives a power loss.  Deleting the
\* rollback journal syncs the database's directory, which also holds the
\* identity file.
Commit(rows) ==
    disk' = [disk EXCEPT !["db"] = Clean(Database(rows)),
                         !["identity"] = Clean(disk["identity"].now)]

Installing == Bootstraps
\* What runs beside what on an installed host.
Operating ==
    { {"serve", "bootstrap admin"},
      {"serve", "backup create", "backup restore"},
      {"bootstrap admin", "backup create", "backup restore"} }

\* A new host, or one on which `bootstrap server` has completed.
ControlInit ==
    /\ \/ /\ commands = Installing
          /\ disk = [f \in Files |-> Clean(Absent)]
          /\ minted = [key |-> 0, token |-> 0, id |-> 0, write |-> 0]
          /\ printed = {}
       \/ /\ commands \in Operating
          /\ disk = [f \in Files |-> Clean(
                       CASE f = "env" -> Env(1)
                         [] f = "db" -> Database({TokenRow(1, 1)})
                         [] OTHER -> Absent)]
          /\ minted = [key |-> 1, token |-> 1, id |-> 0, write |-> 0]
          /\ printed = {TokenRow(1, 1)}
    /\ procs = [p \in Processes |-> Idle]
    /\ told = 0
    /\ announced = Absent

-----------------------------------------------------------------------------
(* bootstrap server, bootstrap admin *)

\* runServerBootstrap up to db.Open: without --force an environment file in
\* place is refused, whatever it holds.
BootstrapServer(p, force) ==
    /\ Issue(p, "bootstrap server")
    /\ NoBootstrap
    /\ force \/ ~Exists(disk["env"])
    /\ minted.key < MaxKeys
    /\ minted' = [minted EXCEPT !.key = @ + 1]
    /\ Become(p, [Idle EXCEPT !.cmd = "bootstrap server", !.step = "open",
                              !.key = minted.key + 1, !.force = force])
    /\ UNCHANGED << disk, printed, told, announced >>

\* bootstrapAdmin: the hash key is the one in the environment file.
BootstrapAdmin(p) ==
    /\ Issue(p, "bootstrap admin")
    /\ NoBootstrap
    /\ \E key \in LoadedKeys :
           Become(p, [Idle EXCEPT !.cmd = "bootstrap admin", !.step = "open",
                                  !.key = key])
    /\ UNCHANGED << disk, minted, printed, told, announced >>

AfterOpen(cmd) ==
    CASE cmd = "bootstrap server" -> "truncate"
      [] cmd = "bootstrap admin" -> "token"
      [] cmd = "serve" -> "identity"

\* db.Open creates the database where there is none, and migrates it.
OpenDatabase(p) ==
    /\ procs[p].step = "open"
    /\ Commit(IF Exists(disk["db"]) THEN Rows ELSE {})
    /\ Step(p, AfterOpen(procs[p].cmd))
    /\ UNCHANGED << minted, printed, told, announced >>

TruncateEnv(p) ==
    /\ At(p, "bootstrap server", "truncate")
    /\ disk' = [disk EXCEPT !["env"] = Truncate(@)]
    /\ Step(p, "write")
    /\ UNCHANGED << minted, printed, told, announced >>

\* renderServerEnv and the rest of os.WriteFile.
WriteEnv(p) ==
    /\ At(p, "bootstrap server", "write")
    /\ disk' = [disk EXCEPT !["env"] = WriteFile(@, Env(procs[p].key))]
    /\ Step(p, "token")
    /\ UNCHANGED << minted, printed, told, announced >>

\* Mutant of CreateToken: the token is shown although its row is not stored.
CreateTokenUnchecked(p) ==
    /\ procs[p].step = "token"
    /\ minted.token < MaxTokens
    /\ minted' = [minted EXCEPT !.token = @ + 1]
    /\ \/ Commit(Rows \cup {TokenRow(minted.token + 1, procs[p].key)})
       \/ UNCHANGED disk
    /\ Become(p, [procs[p] EXCEPT !.step = "print",
                                  !.token = minted.token + 1])
    /\ UNCHANGED << printed, told, announced >>

\* BootstrapAdminToken: the hash is stored before the token is returned.
CreateToken(p) ==
    /\ procs[p].step = "token"
    /\ minted.token < MaxTokens
    /\ minted' = [minted EXCEPT !.token = @ + 1]
    /\ Commit(Rows \cup {TokenRow(minted.token + 1, procs[p].key)})
    /\ Become(p, [procs[p] EXCEPT !.step = "print",
                                  !.token = minted.token + 1])
    /\ UNCHANGED << printed, told, announced >>

PrintToken(p) ==
    /\ procs[p].step = "print"
    /\ printed' = printed \cup {TokenRow(procs[p].token, procs[p].key)}
    /\ Exit(p)
    /\ UNCHANGED << disk, minted, told, announced >>

-----------------------------------------------------------------------------
(* backup create, backup restore *)

\* Create up to the snapshot: the database is a file, the output is not.
BackupCreate(p) ==
    /\ Issue(p, "backup create")
    /\ Exists(disk["db"])
    /\ ~Exists(disk["artifact"])
    /\ Become(p, [Idle EXCEPT !.cmd = "backup create", !.step = "snapshot"])
    /\ UNCHANGED << disk, minted, printed, told, announced >>

\* VACUUM INTO reads one committed state, whatever a server writes meanwhile.
Snapshot(p) ==
    /\ At(p, "backup create", "snapshot")
    /\ Become(p, [procs[p] EXCEPT !.step = "publish", !.data = disk["db"].now])
    /\ UNCHANGED << disk, minted, printed, told, announced >>

\* Mutant of PublishArtifact: the sealed file is not synced before its name
\* is made.
PublishArtifactUnsynced(p) ==
    /\ At(p, "backup create", "publish")
    /\ IF CanLink(disk["artifact"])
       THEN /\ disk' = [disk EXCEPT !["artifact"] =
                            WriteFile(@, procs[p].data)]
            /\ announced' = procs[p].data
       ELSE UNCHANGED << disk, announced >>
    /\ Exit(p)
    /\ UNCHANGED << minted, printed, told >>

\* writeArtifact, and the line "backup created".
PublishArtifact(p) ==
    /\ At(p, "backup create", "publish")
    /\ IF CanLink(disk["artifact"])
       THEN /\ disk' = [disk EXCEPT !["artifact"] = Link(@, procs[p].data)]
            /\ announced' = procs[p].data
       ELSE UNCHANGED << disk, announced >>
    /\ Exit(p)
    /\ UNCHANGED << minted, printed, told >>

BackupRestore(p) ==
    /\ Issue(p, "backup restore")
    /\ ~Exists(disk["db"])
    /\ Become(p, [Idle EXCEPT !.cmd = "backup restore", !.step = "read"])
    /\ UNCHANGED << disk, minted, printed, told, announced >>

\* readBoundedFile, decrypt and the integrity check of the temporary copy:
\* only a whole artifact passes.
ReadArtifact(p) ==
    /\ At(p, "backup restore", "read")
    /\ IF disk["artifact"].now.kind = "db"
       THEN Become(p, [procs[p] EXCEPT !.step = "publish",
                                       !.data = disk["artifact"].now])
       ELSE Exit(p)
    /\ UNCHANGED << disk, minted, printed, told, announced >>

\* Mutant of PublishDatabase: os.Rename in place of os.Link.
PublishDatabaseOver(p) ==
    /\ At(p, "backup restore", "publish")
    /\ disk' = [disk EXCEPT !["db"] = Rename(@, procs[p].data)]
    /\ Exit(p)
    /\ UNCHANGED << minted, printed, told, announced >>

PublishDatabase(p) ==
    /\ At(p, "backup restore", "publish")
    /\ IF CanLink(disk["db"])
       THEN disk' = [disk EXCEPT !["db"] = Link(@, procs[p].data)]
       ELSE UNCHANGED disk
    /\ Exit(p)
    /\ UNCHANGED << minted, printed, told, announced >>

-----------------------------------------------------------------------------
(* serve *)

Serve(p) ==
    /\ Issue(p, "serve")
    /\ \E key \in LoadedKeys :
           Become(p, [Idle EXCEPT !.cmd = "serve", !.step = "open",
                                  !.key = key])
    /\ UNCHANGED << disk, minted, printed, told, announced >>

\* loadOrCreateIdentityFile: read the file, or generate a value for it.
LoadIdentity(p) ==
    /\ At(p, "serve", "identity")
    /\ IF Exists(disk["identity"])
       THEN /\ Become(p, [procs[p] EXCEPT !.step = "listen",
                                          !.id = disk["identity"].now.id])
            /\ UNCHANGED minted
       ELSE /\ minted.id < MaxIds
            /\ minted' = [minted EXCEPT !.id = @ + 1]
            /\ Become(p, [procs[p] EXCEPT !.step = "publish identity",
                                          !.id = minted.id + 1])
    /\ UNCHANGED << disk, printed, told, announced >>

\* Mutant of PublishIdentity: os.Rename in place of os.Link.
PublishIdentityOver(p) ==
    /\ At(p, "serve", "publish identity")
    /\ disk' = [disk EXCEPT !["identity"] = Rename(@, Identity(procs[p].id))]
    /\ Step(p, "listen")
    /\ UNCHANGED << minted, printed, told, announced >>

\* The temporary file is linked; if another server was first, its value is
\* loaded instead.
PublishIdentity(p) ==
    /\ At(p, "serve", "publish identity")
    /\ IF CanLink(disk["identity"])
       THEN /\ disk' = [disk EXCEPT !["identity"] =
                            Link(@, Identity(procs[p].id))]
            /\ Step(p, "listen")
       ELSE /\ Step(p, "identity")
            /\ UNCHANGED disk
    /\ UNCHANGED << minted, printed, told, announced >>

Listening(p) == procs[p].step \in {"serving", "signalled", "draining"}

\* restoreHubPeers, then net.Listen: the address may be in use.
Listen(p) ==
    /\ At(p, "serve", "listen")
    /\ IF \E q \in Processes : Listening(q) THEN Exit(p)
                                           ELSE Step(p, "serving")
    /\ UNCHANGED << disk, minted, printed, told, announced >>

\* A call is authenticated: the token's hash under the server's key is found
\* and its use recorded.  Until GracefulStop the listener takes calls.
AcceptCall(p, kind) ==
    /\ procs[p].step \in {"serving", "signalled"}
    /\ procs[p].calling = "no"
    /\ \E t \in 1..MaxTokens : TokenRow(t, procs[p].key) \in Rows
    /\ Commit(Rows)
    /\ Become(p, [procs[p] EXCEPT !.calling = kind])
    /\ UNCHANGED << minted, printed, told, announced >>

\* GetStatus reports the identity.
AnswerStatus(p) ==
    /\ procs[p].calling = "unary"
    /\ told' = procs[p].id
    /\ Become(p, [procs[p] EXCEPT !.calling = "no"])
    /\ UNCHANGED << disk, minted, printed, announced >>

\* Any other call commits a row.
AnswerWrite(p) ==
    /\ procs[p].calling = "unary"
    /\ minted.write < MaxWrites
    /\ minted' = [minted EXCEPT !.write = @ + 1]
    /\ Commit(Rows \cup {WriteRow(minted.write + 1)})
    /\ Become(p, [procs[p] EXCEPT !.calling = "no"])
    /\ UNCHANGED << printed, told, announced >>

\* The client of WatchEvents or StreamLogs goes away; nothing else ends them.
LeaveStream(p) ==
    /\ procs[p].calling = "stream"
    /\ Become(p, [procs[p] EXCEPT !.calling = "no"])
    /\ UNCHANGED << disk, minted, printed, told, announced >>

\* SIGTERM: the health server is shut down first.
Signal(p) ==
    /\ procs[p].step = "serving"
    /\ Step(p, "signalled")
    /\ UNCHANGED << disk, minted, printed, told, announced >>

\* Mutant of GracefulStop: the listener stays open until no call is running.
GracefulStopListening(p) ==
    /\ procs[p].step = "signalled"
    /\ procs[p].calling = "no"
    /\ Step(p, "draining")
    /\ UNCHANGED << disk, minted, printed, told, announced >>

\* No new calls; Serve returns, and the database is closed, when the accepted
\* ones have ended.
GracefulStop(p) ==
    /\ procs[p].step = "signalled"
    /\ Step(p, "draining")
    /\ UNCHANGED << disk, minted, printed, told, announced >>

Close(p) ==
    /\ procs[p].step = "draining"
    /\ procs[p].calling = "no"
    /\ Exit(p)
    /\ UNCHANGED << disk, minted, printed, told, announced >>

-----------------------------------------------------------------------------
(* Faults, and what the operator does by hand *)

\* A command fails or is killed between two steps.  A listener that fails
\* takes the same path: Stop drops the accepted calls.
Kill(p) ==
    /\ procs[p] # Idle
    /\ Exit(p)
    /\ UNCHANGED << disk, minted, printed, told, announced >>

PowerLoss ==
    /\ \E env \in AfterPowerLoss(disk["env"]),
          db \in AfterPowerLoss(disk["db"]),
          identity \in AfterPowerLoss(disk["identity"]),
          artifact \in AfterPowerLoss(disk["artifact"]) :
           disk' = [disk EXCEPT !["env"] = env, !["db"] = db,
                        !["identity"] = identity, !["artifact"] = artifact]
    /\ disk' # disk \/ \E p \in Processes : procs[p] # Idle
    /\ procs' = [p \in Processes |-> Idle]
    /\ UNCHANGED << minted, printed, told, announced >>

\* The database is lost, or moved away before a restore, with or without the
\* identity file next to it; nothing runs.
LoseDatabase(identityToo) ==
    /\ "backup restore" \in commands
    /\ \A p \in Processes : procs[p] = Idle
    /\ Exists(disk["db"])
    /\ disk' = [disk EXCEPT
           !["db"] = Clean(Absent),
           !["identity"] = IF identityToo THEN Clean(Absent) ELSE @]
    /\ printed' = {}
    /\ told' = IF identityToo THEN 0 ELSE told
    /\ UNCHANGED << procs, minted, announced >>

ControlStep(p) ==
    \/ \E force \in BOOLEAN : BootstrapServer(p, force)
    \/ BootstrapAdmin(p) \/ OpenDatabase(p) \/ TruncateEnv(p) \/ WriteEnv(p)
    \/ CreateToken(p) \/ PrintToken(p)
    \/ BackupCreate(p) \/ Snapshot(p) \/ PublishArtifact(p)
    \/ BackupRestore(p) \/ ReadArtifact(p) \/ PublishDatabase(p)
    \/ Serve(p) \/ LoadIdentity(p) \/ PublishIdentity(p) \/ Listen(p)
    \/ \E kind \in {"unary", "stream"} : AcceptCall(p, kind)
    \/ AnswerStatus(p) \/ AnswerWrite(p) \/ LeaveStream(p)
    \/ Signal(p) \/ GracefulStop(p) \/ Close(p) \/ Kill(p)

ControlNext ==
    /\ \/ \E p \in Processes : ControlStep(p)
       \/ PowerLoss
       \/ \E identityToo \in BOOLEAN : LoseDatabase(identityToo)
    /\ UNCHANGED commands

\* The server's own steps are scheduled, and a unary call ends: each has a
\* deadline of ten seconds on the client and bounded work on the server.
ControlFairness ==
    \A p \in Processes :
        /\ WF_controlVars((AnswerStatus(p) \/ Close(p)) /\ UNCHANGED commands)
        /\ WF_controlVars(GracefulStop(p) /\ UNCHANGED commands)

-----------------------------------------------------------------------------
(* Properties *)

Replaced(f) ==
    /\ Exists(disk[f])
    /\ disk'[f].now # disk[f].now
    /\ f = "db" => ~(disk'["db"].now.kind = "db"
                     /\ Rows \subseteq disk'["db"].now.rows)

\* No command takes away what another one stored: a restore, a backup, an
\* identity or a plain bootstrap never replaces a file that exists, also when
\* it appeared after the command looked, and committed rows stay in the
\* database.  Only bootstrap --force, the operator and a power loss do.
NothingReplaced ==
    [][ \A f \in Files : Replaced(f) =>
          \/ PowerLoss
          \/ \E identityToo \in BOOLEAN : LoseDatabase(identityToo)
          \/ /\ f = "env"
             /\ \E p \in Processes :
                   \/ At(p, "bootstrap server", "truncate") /\ procs[p].force
                   \/ At(p, "bootstrap server", "write") ]_controlVars

\* A backup under its final name is whole, and is the snapshot that was last
\* announced: of two creates for one output one publishes, and no power loss
\* leaves a torn artifact.
BackupIsWhole ==
    Exists(disk["artifact"]) => disk["artifact"].now = announced

\* The identity a client was told is the one in the identity file, so every
\* later server reports it: the link is made before the server listens, and
\* the commit that records the client's token makes it durable.
IdentityStable == told # 0 => disk["identity"].now = Identity(told)

\* A token that was printed is accepted by a server that runs with the
\* environment file it was printed for, whatever was killed, restored or
\* switched off since, unless the database was lost.
PrintedTokenWorks ==
    \A t \in printed :
        disk["env"].now = Env(t.key) => Exists(disk["db"]) /\ t \in Rows

\* A server that is told to stop exits once its calls have ended; only a
\* client that stays on a stream can hold it.
StopConcludes ==
    \A p \in Processes :
        procs[p].step = "signalled"
            ~> (procs[p] = Idle \/ procs[p].calling = "stream")
=============================================================================

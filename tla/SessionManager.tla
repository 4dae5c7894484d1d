--------------------------- MODULE SessionManager ---------------------------
(***************************************************************************)
(* The Telethon session and the file it lives in: SessionManager           *)
(* (shared/telegram/session_manager.py) in the process of one container,   *)
(* and the bootstrap CLI (shared/telegram/bootstrap.py), which writes the  *)
(* same file from another container, also while the process is up: that is *)
(* the documented order (run the CLI or copy a new file in, then restart). *)
(*                                                                         *)
(* A session is <<login, version>>: the login Telegram issued, and how     *)
(* often Telethon changed its server data since.  Encryption is a          *)
(* bijection between sessions and complete blobs; what a truncated file    *)
(* holds does not decrypt.  write_bytes blocks the event loop, so it is    *)
(* atomic for the coroutines of its process, but not for a SIGKILL nor for *)
(* the other container: it truncates the file and then fills it.  Of two   *)
(* writers at work at the same time the last one to fill it wins, the      *)
(* blobs having one length (an IPv4 data centre in the StringSession).     *)
(***************************************************************************)
EXTENDS Naturals

CONSTANTS MaxLogins,   \* bound: sessions Telegram issues
          MaxVersions, \* bound: changes of the server data of one session
          MaxKills,    \* bound: SIGKILLs and crashes, of either process
          MaxIOFails   \* bound: file operations that raise OSError

ASSUME SessionAssumption ==
    MaxLogins \in Nat \ {0} /\ MaxVersions \in Nat
    /\ MaxKills \in Nat /\ MaxIOFails \in Nat

VARIABLES file,     \* the .session.enc file: Absent, Torn or a session
          stage,    \* where the process is in connect() / disconnect()
          client,   \* the session held by _client, or NoClient
          writer,   \* _writer_task: "none", "sleeping" or "dead" (it raised)
          marker,   \* the alive marker on the container's tmpfs
          boot,     \* the bootstrap CLI: "idle", "login" or "writing"
          issued,   \* logins issued so far
          revoked,  \* logins Telegram does not accept any more
          saved,    \* history: the last session written completely
          overtaken, \* history: the CLI wrote since the process read the file
          kills, iofails

vars == <<file, stage, client, writer, marker, boot, issued, revoked, saved,
          overtaken, kills, iofails>>

managerVars == <<stage, client, writer, marker>>
fileVars    == <<file, saved>>
bootVars    == <<boot, overtaken>>
serverVars  == <<issued, revoked>>

Absent   == <<0>>
Torn     == <<>>
NoClient == <<>>
Session  == (1..MaxLogins) \X (0..MaxVersions)

\* b does not go back behind a: a later login, or no older server data.
NotOlder(b, a) == b[1] > a[1] \/ (b[1] = a[1] /\ b[2] >= a[2])

\* Stages in which the MTProto connection is open.
Connected == {"checking", "alive", "writing", "final", "closing"}
\* Stages in which the process holds the file open for writing.
Writing == {"writing", "final"}
\* Stages at which connect() or disconnect() has returned or raised for good.
Over == {"failed", "closed", "raised", "writerRaised"}

Init ==
    /\ file = Absent /\ saved = Absent
    /\ stage = "off" /\ client = NoClient /\ writer = "none" /\ marker = FALSE
    /\ boot = "idle" /\ issued = 0 /\ revoked = {} /\ overtaken = FALSE
    /\ kills = 0 /\ iofails = 0

IOFail == iofails < MaxIOFails /\ iofails' = iofails + 1
Killed == kills < MaxKills /\ kills' = kills + 1
NoFault == UNCHANGED <<kills, iofails>>

\* An OSError of touch() is only logged; unlink() of no file is no error.
MarkAlive == marker' \in {TRUE, marker}
MarkDead  == marker' = FALSE

\* What docker's healthcheck sees in the container of a running process.
SessionAlive == stage # "off" /\ marker

Truncate == file' = Torn /\ UNCHANGED saved
Fill(s)  == file' = s /\ saved' = s

-----------------------------------------------------------------------------
(* The container and connect() *)

\* Mutant: the marker lives on a disk that survives the restart.
StartOverMarker ==
    /\ stage = "off"
    /\ stage' = "new"
    /\ UNCHANGED <<client, writer, marker, fileVars, bootVars, serverVars>> /\ NoFault

\* A new process, a new SessionManager, an empty tmpfs.  docker starts it
\* whenever the last one is over, also while a bootstrap is going on.
ContainerStart ==
    /\ stage = "off"
    /\ stage' = "new" /\ marker' = FALSE
    /\ UNCHANGED <<client, writer, fileVars, bootVars, serverVars>> /\ NoFault

\* Mutant: what does not decrypt is taken for an empty session.
ReadAnything ==
    /\ stage = "new"
    /\ client' = file /\ stage' = "dialing" /\ overtaken' = FALSE
    /\ UNCHANGED <<writer, marker, fileVars, boot, serverVars>> /\ NoFault

\* Mutant: where the file does not decrypt, a copy kept at the first login does.
ReadCopy ==
    /\ stage = "new"
    /\ client' = (IF file \in Session THEN file ELSE <<1, 0>>)
    /\ stage' = "dialing" /\ overtaken' = FALSE
    /\ UNCHANGED <<writer, marker, fileVars, boot, serverVars>> /\ NoFault

\* read_bytes, decrypt, StringSession, TelegramClient.  A missing file raises
\* FileNotFoundError, a torn one InvalidToken, before _client is set.
ReadSession ==
    /\ stage = "new"
    /\ \/ file \in Session /\ client' = file /\ stage' = "dialing"
       \/ file \notin Session /\ client' = client /\ stage' = "failed"
    /\ overtaken' = FALSE
    /\ UNCHANGED <<writer, marker, fileVars, boot, serverVars>> /\ NoFault

\* await client.connect(): a network error leaves _client set.
Dial ==
    /\ stage = "dialing"
    /\ stage' \in {"checking", "failed"}
    /\ UNCHANGED <<client, writer, marker, fileVars, bootVars, serverVars>> /\ NoFault

\* is_user_authorized() says yes: start the writer, touch the marker.
\* It says no for a revoked login, and the request may raise.
CheckAuthorized ==
    /\ stage = "checking"
    /\ \/ /\ client[1] \notin revoked
          /\ stage' = "alive" /\ writer' = "sleeping" /\ MarkAlive
       \/ stage' = "refused" /\ UNCHANGED <<writer, marker>>
    /\ UNCHANGED <<client, fileVars, bootVars, serverVars>> /\ NoFault

\* The except branch: close the socket (which may raise itself), drop the
\* client, raise.
CloseRefused ==
    /\ stage = "refused"
    /\ stage' = "failed" /\ client' \in {NoClient, client}
    /\ UNCHANGED <<writer, marker, fileVars, bootVars, serverVars>> /\ NoFault

-----------------------------------------------------------------------------
(* The writer loop *)

\* Telethon changes the server data of the session it holds.
TelegramUpdates ==
    /\ stage \in Connected \ Writing
    /\ client[2] < MaxVersions
    /\ client' = <<client[1], client[2] + 1>>
    /\ UNCHANGED <<stage, writer, marker, fileVars, bootVars, serverVars>> /\ NoFault

\* After 30 s the writer saves: the file is opened and truncated ...
WriterWakes ==
    /\ stage = "alive" /\ writer = "sleeping"
    /\ Truncate /\ stage' = "writing"
    /\ UNCHANGED <<client, writer, marker, bootVars, serverVars>> /\ NoFault

\* Mutant: the loop ends after its first save.
WriteOnce ==
    /\ stage = "writing"
    /\ Fill(client) /\ stage' = "alive" /\ writer' = "none"
    /\ UNCHANGED <<client, marker, bootVars, serverVars>> /\ NoFault

\* ... and filled.
WriteDone ==
    /\ stage = "writing"
    /\ Fill(client) /\ stage' = "alive"
    /\ UNCHANGED <<client, writer, marker, bootVars, serverVars>> /\ NoFault

\* Either call raises OSError: nobody catches it, the task ends, and nothing
\* looks at it before disconnect().
WriterFails ==
    /\ \/ stage = "alive" /\ writer = "sleeping"
       \/ stage = "writing"
    /\ IOFail
    /\ stage' = "alive" /\ writer' = "dead"
    /\ UNCHANGED <<client, marker, fileVars, bootVars, serverVars, kills>>

-----------------------------------------------------------------------------
(* disconnect() *)

\* Before connect(), or after a connect() that left no client: a no-op.
DisconnectIdle ==
    /\ stage \in {"new", "failed"} /\ client = NoClient
    /\ stage' = "closed"
    /\ UNCHANGED <<client, writer, marker, fileVars, bootVars, serverVars>> /\ NoFault

\* The writer sleeps (it has no other await): it is cancelled, and the final
\* save begins; or open() raises at once.
Disconnect ==
    /\ \/ stage = "alive" /\ writer = "sleeping"
       \/ stage = "failed" /\ client # NoClient
    /\ writer' = "none"
    /\ \/ Truncate /\ stage' = "final" /\ NoFault
       \/ IOFail /\ stage' = "raised" /\ UNCHANGED <<fileVars, kills>>
    /\ UNCHANGED <<client, marker, bootVars, serverVars>>

\* await self._writer_task raises what the dead writer raised; suppress()
\* lets only CancelledError pass: no save, no close, no _mark_dead().
DisconnectRaises ==
    /\ stage = "alive" /\ writer = "dead"
    /\ stage' = "writerRaised"
    /\ UNCHANGED <<client, writer, marker, fileVars, bootVars, serverVars>> /\ NoFault

\* Mutant: the process goes on before the final save is filled in.
FinalNotAwaited ==
    /\ stage = "final"
    /\ stage' = "closing" /\ UNCHANGED <<fileVars, kills, iofails>>
    /\ UNCHANGED <<client, writer, marker, bootVars, serverVars>>

\* Mutant: the final save writes what connect() decrypted.
FinalSaveStale ==
    /\ stage = "final"
    /\ Fill(<<client[1], 0>>) /\ stage' = "closing"
    /\ UNCHANGED <<client, writer, marker, bootVars, serverVars>> /\ NoFault

\* The final save, blocking; OSError leaves disconnect().
FinalSave ==
    /\ stage = "final"
    /\ \/ Fill(client) /\ stage' = "closing" /\ NoFault
       \/ IOFail /\ stage' = "raised" /\ UNCHANGED <<fileVars, kills>>
    /\ UNCHANGED <<client, writer, marker, bootVars, serverVars>>

\* await client.disconnect(), which may raise; then _mark_dead().
ClientClosed ==
    /\ stage = "closing"
    /\ \/ stage' = "closed" /\ client' = NoClient /\ MarkDead
       \/ stage' = "raised" /\ UNCHANGED <<client, marker>>
    /\ UNCHANGED <<writer, fileVars, bootVars, serverVars>> /\ NoFault

\* The process ends; what is on the volume and the stopped container stays.
Exit ==
    /\ stage \in Over
    /\ stage' = "off" /\ client' = NoClient /\ writer' = "none"
    /\ UNCHANGED <<marker, fileVars, bootVars, serverVars>> /\ NoFault

Die ==
    /\ stage # "off"
    /\ stage' = "off" /\ client' = NoClient /\ writer' = "none"
    /\ UNCHANGED <<marker, fileVars, bootVars, serverVars>>

Kill == Die /\ Killed /\ UNCHANGED iofails

-----------------------------------------------------------------------------
(* The bootstrap CLI and Telegram's side *)

\* docker compose run bootstrap, the answer being "y" when the file exists.
\* Nothing asks whether a listener is up.
BootStart ==
    /\ boot = "idle" /\ issued < MaxLogins
    /\ boot' = "login"
    /\ UNCHANGED <<managerVars, fileVars, serverVars, overtaken>> /\ NoFault

\* client.start() succeeds: a new login, and write_bytes truncates the file.
BootLogin ==
    /\ boot = "login"
    /\ issued' = issued + 1
    /\ Truncate /\ boot' = "writing" /\ overtaken' = TRUE
    /\ UNCHANGED <<managerVars, revoked>> /\ NoFault

BootWritten ==
    /\ boot = "writing"
    /\ Fill(<<issued, 0>>) /\ boot' = "idle" /\ overtaken' = TRUE
    /\ UNCHANGED <<managerVars, serverVars>> /\ NoFault

\* The operator gives up, Telegram refuses the code, or the CLI is killed.
BootAbort ==
    /\ \/ boot = "login" /\ NoFault
       \/ boot = "writing" /\ Killed /\ UNCHANGED iofails
    /\ boot' = "idle"
    /\ UNCHANGED <<managerVars, fileVars, serverVars, overtaken>>

\* Telegram, or the owner in another client, terminates a login.
Revoke ==
    /\ \E a \in 1..issued : a \notin revoked /\ revoked' = revoked \cup {a}
    /\ UNCHANGED <<managerVars, fileVars, bootVars, issued>> /\ NoFault

-----------------------------------------------------------------------------
Connect == ReadSession \/ Dial \/ CheckAuthorized \/ CloseRefused
Writer  == WriterWakes \/ WriteDone
Ending  == FinalSave \/ ClientClosed \/ Exit

Next ==
    \/ ContainerStart \/ Connect
    \/ Writer \/ WriterFails \/ TelegramUpdates
    \/ DisconnectIdle \/ Disconnect \/ DisconnectRaises \/ Ending \/ Kill
    \/ BootStart \/ BootLogin \/ BootWritten \/ BootAbort \/ Revoke

Spec == Init /\ [][Next]_vars

\* The event loop runs; the periodic save happens again and again.  Nothing is
\* assumed of Telegram, of the operator or of the faults.
FairSpec == Spec /\ WF_vars(Writer) /\ WF_vars(Ending)

-----------------------------------------------------------------------------
(* Properties *)

TypeOK ==
    /\ file \in Session \cup {Absent, Torn}
    /\ saved \in Session \cup {Absent}
    /\ stage \in {"off", "new", "dialing", "refused"} \cup Connected \cup Over
    /\ client \in Session \cup {NoClient}
    /\ writer \in {"none", "sleeping", "dead"}
    /\ marker \in BOOLEAN /\ overtaken \in BOOLEAN
    /\ boot \in {"idle", "login", "writing"}
    /\ issued \in 0..MaxLogins /\ revoked \subseteq 1..issued
    /\ kills \in 0..MaxKills /\ iofails \in 0..MaxIOFails

\* What the healthcheck reads: in a running container the marker says that
\* this process, not a predecessor, connected, and is not through with
\* disconnect().
HealthyMeansConnected ==
    SessionAlive => client \in Session /\ stage # "checking"

\* A reader finds a torn file only while somebody writes it, or after a kill
\* or an I/O error: no orderly sequence of calls leaves one behind.
TornNeedsFault ==
    file = Torn /\ kills = 0 /\ iofails = 0 =>
        stage \in Writing \/ boot = "writing"

\* What a process holds is behind what is on disk in one case only: the CLI
\* has written a later login since the process read the file.
ClientNotBehindFile ==
    client # NoClient =>
        \/ client[1] = saved[1] /\ client[2] >= saved[2]
        \/ overtaken /\ client[1] < saved[1]

\* The session on disk never goes back to older data of its login, over
\* restarts and re-logins.  It goes back to an older login in one case only: a
\* process that was up during the re-login puts its own session over the new
\* one, in a periodic save or in the final save of the restart.
OnlyReloginIsUndone ==
    [][saved' # saved /\ saved # Absent =>
          NotOlder(saved', saved) \/ (overtaken /\ saved'[1] < saved[1])]_vars

\* Session state is periodically re-serialised: what the connected client holds
\* reaches the disk, unless the connection ends first or the writer has died of
\* an I/O error, which nothing notices while the client is up.
WriterPersists ==
    \A s \in Session :
        stage = "alive" /\ client = s ~>
            \/ stage \notin {"alive", "writing"} \/ writer = "dead"
            \/ saved # Absent /\ NotOlder(saved, s)

\* disconnect() closes a client only over a complete file of the login it held,
\* unless the CLI wrote beside the process.  The one way to leave the client and
\* the marker as they are, without an error of its own, is to pass on what an
\* earlier I/O error did to the writer.
DisconnectSaves ==
    [][/\ stage' = "closed" /\ client # NoClient /\ ~overtaken =>
              file = saved /\ saved[1] = client[1]
       /\ stage' = "writerRaised" => iofails > 0]_vars
=============================================================================

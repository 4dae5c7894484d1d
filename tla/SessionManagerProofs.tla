------------------------ MODULE SessionManagerProofs ------------------------
(***************************************************************************)
(* What SessionManager promises for any number of logins, versions and     *)
(* faults, the bootstrap CLI writing beside it or not: its types, an honest *)
(* healthcheck, what alone puts an older session on disk, and what the end *)
(* of a connection leaves behind.                                          *)
(***************************************************************************)
EXTENDS SessionManager, TLAPS

\* Stages in which _client is set for certain, and in which it is not.
Held  == {"dialing", "refused", "raised", "writerRaised"} \cup Connected
Empty == {"off", "new", "closed"}

ClientByStage ==
    /\ stage \in Held => client \in Session
    /\ stage \in Empty => client = NoClient

\* The marker is touched by connect(), and gone when disconnect() is through.
MarkerByStage ==
    marker => stage \in {"off", "alive", "writing", "final", "closing",
                         "raised", "writerRaised"}

\* A complete file is the last one written.
FileIsLastSave == file \in Session => file = saved

\* The bootstrap CLI is about to write a login that no file had before.
BootFresh ==
    /\ boot = "login" => issued < MaxLogins
    /\ boot = "writing" => issued > 0
    /\ saved # Absent =>
          IF boot = "writing" THEN saved[1] < issued ELSE saved[1] <= issued

IInv == TypeOK /\ ClientByStage /\ MarkerByStage /\ FileIsLastSave /\ BootFresh
            /\ ClientNotBehindFile

-----------------------------------------------------------------------------
\* The values that stand for no session are no sessions, and a session is the
\* pair of its components.
LEMMA NoSession ==
    /\ Absent \notin Session /\ Torn \notin Session /\ NoClient \notin Session
    /\ Absent # Torn
BY DEF Absent, Torn, NoClient, Session

LEMMA SessionParts ==
    \A s \in Session : /\ s[1] \in 1..MaxLogins /\ s[2] \in 0..MaxVersions
                       /\ s = <<s[1], s[2]>>
BY DEF Session

LEMMA SessionPair ==
    \A l \in 1..MaxLogins, v \in 0..MaxVersions :
        <<l, v>> \in Session /\ <<l, v>>[1] = l /\ <<l, v>>[2] = v
BY DEF Session

LEMMA InitInv == Init => IInv
<1> SUFFICES ASSUME Init PROVE IInv
  OBVIOUS
<1>1. /\ file \in {Absent} /\ saved \in {Absent} /\ client \in {NoClient}
      /\ stage = "off" /\ writer = "none" /\ marker = FALSE /\ boot = "idle"
      /\ issued = 0 /\ revoked = {} /\ overtaken = FALSE /\ kills = 0 /\ iofails = 0
  BY DEF Init
<1>2. TypeOK
  <2>1. kills \in 0..MaxKills /\ iofails \in 0..MaxIOFails /\ issued \in 0..MaxLogins
    BY <1>1, SessionAssumption DEF SessionAssumption
  <2>2. QED
    BY <1>1, <2>1 DEF TypeOK
<1>3. ClientByStage /\ MarkerByStage /\ FileIsLastSave
  BY <1>1, NoSession
     DEF ClientByStage, MarkerByStage, FileIsLastSave, Held, Empty, Connected
<1>4. BootFresh /\ ClientNotBehindFile
  BY <1>1 DEF BootFresh, ClientNotBehindFile
<1>5. QED
  BY <1>2, <1>3, <1>4 DEF IInv

\* What a write may do to the session on disk.
NoDataBack ==
    saved' # saved /\ saved # Absent =>
        NotOlder(saved', saved) \/ (overtaken /\ saved'[1] < saved[1])

\* A process that holds a session has one on disk, and not an older login.
LEMMA SavedIsLater ==
    ASSUME IInv, client \in Session
    PROVE  /\ client[1] \in Nat /\ client[2] \in Nat /\ client # NoClient
           /\ saved \in Session /\ saved # Absent /\ saved[1] \in Nat /\ saved[2] \in Nat
           /\ client[1] <= saved[1]
<1>1. client[1] \in Nat /\ client[1] > 0 /\ client[2] \in Nat /\ client # NoClient
  BY SessionParts, SessionAssumption, NoSession DEF SessionAssumption
<1>2. saved # Absent
  BY <1>1 DEF IInv, ClientNotBehindFile, Absent
<1>3. saved \in Session /\ saved[1] \in Nat /\ saved[2] \in Nat
  BY <1>2, SessionParts, SessionAssumption DEF IInv, TypeOK, SessionAssumption
<1>4. client[1] <= saved[1]
  BY <1>1, <1>3 DEF IInv, ClientNotBehindFile
<1> QED
  BY <1>1, <1>2, <1>3, <1>4

\* Writing the session one holds: over an older one, or, overtaken, over a
\* later login.
LEMMA SaveInv ==
    ASSUME IInv, client \in Session,
           file' = client, saved' = client, stage' \in {"alive", "closing"},
           UNCHANGED <<client, writer, marker, boot, overtaken, issued, revoked, kills, iofails>>
    PROVE  IInv' /\ NoDataBack
<1>1. /\ client[1] \in Nat /\ client[2] \in Nat /\ client # NoClient
      /\ saved \in Session /\ saved # Absent /\ saved[1] \in Nat /\ saved[2] \in Nat
      /\ client[1] <= saved[1]
  BY SavedIsLater
<1>2. TypeOK'
  BY DEF IInv, TypeOK, Connected
<1>3. ClientByStage' /\ MarkerByStage' /\ FileIsLastSave'
  BY DEF ClientByStage, MarkerByStage, FileIsLastSave, Held, Empty, Connected
<1>4. BootFresh'
  BY <1>1 DEF IInv, TypeOK, BootFresh
<1>5. ClientNotBehindFile'
  BY <1>1 DEF ClientNotBehindFile
<1>6. NoDataBack
  BY <1>1 DEF IInv, ClientNotBehindFile, NoDataBack, NotOlder
<1>7. QED
  BY <1>2, <1>3, <1>4, <1>5, <1>6 DEF IInv

\* The bootstrap CLI puts its new login over whatever the file held.
LEMMA BootWrittenInv ==
    ASSUME IInv, BootWritten
    PROVE  IInv' /\ NoDataBack
<1> DEFINE new == <<issued, 0>>
<1>1. issued \in 1..MaxLogins /\ 0 \in 0..MaxVersions
  BY SessionAssumption DEF SessionAssumption, IInv, TypeOK, BootFresh, BootWritten
<1>2. new \in Session /\ new[1] = issued
  BY <1>1, SessionPair
<1>3. file' = new /\ saved' = new /\ boot' = "idle" /\ overtaken' = TRUE
      /\ UNCHANGED <<stage, client, writer, marker, issued, revoked, kills, iofails>>
  BY DEF BootWritten, Fill, managerVars, serverVars, NoFault
<1> HIDE DEF new
<1>4. TypeOK'
  BY <1>2, <1>3 DEF IInv, TypeOK
<1>5. ClientByStage' /\ MarkerByStage' /\ FileIsLastSave'
  BY <1>3 DEF IInv, ClientByStage, MarkerByStage, FileIsLastSave, Held, Empty, Connected
<1>6. BootFresh'
  BY <1>1, <1>2, <1>3 DEF BootFresh
<1>7. saved # Absent => saved[1] \in Nat /\ saved[1] < saved'[1]
  <2>1. saved # Absent => saved[1] \in Nat
    BY SessionParts, SessionAssumption DEF IInv, TypeOK, SessionAssumption
  <2> QED
    BY <1>2, <1>3, <2>1 DEF IInv, BootFresh, BootWritten
<1>8. ClientNotBehindFile'
  <2>1. client # NoClient => client \in Session
    BY DEF IInv, TypeOK
  <2>2. client # NoClient => client[1] < saved'[1]
    BY <1>1, <1>2, <1>3, <1>7, <2>1, SavedIsLater
  <2> QED
    BY <1>3, <2>2 DEF ClientNotBehindFile
<1>9. NoDataBack
  BY <1>1, <1>2, <1>3, <1>7 DEF NoDataBack, NotOlder
<1>10. QED
  BY <1>4, <1>5, <1>6, <1>8, <1>9 DEF IInv

\* Telethon's change of the server data only moves the held session on.
LEMMA UpdateInv == IInv /\ TelegramUpdates => IInv'
<1> SUFFICES ASSUME IInv, TelegramUpdates PROVE IInv'
  OBVIOUS
<1> DEFINE new == <<client[1], client[2] + 1>>
<1>1. stage \in {"checking", "alive", "closing"} /\ client \in Session
  BY DEF IInv, ClientByStage, TelegramUpdates, Held, Connected, Writing
<1>2. client[1] \in 1..MaxLogins /\ client[2] \in 0..MaxVersions
      /\ client[2] + 1 \in 0..MaxVersions
  BY <1>1, SessionParts, SessionAssumption DEF SessionAssumption, TelegramUpdates
<1>3. new \in Session /\ new[1] = client[1] /\ new[2] = client[2] + 1
  BY <1>2, SessionPair
<1>4. client' = new
      /\ UNCHANGED <<file, saved, stage, writer, marker, boot, overtaken, issued, revoked, kills,
                     iofails>>
  BY DEF TelegramUpdates, fileVars, bootVars, serverVars, NoFault
<1> HIDE DEF new
<1>5. TypeOK'
  BY <1>3, <1>4 DEF IInv, TypeOK
<1>6. ClientByStage' /\ MarkerByStage' /\ FileIsLastSave' /\ BootFresh'
  BY <1>1, <1>3, <1>4 DEF IInv, ClientByStage, MarkerByStage, FileIsLastSave, BootFresh,
                          Held, Empty, Connected
<1>7. ClientNotBehindFile'
  BY <1>1, <1>2, <1>3, <1>4, SavedIsLater, SessionAssumption
     DEF IInv, ClientNotBehindFile, SessionAssumption
<1>8. QED
  BY <1>5, <1>6, <1>7 DEF IInv

LEMMA NextInv == IInv /\ [Next]_vars => IInv'
<1> SUFFICES ASSUME IInv, [Next]_vars PROVE IInv'
  OBVIOUS
<1> USE SessionAssumption, NoSession, SessionParts
    DEF SessionAssumption, IInv, TypeOK, ClientByStage, MarkerByStage, FileIsLastSave,
        BootFresh, ClientNotBehindFile, Held, Empty, Connected, Writing, Over,
        managerVars, fileVars, bootVars, serverVars, NoFault
<1>1. CASE ContainerStart
  BY <1>1 DEF ContainerStart
<1>2. CASE ReadSession
  <2>1. /\ stage = "new" /\ client = NoClient /\ overtaken' = FALSE
        /\ UNCHANGED <<writer, marker, file, saved, boot, issued, revoked, kills, iofails>>
    BY <1>2 DEF ReadSession
  <2>2. CASE file \in Session /\ client' = file /\ stage' = "dialing"
    <3>1. client' = saved' /\ client' \in Session /\ saved[2] \in Nat
      BY <2>1, <2>2
    <3>2. ClientNotBehindFile'
      BY <2>1, <3>1
    <3> QED
      BY <2>1, <2>2, <3>1, <3>2
  <2>3. CASE client' = client /\ stage' = "failed"
    BY <2>1, <2>3
  <2> QED
    BY <1>2, <2>2, <2>3 DEF ReadSession
<1>3. CASE Dial
  BY <1>3 DEF Dial
<1>4. CASE CheckAuthorized
  <2>1. client \in Session /\ ~marker
    BY <1>4 DEF CheckAuthorized
  <2>2. \/ stage' = "alive" /\ writer' = "sleeping" /\ marker' \in BOOLEAN
        \/ stage' = "refused" /\ writer' = writer /\ marker' = marker
    BY <1>4, <2>1 DEF CheckAuthorized, MarkAlive
  <2>3. UNCHANGED <<client, file, saved, boot, overtaken, issued, revoked, kills, iofails>>
    BY <1>4 DEF CheckAuthorized
  <2>4. TypeOK'
    BY <2>2, <2>3
  <2>5. ClientByStage' /\ MarkerByStage' /\ FileIsLastSave' /\ BootFresh'
    BY <2>1, <2>2, <2>3
  <2>6. ClientNotBehindFile'
    BY <2>3
  <2>7. QED
    BY <2>4, <2>5, <2>6
<1>5. CASE CloseRefused
  BY <1>5 DEF CloseRefused
<1>6. CASE WriterWakes
  BY <1>6 DEF WriterWakes, Truncate
<1>7. CASE WriteDone
  <2>1. client \in Session
    BY <1>7 DEF WriteDone
  <2>2. QED
    BY <1>7, <2>1, SaveInv DEF WriteDone, Fill
<1>8. CASE WriterFails
  BY <1>8 DEF WriterFails, IOFail
<1>9. CASE TelegramUpdates
  BY <1>9, UpdateInv
<1>10. CASE DisconnectIdle
  BY <1>10 DEF DisconnectIdle
<1>11. CASE Disconnect
  BY <1>11 DEF Disconnect, Truncate, IOFail
<1>12. CASE DisconnectRaises
  BY <1>12 DEF DisconnectRaises
<1>13. CASE FinalSave
  <2>1. client \in Session
    BY <1>13 DEF FinalSave
  <2>2. CASE Fill(client) /\ stage' = "closing" /\ NoFault
    BY <1>13, <2>1, <2>2, SaveInv DEF FinalSave, Fill
  <2>3. CASE IOFail /\ stage' = "raised" /\ UNCHANGED <<fileVars, kills>>
    BY <1>13, <2>3 DEF FinalSave, IOFail
  <2>4. QED
    BY <1>13, <2>2, <2>3 DEF FinalSave
<1>14. CASE ClientClosed
  <2>1. stage = "closing" /\ client \in Session
        /\ UNCHANGED <<writer, file, saved, boot, overtaken, issued, revoked, kills, iofails>>
    BY <1>14 DEF ClientClosed
  <2>2. CASE stage' = "closed" /\ client' = NoClient /\ MarkDead
    BY <2>1, <2>2 DEF MarkDead
  <2>3. CASE stage' = "raised" /\ UNCHANGED <<client, marker>>
    BY <2>1, <2>3
  <2> QED
    BY <1>14, <2>2, <2>3 DEF ClientClosed
<1>15. CASE Exit
  BY <1>15 DEF Exit
<1>16. CASE Kill
  BY <1>16 DEF Kill, Die, Killed
<1>17. CASE BootStart
  BY <1>17 DEF BootStart
<1>18. CASE BootLogin
  BY <1>18 DEF BootLogin, Truncate
<1>19. CASE BootWritten
  BY <1>19, BootWrittenInv
<1>20. CASE BootAbort
  BY <1>20 DEF BootAbort, Killed
<1>21. CASE Revoke
  BY <1>21 DEF Revoke
<1>22. CASE UNCHANGED vars
  BY <1>22 DEF vars
<1>23. QED
  BY <1>1, <1>2, <1>3, <1>4, <1>5, <1>6, <1>7, <1>8, <1>9, <1>10, <1>11, <1>12, <1>13, <1>14, <1>15, <1>16, <1>17, <1>18, <1>19, <1>20, <1>21, <1>22
     DEF Next, Connect, Writer, Ending

LEMMA IInvHolds == Spec => []IInv
BY InitInv, NextInv, PTL DEF Spec

\* Three actions write a complete session.
LEMMA StepNotBack == IInv /\ [Next]_vars => NoDataBack
<1> SUFFICES ASSUME IInv, [Next]_vars PROVE NoDataBack
  OBVIOUS
<1>1. CASE WriteDone
  <2>1. client \in Session
    BY <1>1 DEF WriteDone, IInv, ClientByStage, Held, Connected
  <2>2. QED
    BY <1>1, <2>1, SaveInv DEF WriteDone, Fill, bootVars, serverVars, NoFault
<1>2. CASE FinalSave
  <2>1. client \in Session
    BY <1>2 DEF FinalSave, IInv, ClientByStage, Held, Connected
  <2>2. CASE Fill(client) /\ stage' = "closing" /\ NoFault
    BY <1>2, <2>1, <2>2, SaveInv DEF FinalSave, Fill, bootVars, serverVars, NoFault
  <2>3. CASE IOFail /\ stage' = "raised" /\ UNCHANGED <<fileVars, kills>>
    BY <2>3 DEF NoDataBack, fileVars
  <2>4. QED
    BY <1>2, <2>2, <2>3 DEF FinalSave
<1>3. CASE BootWritten
  BY <1>3, BootWrittenInv
<1>4. CASE ~(WriteDone \/ FinalSave \/ BootWritten)
  <2>1. saved' = saved
    BY <1>4 DEF Next, Connect, Writer, Ending, vars, ContainerStart, ReadSession, Dial,
         CheckAuthorized, CloseRefused, WriterWakes, WriterFails, TelegramUpdates,
         DisconnectIdle, Disconnect, DisconnectRaises, ClientClosed, Exit, Kill, Die,
         BootStart, BootLogin, BootAbort, Revoke, Truncate, fileVars
  <2> QED
    BY <2>1 DEF NoDataBack
<1>5. QED
  BY <1>1, <1>2, <1>3, <1>4

-----------------------------------------------------------------------------
\* Every state of the manager, the file and the bootstrap CLI is well-typed.
THEOREM TypeCorrect == Spec => []TypeOK
<1>1. IInv => TypeOK
  BY DEF IInv
<1>2. QED
  BY <1>1, IInvHolds, PTL

\* The healthcheck is honest for any number of restarts, kills and I/O errors:
\* a marker in a running container says that its own process connected.
THEOREM HonestHealth == Spec => []HealthyMeansConnected
<1>1. IInv => HealthyMeansConnected
  BY NoSession DEF IInv, ClientByStage, MarkerByStage, HealthyMeansConnected, SessionAlive,
     Held, Connected
<1>2. QED
  BY <1>1, IInvHolds, PTL

\* What a process holds is behind the file it will write to only when the CLI
\* has written a later login since the process read the file.
THEOREM NotBehind == Spec => []ClientNotBehindFile
<1>1. IInv => ClientNotBehindFile
  BY DEF IInv
<1>2. QED
  BY <1>1, IInvHolds, PTL

\* No write puts older data over newer data of one login, and only a process
\* that the CLI has overtaken puts an older login over a newer one: for any
\* number of logins, restarts, kills and I/O errors.
THEOREM OnlyReloginGoesBack == Spec => OnlyReloginIsUndone
<1>1. IInv /\ [Next]_vars =>
        [saved' # saved /\ saved # Absent =>
            NotOlder(saved', saved) \/ (overtaken /\ saved'[1] < saved[1])]_vars
  BY StepNotBack DEF NoDataBack
<1>2. QED
  BY <1>1, IInvHolds, PTL DEF Spec, OnlyReloginIsUndone

-----------------------------------------------------------------------------
(* What an end of the connection leaves behind *)

\* disconnect() closes the client only after its final save, which the CLI
\* alone may have truncated since.
ClosingIsSaved == stage = "closing" /\ ~overtaken => file = saved

\* Only an I/O error ends the writer, and only then disconnect() passes it on.
WriterDeathNeedsFault == writer = "dead" \/ stage = "writerRaised" => iofails > 0

EndInv == TornNeedsFault /\ ClosingIsSaved /\ WriterDeathNeedsFault

LEMMA InitEndInv == Init => EndInv
  BY DEF Init, EndInv, TornNeedsFault, ClosingIsSaved, WriterDeathNeedsFault, Absent, Torn

\* The faults are only counted up.
LEMMA FaultsGrow ==
    ASSUME IInv, [Next]_vars
    PROVE  /\ kills \in Nat /\ iofails \in Nat /\ kills' \in Nat /\ iofails' \in Nat
           /\ kills' = kills \/ kills' = kills + 1
           /\ iofails' = iofails \/ iofails' = iofails + 1
<1>1. kills \in Nat /\ iofails \in Nat
  BY SessionAssumption DEF SessionAssumption, IInv, TypeOK
<1>2. /\ kills' = kills \/ kills' = kills + 1
      /\ iofails' = iofails \/ iofails' = iofails + 1
  BY DEF Next, Connect, Writer, Ending, vars, ContainerStart, ReadSession, Dial,
     CheckAuthorized, CloseRefused, WriterWakes, WriteDone, WriterFails, TelegramUpdates,
     DisconnectIdle, Disconnect, DisconnectRaises, FinalSave, ClientClosed, Exit, Kill, Die,
     Killed, BootStart, BootLogin, BootWritten, BootAbort, Revoke, NoFault, IOFail
<1> QED
  BY <1>1, <1>2

\* A step that counts a fault owes nothing to TornNeedsFault; one that counts
\* none keeps the file torn only while somebody has it open.
LEMMA EndInvStep == IInv /\ EndInv /\ [Next]_vars => EndInv'
<1> SUFFICES ASSUME IInv, EndInv, [Next]_vars PROVE EndInv'
  OBVIOUS
<1>0. /\ kills \in Nat /\ iofails \in Nat /\ kills' \in Nat /\ iofails' \in Nat
      /\ kills' = kills \/ kills' = kills + 1
      /\ iofails' = iofails \/ iofails' = iofails + 1
  BY FaultsGrow
<1>1. /\ file # Torn => file \in Session \cup {Absent}
      /\ stage \in Held => client \in Session
  BY DEF IInv, TypeOK, ClientByStage
<1> USE DEF EndInv, TornNeedsFault, ClosingIsSaved, WriterDeathNeedsFault, Writing, Over,
        managerVars, fileVars, bootVars, serverVars, NoFault
<1>2. CASE ContainerStart \/ ReadSession \/ Dial \/ CheckAuthorized \/ CloseRefused
           \/ TelegramUpdates \/ DisconnectIdle \/ BootStart \/ Revoke \/ UNCHANGED vars
  BY <1>1, <1>2 DEF ContainerStart, ReadSession, Dial, CheckAuthorized, CloseRefused,
     TelegramUpdates, DisconnectIdle, BootStart, Revoke, vars, Connected
<1>3. CASE WriterWakes \/ BootLogin
  BY <1>1, <1>3 DEF WriterWakes, BootLogin, Truncate
<1>4. CASE WriteDone
  <2>1. client \in Session /\ file' = client
    BY <1>1, <1>4 DEF WriteDone, Fill, Held, Connected
  <2>2. file' # Torn
    BY <2>1, NoSession
  <2> QED
    BY <1>1, <1>4, <2>2 DEF WriteDone
<1>5. CASE BootWritten
  <2>1. file' # Torn
    BY <1>5 DEF BootWritten, Fill, Torn
  <2> QED
    BY <1>1, <1>5, <2>1 DEF BootWritten
<1>6. CASE WriterFails \/ Kill
  BY <1>0, <1>6 DEF WriterFails, Kill, Die, Killed, IOFail
<1>7. CASE Disconnect \/ DisconnectRaises
  BY <1>0, <1>7 DEF Disconnect, DisconnectRaises, Truncate, IOFail
<1>8. CASE FinalSave
  <2>1. client \in Session /\ client # Torn
    <3>1. client \in Session
      BY <1>1, <1>8 DEF FinalSave, Held, Connected
    <3> QED
      BY <3>1, NoSession
  <2> QED
    BY <1>0, <1>1, <1>8, <2>1 DEF FinalSave, Fill, IOFail
<1>9. CASE ClientClosed \/ Exit
  BY <1>1, <1>9 DEF ClientClosed, Exit
<1>10. CASE BootAbort
  BY <1>0, <1>10 DEF BootAbort, Killed
<1> QED
  BY <1>2, <1>3, <1>4, <1>5, <1>6, <1>7, <1>8, <1>9, <1>10 DEF Next, Connect, Writer, Ending

LEMMA EndInvHolds == Spec => []EndInv
BY InitEndInv, EndInvStep, IInvHolds, PTL DEF Spec

\* Without a kill or an I/O error a torn file is one that is being written.
THEOREM TornOnlyWhileWritten == Spec => []TornNeedsFault
BY EndInvHolds, PTL DEF EndInv

\* Whatever happened before, disconnect() closes a client only over a complete
\* file of its login, unless the CLI wrote beside it, and raises for the writer
\* only after an I/O error.
THEOREM DisconnectIsSafe == Spec => DisconnectSaves
<1>1. IInv /\ EndInv /\ EndInv' /\ [Next]_vars =>
        [/\ stage' = "closed" /\ client # NoClient /\ ~overtaken =>
               file = saved /\ saved[1] = client[1]
         /\ stage' = "writerRaised" => iofails > 0]_vars
  <2> SUFFICES ASSUME IInv, EndInv, [Next]_vars
               PROVE  /\ stage' = "closed" /\ client # NoClient /\ ~overtaken =>
                             file = saved /\ saved[1] = client[1]
                      /\ stage' = "writerRaised" => iofails > 0
    OBVIOUS
  <2>1. client # NoClient /\ ~overtaken => client[1] = saved[1]
    BY DEF IInv, ClientNotBehindFile
  <2>2. stage' = "closed" => stage = "closing" \/ client = NoClient
    BY DEF Next, Connect, Writer, Ending, vars, ContainerStart, ReadSession, Dial,
       CheckAuthorized, CloseRefused, WriterWakes, WriteDone, WriterFails, TelegramUpdates,
       DisconnectIdle, Disconnect, DisconnectRaises, FinalSave, ClientClosed, Exit, Kill, Die,
       BootStart, BootLogin, BootWritten, BootAbort, Revoke, managerVars,
       IInv, ClientByStage, Empty
  <2>3. stage' = "writerRaised" => writer = "dead" \/ stage = "writerRaised"
    BY DEF Next, Connect, Writer, Ending, vars, ContainerStart, ReadSession, Dial,
       CheckAuthorized, CloseRefused, WriterWakes, WriteDone, WriterFails, TelegramUpdates,
       DisconnectIdle, Disconnect, DisconnectRaises, FinalSave, ClientClosed, Exit, Kill, Die,
       BootStart, BootLogin, BootWritten, BootAbort, Revoke, managerVars
  <2> QED
    BY <2>1, <2>2, <2>3 DEF EndInv, ClosingIsSaved, WriterDeathNeedsFault
<1> QED
  BY <1>1, IInvHolds, EndInvHolds, PTL DEF Spec, DisconnectSaves
=============================================================================

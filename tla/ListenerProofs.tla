--------------------------- MODULE ListenerProofs ---------------------------
(***************************************************************************)
(* The listener's process: what is proved of the session manager holds in  *)
(* it, and a stop that docker need not end by SIGKILL has saved the        *)
(* session.                                                                *)
(***************************************************************************)
EXTENDS Listener, TLAPS

-----------------------------------------------------------------------------
(* What is proved of the manager, in the listener *)

\* The actions of Listener are built from those of the manager, so this holds
\* by their shape; it is the link between the two modules' proofs.
LEMMA StepUsesManager == [Next]_vars => [SM!Next]_SM!vars
<1> SUFFICES ASSUME [Next]_vars PROVE SM!Next \/ UNCHANGED SM!vars
  BY DEF SM!vars
<1>1. CASE Start
  BY <1>1 DEF Start, SM!Next
<1>2. CASE Connecting
  BY <1>2 DEF Connecting, SM!Next
<1>3. CASE Finalize
  BY <1>3 DEF Finalize, SM!Next, SM!Ending
<1>4. CASE Exit
  BY <1>4 DEF Exit, SM!Next, SM!Ending
<1>5. CASE Crash \/ SigTermUnhandled \/ SigKill
  BY <1>5 DEF Crash, SigTermUnhandled, SigKill, SM!Next
<1>6. CASE Background
  BY <1>6 DEF Background, SM!Next, SM!Writer
<1>7. CASE Reconciled \/ ReconcileFails \/ LinkLost \/ HungUp \/ TimesOut \/ SigTerm \/ Tick
           \/ UNCHANGED vars
  BY <1>7 DEF Reconciled, ReconcileFails, LinkLost, HungUp, TimesOut, SigTerm, Tick, vars, smVars,
              SM!vars
<1> QED
  BY <1>1, <1>2, <1>3, <1>4, <1>5, <1>6, <1>7 DEF Next, Run

\* The manager over the listener's variables, with its theorems.
SMP == INSTANCE SessionManagerProofs

\* SM and SMP are the same specification under two names.
LEMMA SameInit == SM!Init => SMP!Init
  BY DEF SM!Init, SMP!Init, SM!Absent, SMP!Absent, SM!NoClient, SMP!NoClient

LEMMA SameNext == [SM!Next]_SM!vars => [SMP!Next]_SMP!vars
  BY DEF
         SM!Next, SM!Connect, SM!Writer, SM!Ending, SM!ContainerStart, SM!ReadSession,
         SM!Dial, SM!CheckAuthorized, SM!CloseRefused, SM!WriterWakes, SM!WriteDone,
         SM!WriterFails, SM!TelegramUpdates, SM!DisconnectIdle, SM!Disconnect,
         SM!DisconnectRaises, SM!FinalSave, SM!ClientClosed, SM!Exit, SM!Kill, SM!Die,
         SM!Killed, SM!BootStart, SM!BootLogin, SM!BootWritten, SM!BootAbort, SM!Revoke,
         SM!NoFault, SM!IOFail, SM!Torn, SM!NoClient, SM!Session, SM!Connected, SM!Writing,
         SM!Over, SM!Truncate, SM!Fill, SM!MarkAlive, SM!MarkDead, SM!managerVars,
         SM!fileVars, SM!bootVars, SM!serverVars, SM!vars,
         SMP!Next, SMP!Connect, SMP!Writer, SMP!Ending, SMP!ContainerStart, SMP!ReadSession,
         SMP!Dial, SMP!CheckAuthorized, SMP!CloseRefused, SMP!WriterWakes, SMP!WriteDone,
         SMP!WriterFails, SMP!TelegramUpdates, SMP!DisconnectIdle, SMP!Disconnect,
         SMP!DisconnectRaises, SMP!FinalSave, SMP!ClientClosed, SMP!Exit, SMP!Kill, SMP!Die,
         SMP!Killed, SMP!BootStart, SMP!BootLogin, SMP!BootWritten, SMP!BootAbort,
         SMP!Revoke, SMP!NoFault, SMP!IOFail, SMP!Torn, SMP!NoClient, SMP!Session,
         SMP!Connected, SMP!Writing, SMP!Over, SMP!Truncate, SMP!Fill, SMP!MarkAlive,
         SMP!MarkDead, SMP!managerVars, SMP!fileVars, SMP!bootVars, SMP!serverVars, SMP!vars

\* Over every stop, crash and restart of listener/main.py: the healthcheck is
\* honest, a torn session file has a fault behind it, the client is behind the
\* file and the file goes back only over a re-login beside the process, and
\* disconnect() saves first.
THEOREM ListenerKeepsSession ==
    Spec => /\ [](SMP!HealthyMeansConnected /\ SMP!TornNeedsFault /\ SMP!ClientNotBehindFile)
            /\ SMP!OnlyReloginIsUndone
            /\ SMP!DisconnectSaves
<1>1. SMP!SessionAssumption
  BY ListenerAssumption DEF ListenerAssumption, SMP!SessionAssumption
<1>2. Spec => SMP!Spec
  <2>1. Init => SM!Init
    BY DEF Init
  <2> QED
    BY <2>1, StepUsesManager, SameInit, SameNext, PTL DEF Spec, SMP!Spec
<1>3. SMP!Spec => []SMP!HealthyMeansConnected
  BY <1>1, SMP!HonestHealth
<1>4. SMP!Spec => []SMP!TornNeedsFault
  BY <1>1, SMP!TornOnlyWhileWritten
<1>5. SMP!Spec => []SMP!ClientNotBehindFile
  BY <1>1, SMP!NotBehind
<1>6. SMP!Spec => SMP!OnlyReloginIsUndone
  BY <1>1, SMP!OnlyReloginGoesBack
<1>7. SMP!Spec => SMP!DisconnectSaves
  BY <1>1, SMP!DisconnectIsSafe
<1> QED
  BY <1>2, <1>3, <1>4, <1>5, <1>6, <1>7, PTL

-----------------------------------------------------------------------------
(* The inductive invariant *)

Phases == {"gone", "connecting", "reconciling", "serving", "hangup", "late", "finalizing", "exiting"}

TypeOK ==
    /\ phase \in Phases /\ handled \in BOOLEAN /\ link \in {"up", "lost", "down"}
    /\ stopping \in BOOLEAN /\ since \in 0..Grace /\ atStop \in SM!Session \cup {SM!NoClient}
    /\ iofails \in Nat

\* Where the manager is while run() is where it is.
StageByPhase ==
    /\ phase = "gone" => stage = "off" /\ ~handled
    /\ phase = "connecting" => stage \in {"new", "dialing", "checking", "refused"}
    /\ phase \in {"reconciling", "serving", "hangup", "late"} => stage \in {"alive", "writing"}
    /\ phase = "finalizing" => stage \in {"alive", "writing", "final", "closing"}
    /\ phase = "exiting" => stage \in SM!Over
    /\ handled => phase \notin {"gone", "connecting", "reconciling"} /\ stage # "failed"
    /\ stopping => handled

\* The manager holds a session while it is connected, and only an I/O error
\* ends the writer.
ManagerHolds ==
    /\ client \in SM!Session \cup {SM!NoClient}
    /\ stage \in {"dialing", "refused"} \cup SM!Connected => client \in SM!Session
    /\ writer = "dead" \/ stage = "writerRaised" => iofails > 0

\* The login of a session was issued, and before the one the CLI is writing.
Issued(x) == x \in SM!Session => x[1] <= issued /\ (boot = "writing" => x[1] < issued)

LoginsIssued ==
    /\ issued \in 0..MaxLogins
    /\ boot = "login" => issued < MaxLogins
    /\ boot = "writing" => issued > 0
    /\ Issued(client) /\ Issued(file) /\ Issued(atStop)

\* Nothing older than the client at SIGTERM, or torn by the CLI.
FileKept == \/ file \in SM!Session /\ SM!NotOlder(file, atStop)
            \/ overtaken /\ file = SM!Torn

\* From the SIGTERM on the session goes from the client to the file.
KeptSinceStop ==
    stopping /\ atStop # SM!NoClient /\ iofails = 0 =>
        /\ stage \in {"alive", "writing", "final"} => SM!NotOlder(client, atStop)
        /\ stage \in {"closing", "closed", "raised"} => FileKept

IInv == TypeOK /\ StageByPhase /\ ManagerHolds /\ LoginsIssued /\ KeptSinceStop

LEMMA InitIInv == Init => IInv
<1> SUFFICES ASSUME Init PROVE IInv
  OBVIOUS
<1>1. /\ phase = "gone" /\ handled = FALSE /\ link = "down" /\ stopping = FALSE /\ since = 0
      /\ atStop = SM!NoClient /\ client = SM!NoClient
      /\ stage = "off" /\ writer = "none" /\ boot = "idle" /\ iofails = 0
      /\ issued = 0 /\ file = SM!Absent
  BY DEF Init, SM!Init
<1>2. 0 \in 0..Grace
  BY ListenerAssumption DEF ListenerAssumption
<1>3. TypeOK
  BY <1>1, <1>2 DEF TypeOK, Phases
<1>4. StageByPhase
  BY <1>1 DEF StageByPhase
<1>5. ManagerHolds
  BY <1>1 DEF ManagerHolds, SM!Connected
<1>6. KeptSinceStop
  BY <1>1 DEF KeptSinceStop
<1>7. LoginsIssued
  BY <1>1, ListenerAssumption
     DEF LoginsIssued, Issued, SM!Session, SM!NoClient, SM!Absent, ListenerAssumption
<1> QED
  BY <1>3, <1>4, <1>5, <1>6, <1>7 DEF IInv

\* A session is the pair of its components.
LEMMA SessionParts ==
    \A s \in SM!Session : s[1] \in Nat /\ s[2] \in 0..MaxVersions /\ s[2] \in Nat /\ s = <<s[1], s[2]>>
  BY ListenerAssumption DEF ListenerAssumption, SM!Session

LEMMA ManagerHoldsStep ==
    ASSUME IInv, [Next]_vars
    PROVE  ManagerHolds' /\ iofails' \in Nat /\ (iofails' = 0 => iofails = 0)
<1>1. SM!Next \/ UNCHANGED SM!vars
  BY StepUsesManager DEF SM!vars
<1>2. iofails \in Nat /\ ManagerHolds
  BY DEF IInv, TypeOK
<1>3. iofails' = iofails \/ iofails' = iofails + 1
  BY <1>1 DEF SM!Next, SM!Connect, SM!Writer, SM!Ending, SM!vars, SM!ContainerStart, SM!ReadSession,
     SM!Dial, SM!CheckAuthorized, SM!CloseRefused, SM!WriterWakes, SM!WriteDone, SM!WriterFails,
     SM!TelegramUpdates, SM!DisconnectIdle, SM!Disconnect, SM!DisconnectRaises, SM!FinalSave,
     SM!ClientClosed, SM!Exit, SM!Kill, SM!Die, SM!Killed, SM!BootStart, SM!BootLogin, SM!BootWritten,
     SM!BootAbort, SM!Revoke, SM!NoFault, SM!IOFail
<1>4. iofails' \in Nat /\ (iofails' = 0 => iofails = 0)
  BY <1>2, <1>3
<1>6. writer' = "dead" \/ stage' = "writerRaised" => iofails' > 0
  BY <1>1, <1>2, <1>3 DEF ManagerHolds, SM!Next, SM!Connect, SM!Writer, SM!Ending, SM!vars,
     SM!ContainerStart, SM!ReadSession, SM!Dial, SM!CheckAuthorized, SM!CloseRefused, SM!WriterWakes,
     SM!WriteDone, SM!WriterFails, SM!TelegramUpdates, SM!DisconnectIdle, SM!Disconnect,
     SM!DisconnectRaises, SM!FinalSave, SM!ClientClosed, SM!Exit, SM!Kill, SM!Die, SM!BootStart,
     SM!BootLogin, SM!BootWritten, SM!BootAbort, SM!Revoke, SM!managerVars, SM!IOFail
<1>7. /\ client' \in SM!Session \cup {SM!NoClient}
      /\ stage' \in {"dialing", "refused"} \cup SM!Connected => client' \in SM!Session
  <2>1. CASE SM!TelegramUpdates
    <3>1. client \in SM!Session
      BY <1>2, <2>1 DEF SM!TelegramUpdates, ManagerHolds
    <3>2. client[1] \in 1..MaxLogins /\ client[2] + 1 \in 0..MaxVersions
      BY <2>1, <3>1, SessionParts, ListenerAssumption DEF SM!TelegramUpdates, SM!Session, ListenerAssumption
    <3> QED
      BY <2>1, <3>2 DEF SM!TelegramUpdates, SM!Session
  <2>2. CASE SM!ReadSession
    BY <1>2, <2>2 DEF ManagerHolds, SM!ReadSession, SM!Connected
  <2>3. CASE SM!Dial \/ SM!CheckAuthorized \/ SM!CloseRefused
    BY <1>2, <2>3 DEF ManagerHolds, SM!Dial, SM!CheckAuthorized, SM!CloseRefused, SM!Connected
  <2>4. CASE SM!WriterWakes \/ SM!WriteDone \/ SM!WriterFails \/ SM!FinalSave \/ SM!ClientClosed
    BY <1>2, <2>4 DEF ManagerHolds, SM!WriterWakes, SM!WriteDone, SM!WriterFails, SM!FinalSave,
       SM!ClientClosed, SM!Connected
  <2>5. CASE SM!Disconnect
    BY <1>2, <2>5 DEF ManagerHolds, SM!Disconnect, SM!Connected
  <2>6. CASE SM!ContainerStart \/ SM!DisconnectIdle \/ SM!DisconnectRaises \/ SM!Exit \/ SM!Kill
    BY <1>2, <2>6 DEF ManagerHolds, SM!ContainerStart, SM!DisconnectIdle, SM!DisconnectRaises, SM!Exit,
       SM!Kill, SM!Die, SM!Connected
  <2>7. CASE \/ SM!BootStart \/ SM!BootLogin \/ SM!BootWritten \/ SM!BootAbort \/ SM!Revoke
             \/ UNCHANGED SM!vars
    BY <1>2, <2>7 DEF ManagerHolds, SM!BootStart, SM!BootLogin, SM!BootWritten, SM!BootAbort,
       SM!Revoke, SM!managerVars, SM!vars
  <2> QED
    BY <1>1, <2>1, <2>2, <2>3, <2>4, <2>5, <2>6, <2>7 DEF SM!Next, SM!Connect, SM!Writer, SM!Ending
<1> QED
  BY <1>4, <1>6, <1>7 DEF ManagerHolds

\* The sessions that come up are those read, saved or newly issued.
LEMMA LoginsIssuedStep ==
    ASSUME IInv, [Next]_vars
    PROVE  LoginsIssued'
<1>1. LoginsIssued /\ ManagerHolds
  BY DEF IInv
<1>2. /\ SM!Next \/ UNCHANGED SM!vars
      /\ atStop' = atStop \/ atStop' = SM!NoClient \/ (atStop' = client /\ UNCHANGED <<boot, issued>>)
  <2>1. SM!Next \/ UNCHANGED SM!vars
    BY StepUsesManager DEF SM!vars
  <2>2. CASE SigTerm \/ SigTermUnhandled
    BY <2>1, <2>2 DEF SigTerm, SigTermUnhandled, AtStop, smVars, SM!Kill, SM!Die, SM!bootVars,
                      SM!serverVars
  <2>3. CASE ~(SigTerm \/ SigTermUnhandled)
    BY <2>1, <2>3 DEF Next, Run, Start, Connecting, Reconciled, ReconcileFails, LinkLost, HungUp,
       TimesOut, Finalize, Exit, Crash, Gone, Background, Tick, SigKill, stopVars, vars
  <2> QED
    BY <2>2, <2>3, <2>1
<1>3. SM!NoClient \notin SM!Session /\ SM!Torn \notin SM!Session
  BY DEF SM!NoClient, SM!Torn, SM!Session
<1>4. /\ client' \in {client, file, SM!NoClient} \/ SM!TelegramUpdates
      /\ file' \in {file, client, SM!Torn} \/ SM!BootWritten
      /\ UNCHANGED <<boot, issued>> \/ SM!BootStart \/ SM!BootLogin \/ SM!BootWritten \/ SM!BootAbort
  BY <1>2 DEF SM!Next, SM!Connect, SM!Writer, SM!Ending, SM!vars, SM!ContainerStart, SM!ReadSession,
     SM!Dial, SM!CheckAuthorized, SM!CloseRefused, SM!WriterWakes, SM!WriteDone, SM!WriterFails,
     SM!TelegramUpdates, SM!DisconnectIdle, SM!Disconnect, SM!DisconnectRaises, SM!FinalSave,
     SM!ClientClosed, SM!Exit, SM!Kill, SM!Die, SM!BootStart, SM!BootLogin, SM!BootAbort, SM!Revoke,
     SM!BootWritten, SM!Truncate, SM!Fill, SM!managerVars, SM!fileVars, SM!bootVars, SM!serverVars
<1>5. CASE SM!BootStart \/ SM!BootLogin \/ SM!BootAbort
  <2>1. client' = client /\ (file' = file \/ file' = SM!Torn)
        /\ (atStop' = atStop \/ atStop' = SM!NoClient)
    BY <1>2, <1>5 DEF SM!BootStart, SM!BootLogin, SM!BootAbort, SM!managerVars, SM!fileVars, SM!Truncate
  <2>2. CASE SM!BootStart \/ SM!BootAbort
    BY <1>1, <1>3, <2>1, <2>2 DEF LoginsIssued, Issued, SM!BootStart, SM!BootAbort, SM!serverVars
  <2>3. CASE SM!BootLogin
    <3>1. issued \in Nat /\ issued' = issued + 1 /\ issued' \in 0..MaxLogins /\ boot' = "writing"
      BY <1>1, <2>3, ListenerAssumption DEF SM!BootLogin, LoginsIssued, ListenerAssumption
    <3>2. ASSUME NEW x \in SM!Session, x[1] <= issued PROVE x[1] <= issued' /\ x[1] < issued'
      BY <3>1, <3>2, SessionParts
    <3>3. Issued(client)'
      BY <1>1, <2>1, <3>2 DEF LoginsIssued, Issued
    <3>4. Issued(file)'
      BY <1>1, <1>3, <2>1, <3>2 DEF LoginsIssued, Issued
    <3>5. Issued(atStop)'
      BY <1>1, <1>3, <2>1, <3>2 DEF LoginsIssued, Issued
    <3> QED
      BY <3>1, <3>3, <3>4, <3>5 DEF LoginsIssued
  <2> QED
    BY <1>5, <2>2, <2>3
<1>6. CASE SM!BootWritten
  <2>1. boot = "writing" /\ boot' = "idle" /\ file' = <<issued, 0>> /\ UNCHANGED <<client, issued>>
    BY <1>6 DEF SM!BootWritten, SM!Fill, SM!managerVars, SM!serverVars
  <2>2. issued \in Nat /\ file'[1] = issued
    BY <1>1, <2>1, ListenerAssumption DEF LoginsIssued, ListenerAssumption
  <2>3. Issued(file)'
    BY <2>1, <2>2 DEF Issued
  <2> QED
    BY <1>1, <1>2, <1>3, <2>1, <2>2, <2>3 DEF LoginsIssued, Issued
<1>7. CASE SM!TelegramUpdates
  <2>1. client \in SM!Session /\ client'[1] = client[1]
        /\ UNCHANGED <<file, boot, issued>>
    BY <1>1, <1>7 DEF SM!TelegramUpdates, ManagerHolds, SM!fileVars, SM!bootVars, SM!serverVars
  <2> QED
    BY <1>1, <1>2, <1>3, <2>1 DEF LoginsIssued, Issued
<1>8. CASE ~(SM!BootStart \/ SM!BootLogin \/ SM!BootAbort \/ SM!BootWritten \/ SM!TelegramUpdates)
  BY <1>1, <1>2, <1>3, <1>4, <1>8 DEF LoginsIssued, Issued
<1> QED
  BY <1>5, <1>6, <1>7, <1>8

LEMMA TypeAndStage ==
    ASSUME IInv, [Next]_vars
    PROVE  TypeOK' /\ StageByPhase'
<1>1. /\ phase \in Phases /\ handled \in BOOLEAN /\ link \in {"up", "lost", "down"}
      /\ stopping \in BOOLEAN /\ since \in 0..Grace /\ atStop \in SM!Session \cup {SM!NoClient}
      /\ client \in SM!Session \cup {SM!NoClient} /\ StageByPhase
  BY DEF IInv, TypeOK, ManagerHolds
<1>2. iofails' \in Nat
  BY ManagerHoldsStep
<1>3. 0 \in 0..Grace /\ (since < Grace => since + 1 \in 0..Grace)
  BY <1>1, ListenerAssumption DEF ListenerAssumption
<1> USE DEF TypeOK, StageByPhase, Phases, runVars, stopVars, Enter, SM!Over
<1>4. CASE Start
  BY <1>1, <1>2, <1>4 DEF Start, SM!ContainerStart
<1>5. CASE Connecting
  BY <1>1, <1>2, <1>5 DEF Connecting, SM!Connect, SM!ReadSession, SM!Dial, SM!CheckAuthorized,
                          SM!CloseRefused
<1>6. CASE Reconciled \/ ReconcileFails \/ LinkLost \/ HungUp \/ TimesOut
  <2>1. stage' = stage
    BY <1>6 DEF Reconciled, ReconcileFails, LinkLost, HungUp, TimesOut, smVars
  <2>2. CASE Reconciled
    BY <1>1, <1>2, <2>1, <2>2 DEF Reconciled
  <2>3. CASE ReconcileFails
    BY <1>1, <1>2, <2>1, <2>3 DEF ReconcileFails
  <2>4. CASE LinkLost
    BY <1>1, <1>2, <2>1, <2>4 DEF LinkLost
  <2>5. CASE HungUp
    BY <1>1, <1>2, <2>1, <2>5 DEF HungUp
  <2>6. CASE TimesOut
    BY <1>1, <1>2, <2>1, <2>6 DEF TimesOut
  <2> QED
    BY <1>6, <2>2, <2>3, <2>4, <2>5, <2>6
<1>7. CASE Finalize
  BY <1>1, <1>2, <1>7 DEF Finalize, SM!Disconnect, SM!DisconnectRaises, SM!FinalSave, SM!ClientClosed
<1>8. CASE Exit \/ Crash \/ SigKill
  BY <1>1, <1>2, <1>3, <1>8 DEF Exit, Crash, SigKill, Gone, SM!Exit, SM!Kill, SM!Die
<1>9. CASE Background
  BY <1>1, <1>2, <1>9 DEF Background, SM!WriterWakes, SM!WriterFails, SM!WriteDone,
     SM!TelegramUpdates, SM!BootStart, SM!BootLogin, SM!BootWritten, SM!BootAbort, SM!Revoke,
     SM!managerVars
<1>10. CASE SigTerm \/ SigTermUnhandled
  <2>1. atStop' \in SM!Session \cup {SM!NoClient}
    BY <1>1, <1>10 DEF SigTerm, SigTermUnhandled, AtStop
  <2>2. CASE SigTerm
    BY <1>1, <1>2, <1>3, <2>1, <2>2 DEF SigTerm, smVars
  <2>3. CASE SigTermUnhandled
    BY <1>1, <1>2, <2>1, <2>3 DEF SigTermUnhandled, SM!Kill, SM!Die
  <2> QED
    BY <1>10, <2>2, <2>3
<1>11. CASE Tick
  BY <1>1, <1>2, <1>3, <1>11 DEF Tick, smVars
<1>12. CASE UNCHANGED vars
  BY <1>1, <1>2, <1>12 DEF vars, smVars
<1> QED
  BY <1>4, <1>5, <1>6, <1>7, <1>8, <1>9, <1>10, <1>11, <1>12 DEF Next, Run

LEMMA NotOlderSelf == \A s \in SM!Session : SM!NotOlder(s, s)
  BY SessionParts DEF SM!NotOlder

\* No step of the process takes back what the client held at SIGTERM.
LEMMA KeptStep ==
    ASSUME IInv, [Next]_vars
    PROVE  KeptSinceStop'
<1> SUFFICES ASSUME stopping', atStop' # SM!NoClient, iofails' = 0
             PROVE  /\ stage' \in {"alive", "writing", "final"} => SM!NotOlder(client', atStop')
                    /\ stage' \in {"closing", "closed", "raised"} => FileKept'
  BY DEF KeptSinceStop
<1>1. iofails = 0 /\ ManagerHolds /\ StageByPhase /\ LoginsIssued /\ KeptSinceStop
  BY ManagerHoldsStep DEF IInv
<1>2. atStop \in SM!Session \cup {SM!NoClient} /\ writer # "dead" /\ stage # "writerRaised"
  BY <1>1 DEF IInv, TypeOK, ManagerHolds
<1>3. CASE SigTerm
  BY <1>1, <1>3, NotOlderSelf DEF SigTerm, AtStop, smVars, ManagerHolds, StageByPhase, SM!Connected,
     SM!Over
<1>4. ASSUME ~SigTerm PROVE stopping /\ atStop' = atStop /\ handled /\ phase # "gone"
  <2>1. stopping /\ atStop' = atStop
    BY <1>1, <1>4 DEF StageByPhase, Next, Run, Start, Connecting, Reconciled, ReconcileFails, LinkLost,
       HungUp, TimesOut, Finalize, Exit, Crash, Gone, Background, SigTermUnhandled, Tick, SigKill,
       stopVars, vars
  <2> QED
    BY <1>1, <2>1 DEF StageByPhase
<1>5. ASSUME ~SigTerm PROVE
      /\ stage \in {"alive", "writing", "final"} => SM!NotOlder(client, atStop')
      /\ stage \in {"closing", "closed", "raised"} => FileKept
      /\ atStop' \in SM!Session /\ atStop' = atStop
  BY <1>1, <1>2, <1>4, <1>5 DEF KeptSinceStop
<1>6. CASE UNCHANGED smVars /\ ~SigTerm
  BY <1>5, <1>6 DEF smVars, FileKept
<1>7. CASE Finalize
  <2>1. ~SigTerm
    BY <1>1, <1>7 DEF SigTerm, Finalize, smVars, SM!Disconnect, SM!DisconnectRaises, SM!FinalSave,
       SM!ClientClosed
  <2>2. CASE SM!Disconnect \/ SM!DisconnectRaises
    BY <1>1, <1>2, <1>4, <1>5, <2>1, <2>2 DEF SM!Disconnect, SM!DisconnectRaises, SM!IOFail, StageByPhase
  <2>3. CASE SM!FinalSave
    BY <1>1, <1>5, <2>1, <2>3 DEF SM!FinalSave, SM!IOFail, SM!Fill, ManagerHolds, SM!Connected, FileKept
  <2>4. CASE SM!ClientClosed
    BY <1>1, <1>5, <2>1, <2>4 DEF SM!ClientClosed, SM!fileVars, SM!bootVars, FileKept
  <2> QED
    BY <1>7, <2>2, <2>3, <2>4 DEF Finalize
<1>8. CASE Background
  <2>1. ~SigTerm
    BY <1>8 DEF SigTerm, Background, stopVars
  <2>2. CASE SM!TelegramUpdates
    <3>1. client \in SM!Session /\ stage' = stage /\ file' = file /\ overtaken' = overtaken
      BY <1>1, <2>2 DEF SM!TelegramUpdates, ManagerHolds, SM!fileVars, SM!bootVars
    <3>2. client' = <<client[1], client[2] + 1>>
      BY <2>2 DEF SM!TelegramUpdates
    <3>3. client'[1] = client[1] /\ client'[2] = client[2] + 1
      BY <3>2
    <3>4. ASSUME SM!NotOlder(client, atStop') PROVE SM!NotOlder(client', atStop')
      BY <1>5, <2>1, <3>1, <3>3, <3>4, SessionParts DEF SM!NotOlder
    <3> QED
      BY <1>5, <2>1, <3>1, <3>4 DEF FileKept
  <2>3. CASE SM!WriterWakes \/ SM!WriteDone
    BY <1>5, <2>1, <2>3 DEF SM!WriterWakes, SM!WriteDone
  <2>4. CASE SM!WriterFails
    BY <1>1, <2>4 DEF SM!WriterFails, SM!IOFail
  <2>5. CASE SM!BootStart \/ SM!BootLogin \/ SM!BootWritten \/ SM!BootAbort \/ SM!Revoke
    <3>1. UNCHANGED SM!managerVars
      BY <2>5 DEF SM!BootStart, SM!BootLogin, SM!BootWritten, SM!BootAbort, SM!Revoke
    <3>2. CASE SM!BootLogin
      BY <1>5, <2>1, <3>1, <3>2 DEF SM!BootLogin, SM!Truncate, SM!managerVars, FileKept
    <3>3. CASE SM!BootWritten
      <4>1. file' = <<issued, 0>> /\ atStop \in SM!Session /\ boot = "writing"
        BY <1>5, <2>1, <3>3 DEF SM!BootWritten, SM!Fill
      <4>2. issued \in 1..MaxLogins /\ atStop[1] < issued
        BY <1>1, <4>1, ListenerAssumption DEF LoginsIssued, Issued, ListenerAssumption
      <4>3. file' \in SM!Session /\ file'[1] = issued
        BY <4>1, <4>2, ListenerAssumption DEF SM!Session, ListenerAssumption
      <4>4. FileKept'
        BY <1>5, <2>1, <4>2, <4>3 DEF FileKept, SM!NotOlder
      <4> QED
        BY <1>5, <2>1, <3>1, <4>4 DEF SM!managerVars
    <3>4. CASE SM!BootStart \/ SM!BootAbort \/ SM!Revoke
      BY <1>5, <2>1, <3>1, <3>4 DEF SM!BootStart, SM!BootAbort, SM!Revoke, SM!managerVars,
         SM!fileVars, SM!bootVars, FileKept
    <3> QED
      BY <2>5, <3>2, <3>3, <3>4
  <2> QED
    BY <1>8, <2>2, <2>3, <2>4, <2>5 DEF Background
<1>9. CASE Connecting \/ Start
  <2>1. FALSE
    BY <1>1, <1>9 DEF Connecting, Start, StageByPhase, stopVars, Enter
  <2> QED
    BY <2>1
<1>10. CASE Exit \/ Crash \/ SigKill \/ SigTermUnhandled
  BY <1>1, <1>10 DEF Exit, Crash, SigKill, SigTermUnhandled, Gone, StageByPhase
<1>11. CASE Reconciled \/ ReconcileFails \/ LinkLost \/ HungUp \/ TimesOut \/ Tick \/ UNCHANGED vars
  BY <1>3, <1>6, <1>11 DEF Reconciled, ReconcileFails, LinkLost, HungUp, TimesOut, Tick, vars
<1> QED
  BY <1>3, <1>7, <1>8, <1>9, <1>10, <1>11 DEF Next, Run

LEMMA InductiveInvariant == Spec => []IInv
<1>1. ASSUME IInv, [Next]_vars PROVE IInv'
  BY <1>1, ManagerHoldsStep, TypeAndStage, LoginsIssuedStep, KeptStep DEF IInv
<1> QED
  BY InitIInv, <1>1, PTL DEF Spec

\* A stop of the listener that is over before docker's grace period ends has
\* saved the session, also when it met a running save, a lost connection or a
\* finally block on its way, unless a file operation failed or the bootstrap
\* CLI has torn the file.
THEOREM StopSavesInTime == Spec => OrderlyStopSaves
<1>1. ASSUME IInv, [Next]_vars, stopping, since < Grace, phase # "gone", phase' = "gone"
      PROVE  SavedAtEnd
  <2>1. since \in Nat /\ handled /\ StageByPhase
    BY <1>1, ListenerAssumption DEF IInv, TypeOK, StageByPhase, ListenerAssumption
  <2>2. ~SigKill
    BY <1>1, <2>1, ListenerAssumption DEF SigKill, ListenerAssumption
  <2>3. Exit
    BY <1>1, <2>1, <2>2 DEF Next, Run, Start, Connecting, Reconciled, ReconcileFails, LinkLost, HungUp,
       TimesOut, Finalize, Crash, Background, SigTerm, SigTermUnhandled, Tick, Enter, runVars, vars
  <2>4. stage \in SM!Over /\ UNCHANGED <<file, overtaken, iofails, atStop>>
    BY <2>3 DEF Exit, Gone, SM!Exit, SM!fileVars, SM!bootVars, SM!NoFault
  <2>5. ASSUME iofails = 0 PROVE stage \in {"closed", "raised"}
    <3>1. stage # "failed" /\ stage # "writerRaised"
      BY <1>1, <2>1, <2>5 DEF StageByPhase, IInv, ManagerHolds
    <3> QED
      BY <2>4, <3>1 DEF SM!Over
  <2> QED
    BY <1>1, <2>4, <2>5 DEF SavedAtEnd, IInv, KeptSinceStop, FileKept
<1>2. IInv /\ [Next]_vars =>
        [stopping /\ since < Grace /\ phase # "gone" /\ phase' = "gone" => SavedAtEnd]_vars
  BY <1>1
<1> QED
  BY InductiveInvariant, <1>2, PTL DEF Spec, OrderlyStopSaves
=============================================================================

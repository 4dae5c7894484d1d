------------------------------ MODULE Listener ------------------------------
(***************************************************************************)
(* run() of listener/main.py around the session manager, in a container    *)
(* that docker starts, stops and starts again.  The source map that        *)
(* _reconcile_sources builds is the subject of SourceRegistry, the message *)
(* handlers are the subject of MessagePipeline.                            *)
(*                                                                         *)
(* `docker stop` sends SIGTERM and, Grace seconds later, SIGKILL.  tini is *)
(* PID 1 and forwards SIGTERM to python: before run() has registered its   *)
(* handlers, the default action of the signal ends the process.            *)
(***************************************************************************)
EXTENDS Naturals

CONSTANTS MaxLogins, MaxVersions, MaxKills, MaxIOFails,
          Timeout,   \* of the wait_for around client.disconnect(): 8 s
          Grace,     \* docker's grace period: 10 s
          MaxHangup  \* bound: the seconds Telethon takes to disconnect

ASSUME ListenerAssumption ==
    /\ MaxLogins \in Nat \ {0} /\ MaxVersions \in Nat
    /\ MaxKills \in Nat /\ MaxIOFails \in Nat
    /\ Timeout \in Nat /\ Grace \in Nat /\ MaxHangup \in Nat /\ Timeout < Grace

VARIABLES file, stage, client, writer, marker, boot, issued, revoked, saved,
          overtaken, kills, iofails

SM == INSTANCE SessionManager

VARIABLES phase,    \* where run() is
          handled,  \* add_signal_handler was called
          link,     \* the MTProto connection: "up", "lost" or "down"
          stopping, \* SIGTERM was sent to this process
          since,    \* seconds since
          atStop    \* the session the manager had in its care then

smVars   == <<file, stage, client, writer, marker, boot, issued, revoked, saved,
              overtaken, kills, iofails>>
runVars  == <<phase, handled, link>>
stopVars == <<stopping, since, atStop>>
vars     == <<smVars, runVars, stopVars>>

Init ==
    /\ SM!Init
    /\ phase = "gone" /\ handled = FALSE /\ link = "down"
    /\ stopping = FALSE /\ since = 0 /\ atStop = SM!NoClient

Enter(p) == phase' = p /\ UNCHANGED <<handled, link>>

-----------------------------------------------------------------------------
(* run() *)

\* restart: unless-stopped, or the next `up -d` after a stop.
Start ==
    /\ phase = "gone"
    /\ SM!ContainerStart
    /\ Enter("connecting") /\ UNCHANGED stopVars

\* await session_mgr.connect(), outside the try: when it raises, nothing is
\* cleaned up and the process ends.
Connecting ==
    /\ phase = "connecting"
    /\ SM!Connect
    /\ phase' = CASE stage' = "alive"  -> "reconciling"
                  [] stage' = "failed" -> "exiting"
                  [] OTHER             -> "connecting"
    /\ link' = IF stage' = "alive" THEN "up" ELSE link
    /\ UNCHANGED <<handled, stopVars>>

\* _reconcile_sources returns, the message handler and then the signal
\* handlers are installed.
Reconciled ==
    /\ phase = "reconciling" /\ stage = "alive"
    /\ phase' = "serving" /\ handled' = TRUE
    /\ UNCHANGED <<link, stopVars, smVars>>

\* SystemExit(1), an IntegrityError, a network or database error: finally.
ReconcileFails ==
    /\ phase = "reconciling" /\ stage = "alive"
    /\ Enter("finalizing") /\ UNCHANGED <<stopVars, smVars>>

\* Mutant: gather(..., return_exceptions=True) waits for the signal as well.
GatherWaits ==
    /\ phase = "serving" /\ stage = "alive" /\ link = "up"
    /\ link' = "lost"
    /\ UNCHANGED <<phase, handled, stopVars, smVars>>

\* Telethon gives up reconnecting: run_until_disconnected() raises, gather
\* passes it on and leaves _wait_for_shutdown behind.
LinkLost ==
    /\ phase = "serving" /\ stage = "alive" /\ link = "up"
    /\ phase' = "finalizing" /\ link' = "lost"
    /\ UNCHANGED <<handled, stopVars, smVars>>

\* client.disconnect() is over, in time or late: both awaitables of gather
\* have returned.
HungUp ==
    /\ phase \in {"hangup", "late"}
    /\ phase' = "finalizing" /\ link' = "down"
    /\ UNCHANGED <<handled, stopVars, smVars>>

\* wait_for raises TimeoutError, which is logged.  The disconnect goes on (it
\* is shielded), and gather still waits for run_until_disconnected().
TimesOut ==
    /\ phase = "hangup" /\ since = Timeout
    /\ Enter("late") /\ UNCHANGED <<stopVars, smVars>>

\* Mutant: the finally block does not disconnect the session manager.
FinalizeWithoutSave ==
    /\ phase = "finalizing" /\ stage = "alive"
    /\ SM!Die /\ UNCHANGED <<kills, iofails>>
    /\ phase' = "gone" /\ handled' = FALSE /\ link' = "down"
    /\ UNCHANGED stopVars

\* finally: await session_mgr.disconnect(), which may raise.
Finalize ==
    /\ phase = "finalizing"
    /\ SM!Disconnect \/ SM!DisconnectRaises \/ SM!FinalSave \/ SM!ClientClosed
    /\ Enter(IF stage' \in SM!Over THEN "exiting" ELSE "finalizing")
    /\ UNCHANGED stopVars

Gone == phase' = "gone" /\ handled' = FALSE /\ link' = "down"
        /\ stopping' = FALSE /\ since' = 0 /\ UNCHANGED atStop

Exit == phase = "exiting" /\ SM!Exit /\ Gone

\* OOM killer, host failure.  (During a stop this is SigKill's business.)
Crash == ~stopping /\ SM!Kill /\ Gone

-----------------------------------------------------------------------------
(* The coroutines beside run(), and the other container *)

\* disconnect() cancels the writer before it first awaits, so the writer does
\* not wake in the finally block; a connection that is gone changes nothing.
Background ==
    /\ \/ SM!WriterWakes /\ phase # "finalizing"
       \/ SM!WriterFails /\ (phase # "finalizing" \/ stage = "writing")
       \/ SM!WriteDone
       \/ SM!TelegramUpdates /\ (phase = "connecting" \/ link = "up")
       \/ SM!BootStart \/ SM!BootLogin \/ SM!BootWritten \/ SM!BootAbort
       \/ SM!Revoke
    /\ UNCHANGED <<runVars, stopVars>>

-----------------------------------------------------------------------------
(* docker stop *)

AtStop == atStop' = IF stage \in {"alive", "writing"} THEN client ELSE SM!NoClient

\* SIGTERM after the handlers are registered: stop_event.set().  A serving
\* run() begins to hang up; one in its finally block goes on with it.
SigTerm ==
    /\ handled /\ ~stopping /\ phase # "gone"
    /\ stopping' = TRUE /\ since' = 0 /\ AtStop
    /\ Enter(IF phase = "serving" THEN "hangup" ELSE phase)
    /\ UNCHANGED smVars

\* SIGTERM before: the default action.
SigTermUnhandled ==
    /\ ~handled /\ phase # "gone"
    /\ SM!Kill
    /\ AtStop
    /\ phase' = "gone" /\ link' = "down" /\ UNCHANGED <<handled, stopping, since>>

\* Time passes while run() waits for Telethon.  What is due happens first:
\* the timeout at Timeout, the end of the hangup at MaxHangup.
Tick ==
    /\ stopping /\ since < Grace
    /\ \/ phase = "hangup" /\ since < Timeout
       \/ phase = "late"
    /\ since < MaxHangup
    /\ since' = since + 1
    /\ UNCHANGED <<runVars, stopping, atStop, smVars>>

SigKill ==
    /\ stopping /\ since = Grace
    /\ SM!Kill /\ Gone

-----------------------------------------------------------------------------
Run == Connecting \/ Reconciled \/ TimesOut \/ Finalize \/ Exit

Next ==
    \/ Start \/ Run \/ HungUp \/ ReconcileFails \/ LinkLost \/ Crash
    \/ Background
    \/ SigTerm \/ SigTermUnhandled \/ Tick \/ SigKill

Spec == Init /\ [][Next]_vars

\* The event loop goes on and a write that was started ends.  Of Telethon,
\* Telegram, docker and the operator nothing is assumed.
FairSpec == Spec /\ WF_vars(Run) /\ WF_vars(SM!WriteDone /\ Background)

-----------------------------------------------------------------------------
(* Properties *)

\* A stopped process: a complete session is on disk, and no older than what the
\* client held when SIGTERM came, unless a file operation failed or the
\* bootstrap CLI has the file open, or died over it.
SavedAtEnd ==
    atStop' # SM!NoClient /\ iofails' = 0 =>
        \/ file' \in SM!Session /\ SM!NotOlder(file', atStop')
        \/ overtaken' /\ file' = SM!Torn

\* A stop that docker need not end by SIGKILL has saved the session, also when
\* it met a running save, a lost connection or a finally block on its way.
OrderlyStopSaves ==
    [][stopping /\ since < Grace /\ phase # "gone" /\ phase' = "gone" =>
          SavedAtEnd]_vars

\* Docstring of _wait_for_shutdown: its timeout keeps the stop under docker's
\* grace period, so that SIGKILL does not fire before the final save.
StopSaves ==
    [][stopping /\ phase # "gone" /\ phase' = "gone" => SavedAtEnd]_vars

\* A listener Telethon has given up on does not sit there as "healthy": the
\* process ends, and docker starts another.
DeafListenerEnds == link = "lost" ~> phase = "gone"
=============================================================================

------------------------------- MODULE MCReset -------------------------------
(* What the backend keeps for the whole host, one part at a time: the       *)
(* lishnet gate by itself, the factory reset over it, the settings, and the *)
(* volume.  mode says which moves; the settings and the volume may rest.    *)
EXTENDS FactoryReset, Settings, Volume, TLC

CONSTANTS w1, w2, w3, m1, m2

VARIABLE mode

mcInit == /\ mode \in {"gate", "reset", "settings", "volume"}
          /\ Init /\ ResetInit /\ SettingsInit /\ VolumeInit
mcNext == /\ UNCHANGED mode
          /\ \/ mode = "gate" /\ Next /\ UNCHANGED <<resetVars, settingsVars, volumeVars>>
             \/ /\ mode = "reset" /\ ResetNext /\ wpc'[w3] = "outside"
                /\ UNCHANGED <<settingsVars, volumeVars>>
             \/ mode = "settings" /\ SettingsNext /\ UNCHANGED <<allResetVars, volumeVars>>
             \/ mode = "volume" /\ VolumeNext /\ UNCHANGED <<allResetVars, settingsVars>>
             \/ mode \in {"settings", "volume"} /\ UNCHANGED <<allResetVars, settingsVars, volumeVars>>
allVars == <<allResetVars, settingsVars, volumeVars, mode>>
In(part, A) == mode = part /\ A
\* The fairness of the gate where it moves by itself.
GateFairness ==
  /\ \A w \in Writer : WF_vars(In("gate", EnterAgain(w))) /\ WF_vars(In("gate", Leave(w)))
  /\ \A m \in Maintainer : /\ WF_vars(In("gate", mpc[m] = "woken" /\ Prepare(m)))
                           /\ WF_vars(In("gate", Drained(m))) /\ WF_vars(In("gate", Release(m)))
\* Calls end and promises settle; a lishnet write ends because the reset cancels its dials.
ResetFairness ==
  /\ WF_allResetVars(In("reset", \E m \in Maintainer : ResetStep(m)))
  /\ \A g \in AdmissionGate : WF_allResetVars(In("reset", CallLeaves(g)))
  /\ \A w \in Writer :
         WF_allResetVars(In("reset", UNCHANGED resetVars /\ (EnterAgain(w) \/ Leave(w))))
mcSpec == mcInit /\ [][mcNext]_allVars /\ GateFairness /\ ResetFairness

-----------------------------------------------------------------------------
\* Nobody waits at a gate for ever: a drain ends with the last write, a reset
\* ends, and the lishnet writes it held up go on (lishnets.ts take,
\* factory-reset-orchestrator.ts).  The passes are alike, and so are the
\* writes that both parts have, so one of each is enough.
EverybodyGetsOn == DrainEnds(m1) /\ ResetEnds(m1) /\ WriteGoesOn(w1)

\* The settings and the volume: when the calls are through, the file, the
\* protocol layer and the client hold what is stored, and a chunk fits into a
\* message; the newest volume is the one that is written, and at rest a client
\* shows the mixer (settings.ts, storage.ts, system-volume.ts).
HostHolds == /\ SettingsTypeOK /\ FileIsStored /\ PairIsUsable /\ SpeedIsApplied /\ ScreenIsStored
             /\ VolumeTypeOK /\ LatestIsWritten /\ ShownIsMixer
=============================================================================

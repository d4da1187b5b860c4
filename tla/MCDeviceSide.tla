---- MODULE MCDeviceSide ----
(***************************************************************************)
(* What the RP does for the ST and for itself: GEMDRIVE's tables,          *)
(* adv/load, the crash guard with the launch gate, the ring of samples,    *)
(* the settings and the SELECT button.  As in MCNetSide the models share   *)
(* no variable, and a behaviour chooses the part that moves.               *)
(***************************************************************************)
EXTENDS GemdriveTables, AdvLoad, BootGuard, CaptureRing, SettingsStore,
        SelectButton, TLC

VARIABLE part

deviceVars ==
    <<part, tablesVars, loadVars, bootVars, captureVars, settingsVars, selectVars>>

\* a part that keeps still has one initial state
DeviceInit ==
    /\ part \in {"tables", "load", "boot", "capture", "settings", "select"}
    /\ TablesInit /\ LoadInit /\ BootInit /\ CaptureInit /\ SettingsInit
    /\ SelectInit
    /\ part # "tables" => workload = "files"
    /\ part # "boot" => card

DeviceNext ==
    /\ \/ /\ part = "tables" /\ TablesNext
          /\ UNCHANGED <<loadVars, bootVars, captureVars, settingsVars, selectVars>>
       \/ /\ part = "load" /\ LoadNext
          /\ UNCHANGED <<tablesVars, bootVars, captureVars, settingsVars, selectVars>>
       \/ /\ part = "boot" /\ BootNext
          /\ UNCHANGED <<tablesVars, loadVars, captureVars, settingsVars, selectVars>>
       \/ /\ part = "capture" /\ CaptureNext
          /\ UNCHANGED <<tablesVars, loadVars, bootVars, settingsVars, selectVars>>
       \/ /\ part = "settings" /\ SettingsNext
          /\ UNCHANGED <<tablesVars, loadVars, bootVars, captureVars, selectVars>>
       \/ /\ part = "select" /\ SelectNext
          /\ UNCHANGED <<tablesVars, loadVars, bootVars, captureVars, settingsVars>>
    /\ UNCHANGED part

DeviceSpec == DeviceInit /\ [][DeviceNext]_deviceVars

\* All parts keep to their types.
DeviceTypeOK ==
    /\ TablesTypeOK /\ LoadTypeOK
    /\ BootTypeOK /\ CaptureTypeOK /\ SettingsTypeOK
    /\ SelectTypeOK

\* nothing orders files or DTA addresses
Symmetry == Permutations(Paths) \cup Permutations(Dtas)
====

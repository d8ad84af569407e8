----------------------------- MODULE MCDevices -----------------------------
(***************************************************************************)
(* The drivers, each on its own card: `part` says which one runs.           *)
(***************************************************************************)
EXTENDS Disk, Emu, Console, Lamebus

VARIABLE part

devicesVars == <<diskVars, emuVars, conVars, busVars, part>>

\* Cards and CPUs differ only where the bus runs.
DevicesInit ==
    /\ part \in {"disk", "emu", "console", "bus"}
    /\ DiskInit /\ EmuInit /\ ConInit /\ BusInit
    /\ part # "bus" => (\A s \in Slot : card[s] = "none") /\ cpumask = HwCpus
                       /\ self = Ascending(HwCpus)[1]

DevicesNext ==
    /\ \/ part = "disk" /\ DiskNext /\ UNCHANGED <<emuVars, conVars, busVars>>
       \/ part = "emu" /\ EmuNext /\ UNCHANGED <<diskVars, conVars, busVars>>
       \/ part = "console" /\ ConNext /\ UNCHANGED <<diskVars, emuVars, busVars>>
       \/ part = "bus" /\ BusNext /\ UNCHANGED <<diskVars, emuVars, conVars>>
    /\ UNCHANGED part

DevicesSpec == DevicesInit /\ [][DevicesNext]_devicesVars
=============================================================================

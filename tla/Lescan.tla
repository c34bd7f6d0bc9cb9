------------------------------ MODULE Lescan ------------------------------
(***************************************************************************)
(* One run of the lescan tool: a copy of scanBeacons whose outputValues is *)
(* still to be written, and the two programs side by side.  The functions  *)
(* of lescan.c that the Java scanner calls are in module DeviceLookup.     *)
(***************************************************************************)
EXTENDS ScanBeacons

main == MainUpToScan \/ MainAfterScan

print_advertising_devices ==
    \/ StartScan \/ Top \/ Read \/ IgnoreEvent \/ EvaluateReport \/ CheckAndDone

\* "do nothing at the moment"
noOutput ==
    /\ pc = "output"
    /\ Scan!Exit(0)
    /\ UNCHANGED <<failed, mainVars, sums, now, setBack, arrived, errors, signals,
                   loopVars>>

LescanProcess == main \/ print_advertising_devices \/ noOutput

----------------------------------------------------------------------------
\* The two programs side by side: either of them runs.

VARIABLE tool

toolVars == <<vars, tool>>

ToolsInit == Init /\ tool \in {"scanBeacons", "lescan"}

ToolsProcess == \/ tool = "scanBeacons" /\ Process
                \/ tool = "lescan" /\ LescanProcess

ToolsNext == /\ UNCHANGED tool
             /\ ToolsProcess \/ ReadError \/ Outside \/ Idle

ToolsSpec == ToolsInit /\ [][ToolsNext]_toolVars
                       /\ WF_toolVars(UNCHANGED tool /\ ToolsProcess)
                       /\ WF_toolVars(UNCHANGED <<tool, loopVars>> /\ Scan!Tick)

----------------------------------------------------------------------------
(***************************************************************************)
(* Properties, of both programs                                            *)
(***************************************************************************)

\* Apart from the output that lescan leaves out, the programs do what scanMijia
\* does wherever an event has one report and read does not fail.
ToolsImplementScanMijia ==
    Scan!Init /\ [][AsScanMijia \/ (tool = "lescan" /\ noOutput)]_toolVars
=============================================================================

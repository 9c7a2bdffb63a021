----------------------------- MODULE Collector -----------------------------
(***************************************************************************)
(* The collector as a service of a Linux host: the control script          *)
(* (aws-opentelemetry-collector-ctl) runs step by step, systemd keeps the  *)
(* unit and restarts it after a failure, and the process (main.go) loads   *)
(* config.yaml, makes its exporter and ends with an error if it cannot.    *)
(*                                                                         *)
(* One script runs at a time, on a host with systemd.  The process and the *)
(* host may fail at any moment, and so may a command of the script (set -e *)
(* then ends it).  systemd is external, as the unit file configures it:    *)
(* Type=simple, Restart=on-failure, WantedBy=multi-user.                   *)
(***************************************************************************)
EXTENDS Session, Naturals

CONSTANTS
    Files,                  \* configurations an operator has
    Machines,               \* hosts the collector is installed on
    Torn,                   \* a config.yaml copied in part
    NoFile,                 \* -c not given, or not the name of a file
    MaxFaults,              \* bound on the failures of process, host and script
    MaxCalls                \* bound on the calls of the script

ASSUME CollectorAssumption ==
    /\ Files \subseteq Configs /\ Machines \subseteq Hosts
    /\ Torn \notin Files /\ NoFile \notin Files
    /\ MaxFaults \in Nat /\ MaxCalls \in Nat

VARIABLES
    host,                   \* the machine
    network,                \* the network is up
    file,                   \* config.yaml
    enabled,                \* the unit is started at boot
    unit,                   \* systemd's state of the unit
    process,                \* where main() is
    loaded,                 \* the configuration the process works with
    region,                 \* the region of its exporter
    credentials,            \* the credentials of its exporter
    ctl,                    \* where the script is
    action,                 \* the action it was called with
    wanted,                 \* its -c
    last,                   \* history: how the last script ended
    missedRestart,          \* history: its stop found a restart pending
    faults, calls

hostVars    == <<host, network, faults>>
unitVars    == <<enabled, unit>>
processVars == <<process, loaded, region, credentials>>
scriptVars  == <<ctl, action, wanted, last, missedRestart, calls>>
vars == <<hostVars, file, unitVars, processVars, scriptVars>>

NoProcess ==
    /\ process' = "none" /\ loaded' = NoFile /\ region' = NoRegion
    /\ credentials' = DefaultCredentials

NewProcess ==
    /\ process' = "started" /\ loaded' = NoFile /\ region' = NoRegion
    /\ credentials' = DefaultCredentials

StartUnit == unit' = "active" /\ NewProcess

(* Mutants of FailUnit: the error is not fatal, so that main ends normally; *)
(* the process stays.                                                      *)
EndNormally == unit' = "inactive" /\ NoProcess
FailUnitOnly == unit' = "auto-restart" /\ UNCHANGED processVars

(* The process ends with an error: log.Fatal exits with status 1.          *)
FailUnit == unit' = "auto-restart" /\ NoProcess

-----------------------------------------------------------------------------

(* Installed, not yet started. *)
Init ==
    /\ host \in Machines /\ network = TRUE /\ faults = 0
    /\ file \in Files
    /\ enabled = FALSE /\ unit = "inactive"
    /\ process = "none" /\ loaded = NoFile /\ region = NoRegion
    /\ credentials = DefaultCredentials
    /\ ctl = "idle" /\ action = "none" /\ wanted = NoFile
    /\ last = "none" /\ missedRestart = FALSE /\ calls = 0

-----------------------------------------------------------------------------
(* The script. *)

Ends(outcome) == ctl' = "idle" /\ last' = outcome

CallScript ==
    /\ ctl = "idle" /\ calls < MaxCalls
    /\ calls' = calls + 1
    /\ \/ /\ action' = "start" /\ \E f \in Files \cup {NoFile} : wanted' = f
          /\ ctl' = IF wanted' = NoFile THEN "enable" ELSE "copy"
       \/ /\ action' \in {"stop", "preun"} /\ wanted' = NoFile
          /\ ctl' = "check"
    /\ missedRestart' = FALSE
    /\ UNCHANGED <<hostVars, file, unitVars, processVars, last>>

(* cp empties config.yaml, then writes it. *)
Copy ==
    /\ \/ ctl = "copy" /\ file' = Torn /\ ctl' = "copying"
       \/ ctl = "copying" /\ file' = wanted /\ ctl' = "enable"
    /\ UNCHANGED <<hostVars, unitVars, processVars, action, wanted, last, missedRestart, calls>>

Enable ==
    /\ ctl = "enable"
    /\ enabled' = TRUE /\ ctl' = "restart"
    /\ UNCHANGED <<hostVars, file, unit, processVars, action, wanted, last, missedRestart, calls>>

(* Mutant of Restart: service start, which leaves an active unit alone.    *)
Start ==
    /\ ctl = "restart"
    /\ IF unit = "active" THEN UNCHANGED <<unit, processVars>> ELSE StartUnit
    /\ Ends("start")
    /\ UNCHANGED <<hostVars, file, enabled, action, wanted, missedRestart, calls>>

(* service restart: a process that runs ends first. *)
Restart ==
    /\ ctl = "restart"
    /\ \/ /\ unit = "active" /\ unit' = "stopping"
          /\ UNCHANGED <<processVars, ctl, last>>
       \/ /\ unit \notin {"active", "stopping"}
          /\ StartUnit /\ Ends("start")
    /\ UNCHANGED <<hostVars, file, enabled, action, wanted, missedRestart, calls>>

AfterStop == IF action = "preun" THEN ctl' = "disable" /\ UNCHANGED last ELSE Ends("stop")

(* aoc_runstatus: only an active unit counts as running. *)
CheckStatus ==
    /\ ctl = "check"
    /\ IF unit = "active" THEN ctl' = "stop" /\ UNCHANGED last ELSE AfterStop
    /\ missedRestart' = (unit = "auto-restart")
    /\ UNCHANGED <<hostVars, file, unitVars, processVars, action, wanted, calls>>

(* Mutant of Stop: the process is killed behind systemd's back.            *)
Kill ==
    /\ ctl = "stop"
    /\ unit = "active" /\ FailUnit /\ AfterStop
    /\ UNCHANGED <<hostVars, file, enabled, action, wanted, missedRestart, calls>>

(* service stop: it also cancels a restart that became pending meanwhile.  *)
Stop ==
    /\ ctl = "stop"
    /\ \/ /\ unit = "active" /\ unit' = "stopping" /\ UNCHANGED <<ctl, last>>
       \/ /\ unit \notin {"active", "stopping"}
          /\ unit' = IF unit = "auto-restart" THEN "inactive" ELSE unit
          /\ AfterStop
    /\ UNCHANGED <<hostVars, file, enabled, processVars, action, wanted, missedRestart, calls>>

Disable ==
    /\ ctl = "disable"
    /\ enabled' = FALSE /\ ctl' = "reset"
    /\ UNCHANGED <<hostVars, file, unit, processVars, action, wanted, last, missedRestart, calls>>

ResetFailed ==
    /\ ctl = "reset"
    /\ unit' = IF unit = "failed" THEN "inactive" ELSE unit
    /\ Ends("preun")
    /\ UNCHANGED <<hostVars, file, enabled, processVars, action, wanted, missedRestart, calls>>

(* A command fails before it has had its effect; the status is read under  *)
(* set +e.                                                                 *)
CommandFails ==
    /\ ctl \notin {"idle", "check"} /\ unit # "stopping" /\ faults < MaxFaults
    /\ faults' = faults + 1
    /\ Ends("failed")
    /\ UNCHANGED <<host, network, file, unitVars, processVars, action, wanted,
                   missedRestart, calls>>

-----------------------------------------------------------------------------
(* systemd and the host. *)

(* SIGTERM: the process ends, or is killed when its shutdown takes too     *)
(* long (ShutdownCompletes in MCPusher.tla says how it may hang).          *)
ProcessStops ==
    /\ unit = "stopping"
    /\ unit' \in {"inactive", "failed"}
    /\ NoProcess
    /\ UNCHANGED <<hostVars, file, enabled, scriptVars>>

(* After RestartSec. *)
AutoRestart ==
    /\ unit = "auto-restart"
    /\ StartUnit
    /\ UNCHANGED <<hostVars, file, enabled, scriptVars>>

(* The unit starts after network.target, which does not wait for a network.*)
Reboot ==
    /\ faults < MaxFaults
    /\ faults' = faults + 1 /\ network' = FALSE
    /\ IF enabled THEN StartUnit ELSE unit' = "inactive" /\ NoProcess
    /\ ctl' = "idle" /\ missedRestart' = FALSE
    /\ last' = IF ctl = "idle" /\ last = "preun" THEN "preun" ELSE "none"
    /\ UNCHANGED <<host, file, enabled, action, wanted, calls>>

NetworkUp ==
    /\ ~network /\ network' = TRUE
    /\ UNCHANGED <<host, faults, file, unitVars, processVars, scriptVars>>

-----------------------------------------------------------------------------
(* The process: main(), which loads the configuration and creates the      *)
(* exporter.  A torn config.yaml does not load.                            *)

LoadConfig ==
    /\ unit = "active" /\ process = "started"
    /\ IF file = Torn THEN FailUnit
       ELSE process' = "loaded" /\ loaded' = file /\ UNCHANGED <<unit, region, credentials>>
    /\ UNCHANGED <<hostVars, file, enabled, scriptVars>>

CreateExporter ==
    /\ unit = "active" /\ process = "loaded"
    /\ IF ~SessionCreated(loaded, host, network) THEN FailUnit
       ELSE /\ process' = "running"
            /\ region' = AwsRegion(loaded, host, network)
            /\ \E answer \in StsAnswers : credentials' = Credentials(loaded, region', answer)
            /\ UNCHANGED <<unit, loaded>>
    /\ UNCHANGED <<hostVars, file, enabled, scriptVars>>

Crash ==
    /\ unit = "active" /\ faults < MaxFaults
    /\ faults' = faults + 1
    /\ FailUnit
    /\ UNCHANGED <<host, network, file, enabled, scriptVars>>

-----------------------------------------------------------------------------

ScriptStep ==
    \/ Copy \/ Enable \/ Restart \/ CheckStatus \/ Stop \/ Disable \/ ResetFailed

SystemdStep == ProcessStops \/ AutoRestart

ProcessStep == LoadConfig \/ CreateExporter

Next ==
    \/ CallScript \/ ScriptStep \/ CommandFails
    \/ SystemdStep \/ Reboot \/ NetworkUp
    \/ ProcessStep \/ Crash

Spec == Init /\ [][Next]_vars

(* Commands return, systemd ends a process that does not end and restarts  *)
(* one that failed, the process is scheduled, the network comes up.        *)
(* Nothing obliges an operator to call the script.                         *)
FairSpec ==
    /\ Spec
    /\ WF_vars(ScriptStep) /\ WF_vars(SystemdStep)
    /\ WF_vars(ProcessStep) /\ WF_vars(NetworkUp)

-----------------------------------------------------------------------------

Contents == Files \cup {Torn}

FlagsOK == network \in BOOLEAN /\ enabled \in BOOLEAN /\ missedRestart \in BOOLEAN

(* The types of the state; there is a process only in a unit that is       *)
(* active or stopping.                                                     *)
TypeOK ==
    /\ FlagsOK
    /\ host \in Machines /\ file \in Contents
    /\ unit \in {"inactive", "active", "stopping", "auto-restart", "failed"}
    /\ process \in {"none", "started", "loaded", "running"}
    /\ (process = "none" <=> unit \notin {"active", "stopping"})
    /\ loaded \in Files \cup {NoFile} /\ region \in Regions \cup {NoRegion}
    /\ ctl \in {"idle", "copy", "copying", "enable", "restart", "check", "stop",
                "disable", "reset"}
    /\ action \in {"none", "start", "stop", "preun"} /\ wanted \in Files \cup {NoFile}
    /\ last \in {"none", "start", "stop", "preun", "failed"}
    /\ faults \in 0..MaxFaults /\ calls \in 0..MaxCalls

(* Unless a command of the last script failed, the collector works with    *)
(* the configuration that is in config.yaml: no process outlives a start   *)
(* with the configuration of an earlier one, whatever systemd restarted    *)
(* while the script ran.                                                   *)
RunsCurrentConfig ==
    ctl = "idle" /\ last # "failed" /\ process \in {"loaded", "running"} => loaded = file

(* After a stop that found no restart pending nothing runs until the next  *)
(* start or boot, whatever fails meanwhile; after preun not even a boot    *)
(* starts the collector.                                                   *)
StopHolds ==
    ctl = "idle" /\ last \in {"stop", "preun"} /\ ~missedRestart =>
        unit \in {"inactive", "failed"}

(* An exporter configured with a role works with credentials of the role,  *)
(* from an endpoint of its region's partition, whatever STS answers, in    *)
(* the partitions the code knows.                                          *)
RoleIsUsed ==
    process = "running" /\ loaded.roleARN /\ PartitionOf[region] \in DOMAIN PrimaryRegion =>
        /\ credentials.role
        /\ PartitionOf[credentials.endpoint.region] = PartitionOf[region]
        /\ credentials.endpoint.suffix =
             IF PartitionOf[region] = "aws-cn" THEN ".amazonaws.com.cn" ELSE ".amazonaws.com"

(* The host can run the configuration once it has a network. *)
Runnable == file # Torn /\ SessionCreated(file, host, TRUE)

(* A unit that was started runs in the end, after crashes and boots        *)
(* without a network too, unless the script is called meanwhile, the unit  *)
(* is disabled or the configuration cannot work.                           *)
ComesUp ==
    (unit \in {"active", "auto-restart"})
        ~> (process = "running" \/ ctl # "idle" \/ ~enabled \/ ~Runnable)

=============================================================================

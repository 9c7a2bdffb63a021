------------------------- MODULE CollectorProofs -------------------------
(***************************************************************************)
(* Theorems about Collector for every set of configurations, hosts and     *)
(* regions, and any number of failures and calls of the script.  A claim   *)
(* about the moments at which no script runs is not inductive: the         *)
(* invariant says what holds at each command of the script.                *)
(***************************************************************************)
EXTENDS Collector, TLAPS

(* Only restart and stop wait for a process to end. *)
StoppingOK == unit = "stopping" => ctl \in {"restart", "stop"}

(* What is copied is a configuration. *)
WantedOK == ctl \in {"copy", "copying"} => wanted \in Files

Stopped == unit \in {"inactive", "failed"}

Stays == Stopped \/ missedRestart

(* From the moment stop or preun have seen the unit stopped. *)
StopOK ==
    /\ ctl = "idle" /\ last \in {"stop", "preun"} => Stays
    /\ ctl \in {"disable", "reset"} => Stays
    /\ ctl = "idle" /\ last = "preun" => ~enabled
    /\ ctl = "reset" => ~enabled

Current == process \in {"loaded", "running"} => loaded = file

(* When the script has nothing more to do to the process. *)
CurrentOK ==
    \/ ctl \in {"copy", "copying", "enable", "restart", "check", "stop"}
    \/ ctl = "idle" /\ last = "failed"
    \/ Current

(* What the process got when it created its exporter. *)
CredentialsOK ==
    process = "running" =>
        /\ loaded \in Files /\ region \in Regions
        /\ \E answer \in StsAnswers : credentials = Credentials(loaded, region, answer)

LoadedOK == process = "loaded" => loaded \in Files

IInv == TypeOK /\ StoppingOK /\ WantedOK /\ StopOK /\ CurrentOK /\ LoadedOK /\ CredentialsOK

-----------------------------------------------------------------------------

(* The SDK's region names: what AwsRegion returns is one of them. *)
LEMMA RegionType ==
    ASSUME NEW cfg \in Configs, NEW h \in Hosts, NEW n \in BOOLEAN
    PROVE  AwsRegion(cfg, h, n) \in Regions \cup {NoRegion}
  BY DEF AwsRegion, EC2Region, Configs, Hosts

(* Credentials of a configuration with a role: of the role, and from an    *)
(* endpoint of the region's own partition, if the code knows it.           *)
LEMMA RoleCredentialsRight ==
    ASSUME NEW cfg \in Configs, cfg.roleARN, NEW r \in Regions,
           PartitionOf[r] \in DOMAIN PrimaryRegion, NEW answer \in StsAnswers
    PROVE  LET c == Credentials(cfg, r, answer)
           IN  /\ c.role
               /\ PartitionOf[c.endpoint.region] = PartitionOf[r]
               /\ c.endpoint.suffix =
                    IF PartitionOf[r] = "aws-cn" THEN ".amazonaws.com.cn" ELSE ".amazonaws.com"
  <1>1. DOMAIN PrimaryRegion = {"aws", "aws-cn", "aws-us-gov"}
    BY SessionAssumption
  <1>2. ASSUME NEW q \in Regions, PartitionOf[q] = PartitionOf[r]
        PROVE  /\ RoleCredentials(q).role
               /\ PartitionOf[RoleCredentials(q).endpoint.region] = PartitionOf[r]
               /\ RoleCredentials(q).endpoint.suffix =
                    IF PartitionOf[r] = "aws-cn" THEN ".amazonaws.com.cn" ELSE ".amazonaws.com"
    BY <1>1, <1>2 DEF RoleCredentials, STSRegionalEndpoint
  <1>3. CASE answer = "RegionDisabled"
    <2>1. Credentials(cfg, r, answer) = RoleCredentials(PrimaryRegion[PartitionOf[r]])
      BY <1>3 DEF Credentials, PrimaryCredentials
    <2>2. /\ PrimaryRegion[PartitionOf[r]] \in Regions
          /\ PartitionOf[PrimaryRegion[PartitionOf[r]]] = PartitionOf[r]
      BY SessionAssumption
    <2> QED
      BY <1>2, <2>1, <2>2
  <1>4. CASE answer # "RegionDisabled"
    <2>1. Credentials(cfg, r, answer) = RoleCredentials(r)
      BY <1>4 DEF Credentials
    <2> QED
      BY <1>2, <2>1
  <1> QED
    BY <1>3, <1>4

-----------------------------------------------------------------------------
(* The invariant, action by action. *)

LEMMA FlagsKept ==
    ASSUME FlagsOK, [Next]_vars
    PROVE  FlagsOK'
  <1> USE DEF FlagsOK, hostVars, unitVars, processVars, scriptVars
  <1>1. CASE UNCHANGED vars
    BY <1>1 DEF vars
  <1>2. CASE CallScript \/ CommandFails
    BY <1>2 DEF CallScript, CommandFails
  <1>3. CASE ScriptStep
    BY <1>3 DEF ScriptStep, Copy, Enable, Restart, CheckStatus, Stop, Disable, ResetFailed
  <1>4. CASE SystemdStep \/ Reboot \/ NetworkUp
    BY <1>4 DEF SystemdStep, ProcessStops, AutoRestart, Reboot, NetworkUp
  <1>5. CASE ProcessStep \/ Crash
    BY <1>5 DEF ProcessStep, LoadConfig, CreateExporter, Crash
  <1> QED
    BY <1>1, <1>2, <1>3, <1>4, <1>5 DEF Next

LEMMA InitIInv == Init => IInv
  <1> SUFFICES ASSUME Init PROVE IInv
    OBVIOUS
  <1>1. FlagsOK
    BY DEF Init, FlagsOK
  <1>2. TypeOK
    BY <1>1, CollectorAssumption DEF Init, TypeOK, Contents
  <1> QED
    BY <1>2 DEF Init, IInv, StoppingOK, WantedOK, StopOK, CurrentOK, Current,
                LoadedOK, CredentialsOK

(* The commands that leave unit and process alone. *)
LEMMA QuietCommandsIInv ==
    ASSUME IInv, FlagsOK', CallScript \/ Copy \/ Enable \/ Disable \/ CommandFails
    PROVE  IInv'
  <1> USE CollectorAssumption
      DEF IInv, hostVars, unitVars, processVars, scriptVars, Ends
  <1>1. CASE CallScript
    BY <1>1 DEF CallScript, TypeOK, Contents, StoppingOK, WantedOK, StopOK, CurrentOK, Current,
                LoadedOK, CredentialsOK
  <1>2. CASE Copy
    BY <1>2 DEF Copy, TypeOK, Contents, StoppingOK, WantedOK, StopOK, CurrentOK, Current,
                LoadedOK, CredentialsOK
  <1>3. CASE Enable
    BY <1>3 DEF Enable, TypeOK, Contents, StoppingOK, WantedOK, StopOK, CurrentOK, Current,
                LoadedOK, CredentialsOK
  <1>4. CASE Disable
    BY <1>4 DEF Disable, TypeOK, Contents, StoppingOK, WantedOK, StopOK, Stays, Stopped, CurrentOK,
                Current, LoadedOK, CredentialsOK
  <1>5. CASE CommandFails
    BY <1>5 DEF CommandFails, TypeOK, Contents, StoppingOK, WantedOK, StopOK, CurrentOK, Current,
                LoadedOK, CredentialsOK
  <1> QED
    BY <1>1, <1>2, <1>3, <1>4, <1>5

(* The commands that act on unit and process. *)
LEMMA ServiceCommandsIInv ==
    ASSUME IInv, FlagsOK', Restart \/ CheckStatus \/ Stop \/ ResetFailed
    PROVE  IInv'
  <1> USE CollectorAssumption
      DEF IInv, TypeOK, Contents, hostVars, unitVars, processVars, scriptVars, Ends, AfterStop,
          StartUnit, NewProcess, StoppingOK, WantedOK, StopOK, Stays, Stopped, CurrentOK, Current,
          LoadedOK, CredentialsOK
  <1>1. CASE Restart
    BY <1>1 DEF Restart
  <1>2. CASE CheckStatus
    <2>1. CASE unit = "active"
      BY <1>2, <2>1 DEF CheckStatus
    <2>2. CASE unit # "active"
      <3>1. unit # "stopping" /\ process = "none"
        BY <1>2, <2>2 DEF CheckStatus
      <3>2. CASE action = "preun"
        BY <1>2, <2>2, <3>1, <3>2 DEF CheckStatus
      <3>3. CASE action # "preun"
        BY <1>2, <2>2, <3>1, <3>3 DEF CheckStatus
      <3> QED
        BY <3>2, <3>3
    <2> QED
      BY <2>1, <2>2
  <1>3. CASE Stop
    BY <1>3 DEF Stop
  <1>4. CASE ResetFailed
    BY <1>4 DEF ResetFailed
  <1> QED
    BY <1>1, <1>2, <1>3, <1>4

(* systemd and the host. *)
LEMMA HostIInv ==
    ASSUME IInv, FlagsOK', ProcessStops \/ AutoRestart \/ Reboot \/ NetworkUp \/ Crash
    PROVE  IInv'
  <1> USE CollectorAssumption
      DEF IInv, TypeOK, Contents, hostVars, unitVars, processVars, scriptVars, NoProcess,
          StartUnit, NewProcess, FailUnit, StoppingOK, WantedOK, StopOK, Stays, Stopped, CurrentOK,
          Current, LoadedOK, CredentialsOK
  <1>1. CASE ProcessStops
    BY <1>1 DEF ProcessStops
  <1>2. CASE AutoRestart
    BY <1>2 DEF AutoRestart
  <1>3. CASE Reboot
    BY <1>3 DEF Reboot
  <1>4. CASE NetworkUp
    BY <1>4 DEF NetworkUp
  <1>5. CASE Crash
    BY <1>5 DEF Crash
  <1> QED
    BY <1>1, <1>2, <1>3, <1>4, <1>5

(* The process starts: what it loads is in config.yaml at that moment.     *)
LEMMA ProcessIInv ==
    ASSUME IInv, FlagsOK', LoadConfig \/ CreateExporter
    PROVE  IInv'
  <1> USE CollectorAssumption
      DEF IInv, TypeOK, Contents, hostVars, unitVars, processVars, scriptVars, NoProcess,
          FailUnit, StoppingOK, WantedOK, StopOK, Stays, Stopped, CurrentOK, Current, LoadedOK
  <1>1. CASE LoadConfig
    BY <1>1 DEF LoadConfig, CredentialsOK
  <1>2. CASE CreateExporter /\ ~SessionCreated(loaded, host, network)
    BY <1>2 DEF CreateExporter, CredentialsOK
  <1>3. CASE CreateExporter /\ SessionCreated(loaded, host, network)
    <2>1. loaded \in Configs /\ host \in Hosts
      BY <1>3 DEF CreateExporter
    <2>2. AwsRegion(loaded, host, network) \in Regions
      BY <1>3, <2>1, RegionType DEF FlagsOK, SessionCreated
    <2>3. CredentialsOK'
      BY <1>3, <2>2 DEF CreateExporter, CredentialsOK
    <2> QED
      BY <1>3, <2>2, <2>3 DEF CreateExporter
  <1> QED
    BY <1>1, <1>2, <1>3

-----------------------------------------------------------------------------

(* IInv is an invariant of the host, for every value of the constants.     *)
THEOREM Invariance == Spec => []IInv
  <1>1. IInv /\ [Next]_vars => IInv'
    <2> SUFFICES ASSUME IInv, [Next]_vars PROVE IInv'
      OBVIOUS
    <2>0. FlagsOK'
      BY FlagsKept DEF IInv, TypeOK
    <2>1. CASE UNCHANGED vars
      BY <2>0, <2>1 DEF vars, hostVars, unitVars, processVars, scriptVars, IInv, TypeOK, Contents,
                  StoppingOK, WantedOK, StopOK, Stays, Stopped, CurrentOK, Current,
                  LoadedOK, CredentialsOK
    <2>2. CASE Next
      BY <2>0, <2>2, QuietCommandsIInv, ServiceCommandsIInv, HostIInv, ProcessIInv
         DEF Next, ScriptStep, SystemdStep, ProcessStep
    <2> QED
      BY <2>1, <2>2
  <1> QED
    BY InitIInv, <1>1, PTL DEF Spec

(* The state always has its types: a process exists exactly in a unit that *)
(* is active or stopping, through every crash, boot and command.           *)
THEOREM TypeCorrect == Spec => []TypeOK
  <1>1. IInv => TypeOK
    BY DEF IInv
  <1> QED
    BY Invariance, <1>1, PTL

(* Whenever no script runs and the last one did not fail, the process      *)
(* works with the configuration on disk, for any configurations.           *)
THEOREM Currency == Spec => []RunsCurrentConfig
  <1>1. IInv => RunsCurrentConfig
    BY DEF IInv, RunsCurrentConfig, CurrentOK, Current
  <1> QED
    BY Invariance, <1>1, PTL

(* A stop that found no restart pending holds through any number of        *)
(* failures, and preun through any number of boots as well.                *)
THEOREM StoppedStays == Spec => []StopHolds
  <1>1. IInv => StopHolds
    BY DEF IInv, StopHolds, StopOK, Stays, Stopped
  <1> QED
    BY Invariance, <1>1, PTL

(* Every exporter with a role has credentials of that role, from an        *)
(* endpoint of its region's partition, for any regions and partitions.     *)
THEOREM Role == Spec => []RoleIsUsed
  <1>1. IInv => RoleIsUsed
    <2> SUFFICES ASSUME IInv, process = "running", loaded.roleARN,
                        PartitionOf[region] \in DOMAIN PrimaryRegion
                 PROVE  /\ credentials.role
                        /\ PartitionOf[credentials.endpoint.region] = PartitionOf[region]
                        /\ credentials.endpoint.suffix =
                             IF PartitionOf[region] = "aws-cn" THEN ".amazonaws.com.cn"
                             ELSE ".amazonaws.com"
      BY DEF RoleIsUsed
    <2>1. loaded \in Configs /\ region \in Regions
      BY CollectorAssumption DEF IInv, CredentialsOK
    <2>2. PICK answer \in StsAnswers : credentials = Credentials(loaded, region, answer)
      BY DEF IInv, CredentialsOK
    <2> QED
      BY <2>1, <2>2, RoleCredentialsRight
  <1> QED
    BY Invariance, <1>1, PTL

=============================================================================

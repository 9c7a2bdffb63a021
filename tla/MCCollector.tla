--------------------------- MODULE MCCollector ---------------------------
(* Model-checking instance of Collector, with a claim of the control       *)
(* script's usage text that it does not keep.                              *)
EXTENDS Collector

MCPartitionOf ==
    [r \in Regions |-> CASE r \in {"us-west-2", "us-east-1"} -> "aws"
                         [] r \in {"cn-northwest-1", "cn-north-1"} -> "aws-cn"
                         [] r \in {"us-gov-east-1", "us-gov-west-1"} -> "aws-us-gov"
                         [] OTHER -> "aws-iso"]

(* endpoints.UsEast1RegionID, CnNorth1RegionID and UsGovWest1RegionID. *)
MCPrimaryRegion ==
    [p \in {"aws", "aws-cn", "aws-us-gov"} |->
        CASE p = "aws" -> "us-east-1" [] p = "aws-cn" -> "cn-north-1" [] OTHER -> "us-gov-west-1"]

Config(r, role, noVerify) ==
    [region |-> r, roleARN |-> role, noVerifySSL |-> noVerify, localMode |-> noVerify /\ role]

(* A region and a role; no region, with and without no_verify_ssl and      *)
(* local_mode.                                                             *)
SomeFiles ==
    {Config("us-gov-east-1", TRUE, FALSE), Config("", FALSE, FALSE),
     Config("", FALSE, TRUE), Config("", TRUE, TRUE)}

(* An EC2 instance, and a host elsewhere that names a region. *)
SomeMachines ==
    {[envRegion |-> "", ec2Region |-> "cn-northwest-1", sdkConfigured |-> TRUE],
     [envRegion |-> "us-west-2", ec2Region |-> "", sdkConfigured |-> TRUE]}

-----------------------------------------------------------------------------

(* aws-opentelemetry-collector-ctl:46, "stop: stop the agent process": the *)
(* collector does not run after a stop, until the next start or boot.      *)
StopStops == ctl = "idle" /\ last = "stop" => process = "none"

=============================================================================

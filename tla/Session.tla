------------------------------ MODULE Session ------------------------------
(***************************************************************************)
(* conn.go: which region an exporter works in, and with whose credentials. *)
(*                                                                         *)
(* A configuration and a host are records of what GetAWSConfigSession      *)
(* reads.  An answer is what STS says to the first call for credentials    *)
(* at the regional endpoint.  The proxy and the timeout of the             *)
(* configuration are read by no code that runs (newHTTPClient has no       *)
(* caller).                                                                *)
(***************************************************************************)
CONSTANTS
    Regions,
    PartitionOf,            \* the SDK's partition of each region ("": of none)
    NoRegion,               \* the empty string
    PrimaryRegion           \* the STS region of a partition, by the SDK's names

ASSUME SessionAssumption ==
    /\ NoRegion \notin Regions
    /\ PartitionOf \in [Regions -> STRING]
    /\ PrimaryRegion \in [{"aws", "aws-cn", "aws-us-gov"} -> Regions]
    /\ \A p \in DOMAIN PrimaryRegion : PartitionOf[PrimaryRegion[p]] = p

(* Of Config, the fields that decide. *)
Configs == [region : Regions \cup {NoRegion}, roleARN : BOOLEAN,
            noVerifySSL : BOOLEAN, localMode : BOOLEAN]

(* AWS_REGION; the instance's region (NoRegion: not an EC2 instance); and  *)
(* whether the SDK can make a session from its own configuration.          *)
Hosts == [envRegion : Regions \cup {NoRegion}, ec2Region : Regions \cup {NoRegion},
          sdkConfigured : BOOLEAN]

StsAnswers == {"credentials", "RegionDisabled", "other error"}

-----------------------------------------------------------------------------

AsksInstance(cfg, host) ==
    /\ cfg.region = NoRegion /\ host.envRegion = NoRegion
    /\ ~cfg.noVerifySSL \/ cfg.localMode

(* getEC2Region fails without a default session or without a network.      *)
EC2Region(host, network) ==
    IF host.sdkConfigured /\ network THEN host.ec2Region ELSE NoRegion

AwsRegion(cfg, host, network) ==
    CASE cfg.region # NoRegion -> cfg.region
      [] cfg.region = NoRegion /\ host.envRegion # NoRegion -> host.envRegion
      [] AsksInstance(cfg, host) -> EC2Region(host, network)
      [] OTHER -> NoRegion

(* GetAWSConfigSession returns no error: there is a region, and every      *)
(* session it makes can be made.                                           *)
SessionCreated(cfg, host, network) ==
    AwsRegion(cfg, host, network) # NoRegion /\ host.sdkConfigured

-----------------------------------------------------------------------------

(* The host STS is called at ("": the SDK chooses one). *)
STSRegionalEndpoint(r) ==
    CASE PartitionOf[r] \in {"aws", "aws-us-gov"} -> [region |-> r, suffix |-> ".amazonaws.com"]
      [] PartitionOf[r] = "aws-cn" -> [region |-> r, suffix |-> ".amazonaws.com.cn"]
      [] OTHER -> [region |-> r, suffix |-> ""]

DefaultCredentials == [role |-> FALSE, endpoint |-> [region |-> NoRegion, suffix |-> ""]]

RoleCredentials(r) == [role |-> TRUE, endpoint |-> STSRegionalEndpoint(r)]

(* Mutant of PrimaryCredentials: every partition is taken for the first.   *)
PrimaryCredentialsOfAws(r) == RoleCredentials(PrimaryRegion["aws"])

(* Credentials that are nil leave a new session with the default ones.     *)
PrimaryCredentials(r) ==
    IF PartitionOf[r] \in DOMAIN PrimaryRegion
    THEN RoleCredentials(PrimaryRegion[PartitionOf[r]])
    ELSE DefaultCredentials

(* newAWSSession; an error other than RegionDisabled leaves credentials    *)
(* that ask again when they are used.                                      *)
Credentials(cfg, r, answer) ==
    CASE ~cfg.roleARN -> DefaultCredentials
      [] cfg.roleARN /\ answer = "RegionDisabled" -> PrimaryCredentials(r)
      [] OTHER -> RoleCredentials(r)

=============================================================================

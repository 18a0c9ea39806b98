-------------------------------- MODULE Regions --------------------------------
(***************************************************************************)
(* Where the requests of a provider go, and the names of availability      *)
(* zones.  A URL is the environment and the region that it belongs to; a   *)
(* zone is the region and the letter of its name, "br-se1-a", and Unset    *)
(* stands for the region of a name that is a letter only.                  *)
(***************************************************************************)
CONSTANTS
  Unset,      \* what the configuration of the provider leaves out
  Refused     \* no URL, or no letter: the conversion answers an error

(* What the schema of the provider accepts, in every combination.          *)
Envs == {"prod", "pre-prod", "dev-qa"}
RegionNames == {"br-ne1", "br-se1", "br-mgl1", "br-mc1"}
ProviderModel == [env : Envs \cup {Unset}, region : RegionNames \cup {Unset}]

ASSUME NamesAssumption == {Unset, Refused} \cap (Envs \cup RegionNames) = {}

(* The provider's data after Configure.                                    *)
Configured(plan) ==
  [env |-> IF plan.env = Unset THEN "prod" ELSE plan.env,
   region |-> IF plan.region = Unset THEN "br-se1" ELSE plan.region]
Providers == [env : Envs, region : RegionNames]

regions ==
  [env \in Envs |-> {"br-ne1", "br-mgl1", "br-se1"}
                    \cup (IF env = "dev-qa" THEN {"br-mc1"} ELSE {})]
s3Regions == [env \in {"prod"} |-> {"br-ne1", "br-se1"}]

(* An unknown environment is taken for production, and a region that the   *)
(* environment does not have for br-se1.                                   *)
Served(table, provider) ==
  LET env == IF provider.env \in DOMAIN table THEN provider.env ELSE "prod"
  IN  [env |-> env,
       region |-> IF provider.region \in table[env] THEN provider.region
                  ELSE "br-se1"]
RegionToUrl(provider) == Served(regions, provider)
RegionToS3UrlUnchecked(provider) ==   \* bug: pre-prod falls back to production
  Served(s3Regions, provider)
RegionToS3Url(provider) ==
  IF provider.env = "pre-prod" THEN Refused ELSE Served(s3Regions, provider)

ConvertXZoneToAvailabilityZone(region, xZone) ==
  [region |-> region, letter |-> xZone]

(* The pattern has two letters between the dash and the number of a region. *)
Matches(zone) == zone.region \in {"br-ne1", "br-se1", "br-mc1"}
ConvertAvailabilityZoneToXZone(zone) ==
  IF Matches(zone) THEN zone.letter ELSE Refused
=============================================================================

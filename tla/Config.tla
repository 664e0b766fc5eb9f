------------------------------- MODULE Config -------------------------------
(***************************************************************************)
(* The configuration of a process (pkg/config/config.go) and what the      *)
(* driver and the storage backend derive from it.  NotGiven is a name that *)
(* is not given, 0 a number that is not given.                             *)
(***************************************************************************)
EXTENDS Integers

CONSTANTS
    NoConfig,                   \* a nil *Config, or an unusable file
    Names,                      \* of projects and CSI instances
    WellFormed,                 \* names that isValidIdentifier accepts
    DefaultMaxVolumesPerNode,
    DefaultNumber               \* stands for every other default

\* The zero value of a Go string.
NotGiven == ""

ASSUME ConfigConstants ==
    /\ NotGiven \notin Names /\ WellFormed \subseteq Names
    /\ DefaultMaxVolumesPerNode \in Nat \ {0}
    /\ DefaultNumber \in Nat \ {0}

\* Numbers that are useless, or fatal to a ticker, unless positive.
Numbers == {"totalCapacityGB", "deviceScanTimeout", "deviceScanInterval",
            "attachmentPollTimeout", "diskResizePollTimeout",
            "diskResizePollInterval", "metricsCollectionInterval",
            "restAPIMaxRetries", "restAPIRetryInitialDelay",
            "restAPIRetryMaxDelay", "restAPITimeout"}

\* project is context.project, oldProject the deprecated evroc.project.
Configs == [credentials : BOOLEAN,
            project : Names \cup {NotGiven}, oldProject : Names \cup {NotGiven},
            identifier : Names \cup {NotGiven}, vmOwnerLabel : BOOLEAN,
            maxVolumesPerNode : Int, number : [Numbers -> Int]]

\* A nil pointer is no configuration.
ASSUME NilIsNoConfig == NoConfig \notin Configs

EmptyConfig == [credentials |-> FALSE, project |-> NotGiven, oldProject |-> NotGiven,
                identifier |-> NotGiven, vmOwnerLabel |-> FALSE,
                maxVolumesPerNode |-> 0, number |-> [n \in Numbers |-> 0]]

\* Mutant: a negative number is kept, as for maxVolumesPerNode.
NegativeKept(x) == IF x = 0 THEN DefaultNumber ELSE x

PositiveOrDefault(x) == IF x <= 0 THEN DefaultNumber ELSE x

\* A negative maxVolumesPerNode means no limit and is kept.
applyDefaults(cfg) ==
    [cfg EXCEPT !.maxVolumesPerNode = IF @ = 0 THEN DefaultMaxVolumesPerNode ELSE @,
                !.number = [n \in Numbers |-> PositiveOrDefault(cfg.number[n])]]

NewWithDefaults == applyDefaults(EmptyConfig)

\* The project in SDKConfig; region, organization and URL fall back likewise.
SDKProject(cfg) == IF cfg.project = NotGiven THEN cfg.oldProject ELSE cfg.project

\* The SDK's own validation is external.
SDKConfigValid(cfg) == cfg.credentials /\ SDKProject(cfg) # NotGiven

\* Mutant: the identifier is not looked at.
AnyIdentifier(id) == TRUE

isValidIdentifier(id) == id \in WellFormed

Validate(cfg) ==
    /\ SDKConfigValid(cfg)
    /\ cfg.identifier = NotGiven \/ isValidIdentifier(cfg.identifier)
    /\ cfg.vmOwnerLabel => cfg.identifier # NotGiven

LoadFromPath(file) ==
    IF file # NoConfig /\ Validate(applyDefaults(file)) THEN applyDefaults(file) ELSE NoConfig
=============================================================================

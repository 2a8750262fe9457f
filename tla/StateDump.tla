------------------------------ MODULE StateDump ------------------------------
(***************************************************************************)
(* What the server tells a client of the driver, the controller, the nodes *)
(* and their values, by the version of the schema it speaks                *)
(* (lib/state.ts, and the results that lib/common.ts converts).            *)
(*                                                                         *)
(* A dump is built in stages: every stage adds keys, for the versions that *)
(* get past the returns before it.  A stage is <<first, last, keys>>; a    *)
(* key whose value changed form between versions is named with its form.   *)
(* The TypeScript type each return casts its dump to is a second           *)
(* definition of the same thing, which the compiler does not compare with  *)
(* the first: the objects are Partial, and the casts are unchecked.        *)
(*                                                                         *)
(* Values that are undefined are left out of JSON.  A few keys are there   *)
(* for some nodes, values or controllers only: they are the Traits.        *)
(***************************************************************************)
EXTENDS Naturals

\* minSchemaVersion is 0, maxSchemaVersion 50.
Latest == 50

\* The keys that depend on the object, and the metadata types of old clients.
Traits == {"isPrimary", "dsk", "limits", "allowed"}

-----------------------------------------------------------------------------
(* The dumps                                                                *)

\* Mutants: a key is set one version longer than it should be; the stage
\* after a return is one version late.
UntilIncluding(v, keys) == <<0, v, keys>>
SinceAfter(v, keys)     == <<v + 1, Latest, keys>>

\* schemaVersion < v, and what is left after the return of the versions below.
Until(v, keys) == <<0, v - 1, keys>>
Since(v, keys) == <<v, Latest, keys>>
Always(keys)   == <<0, Latest, keys>>

DriverStages ==
    { Until(3, {"level:number"}), Since(3, {"level:string"}),
      Always({"statisticsEnabled"}),
      Since(47, {"ready", "allNodesReady", "configVersion"}) }

ControllerStages ==
    { Always({"type", "homeId", "ownNodeId", "isUsingHomeIdFromOtherNetwork",
              "isSISPresent", "wasRealPrimary", "manufacturerId", "productType",
              "productId", "supportedFunctionTypes", "sucNodeId",
              "supportsTimers", "statistics", "inclusionState"}),
      Until(22, {"isSecondary", "isStaticUpdateController", "isSlave"}),
      Until(32, {"isHealNetworkActive"}),
      Until(16, {"libraryVersion", "serialApiVersion"}),
      Since(16, {"sdkVersion", "firmwareVersion"}),
      Since(22, {"isPrimary", "isSUC", "nodeType"}),
      Since(25, {"rfRegion"}),
      Since(31, {"status"}),
      Since(32, {"isRebuildingRoutes"}),
      Since(34, {"rebuildRoutesProgress"}),
      Since(35, {"supportsLongRange"}),
      Since(36, {"maxLongRangePowerlevel", "longRangeChannel",
                 "supportsLongRangeAutoChannelSelection"}),
      Since(47, {"isSIS", "maxPayloadSize", "maxPayloadSizeLR",
                 "zwaveApiVersion", "zwaveChipType"}) }

NodeStages ==
    { Always({"nodeId", "index", "installerIcon", "userIcon", "status", "ready",
              "isListening", "isRouting", "isSecure", "manufacturerId",
              "productId", "productType", "firmwareVersion", "zwavePlusVersion",
              "name", "location", "deviceConfig", "label",
              "endpointCountIsDynamic", "endpointsHaveIdenticalCapabilities",
              "individualEndpointCount", "aggregatedEndpointCount",
              "interviewAttempts", "endpoints", "values"}),
      Until(4, {"interviewStage:number"}),
      Since(4, {"interviewStage:string"}),
      Until(3, {"isFrequentListening:boolean", "maxBaudRate", "version",
                "isBeaming", "nodeType:zwavePlus", "roleType"}),
      Until(1, {"deviceClass:object"}),
      Since(1, {"deviceClass"}),
      <<1, 14, {"commandClasses"}>>,
      Since(3, {"isFrequentListening", "maxDataRate", "supportedDataRates",
                "protocolVersion", "supportsBeaming", "supportsSecurity",
                "nodeType", "zwavePlusNodeType", "zwavePlusRoleType"}),
      Since(5, {"deviceDatabaseUrl"}),
      Since(7, {"statistics"}),
      Since(10, {"highestSecurityClass"}),
      Since(14, {"isControllerNode", "keepAwake"}),
      Since(30, {"lastSeen"}),
      Since(31, {"defaultVolume", "defaultTransitionDuration"}),
      Since(35, {"protocol"}),
      Since(42, {"sdkVersion"}),
      Since(47, {"canSleep", "supportsWakeUpOnDemand", "hardwareVersion",
                 "hasSUCReturnRoute", "manufacturer", "dsk"}) }

FoundNodeStages ==
    { Always({"nodeId", "deviceClass"}),
      Until(22, {"status"}),
      Since(23, {"supportedCCs", "controlledCCs"}) }

EndpointStages ==
    { Always({"nodeId", "index", "installerIcon", "userIcon"}),
      Since(3, {"deviceClass"}),
      Since(15, {"commandClasses"}),
      Since(26, {"endpointLabel"}) }

DeviceClassStages ==
    { Always({"basic", "generic", "specific"}),
      Until(36, {"mandatoryControlledCCs", "mandatorySupportedCCs"}) }

MetadataStages ==
    { Always({"type", "default", "readable", "writeable", "description", "label",
              "ccSpecific", "valueChangeOptions", "limits"}),
      Since(27, {"stateful", "secret"}),
      Since(46, {"allowed"}) }

ConfigurationMetadataStages ==
    { Always({"type", "readable", "writeable", "description", "label",
              "ccSpecific", "valueChangeOptions", "default", "limits", "unit",
              "valueSize", "format", "isAdvanced", "requiresReInclusion",
              "allowManualEntry", "isFromConfig"}),
      Until(29, {"name", "info"}),
      Since(46, {"allowed", "purpose"}) }

\* setValueOutgoingMessage and firmwareUpdateOutgoingMessage
ResultStages == { Until(29, {"success"}), Since(29, {"result"}) }

Stages ==
    [ driver |-> DriverStages, controller |-> ControllerStages,
      node |-> NodeStages, foundNode |-> FoundNodeStages,
      endpoint |-> EndpointStages, deviceClass |-> DeviceClassStages,
      metadata |-> MetadataStages,
      configurationMetadata |-> ConfigurationMetadataStages,
      result |-> ResultStages ]

Entity == DOMAIN Stages

\* The keys the object has on the wire: a trait it lacks is left out, and a
\* controller that does not know isPrimary does not know isSecondary.
Lacks(known, key) ==
    \/ key \in Traits \ known
    \/ key = "isSecondary" /\ "isPrimary" \notin known

Dump(e, v, known) ==
    { key \in UNION {s[3] : s \in {t \in Stages[e] : t[1] <= v /\ v <= t[2]}} :
          ~Lacks(known, key) }

=============================================================================

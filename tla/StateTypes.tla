------------------------------ MODULE StateTypes ------------------------------
(***************************************************************************)
(* The types lib/state.ts declares for the dumps of StateDump, and the     *)
(* agreement of the two over every version of the schema.                  *)
(*                                                                         *)
(* A type is the set of its required keys and the set of its optional      *)
(* ones.  The state is one version and one object; a step is a client of   *)
(* the next version, or the driver learning or forgetting a trait.         *)
(***************************************************************************)
EXTENDS StateDump

-----------------------------------------------------------------------------
(* The declared types                                                       *)

Type(req, opt) == [req |-> req, opt |-> opt]

\* interface T extends U, Modify<U, {...}>, U & {...}
With(T, req, opt) == Type(T.req \cup req, T.opt \cup opt)

\* Omit<T, keys>; also the old form of a key that Modify replaces.
Omit(T, keys) == Type(T.req \ keys, T.opt \ keys)

Driver0  == Type({"statisticsEnabled"}, {"level:number", "level:string"})
Driver47 == With(Driver0, {"ready", "allNodesReady", "configVersion"}, {})

Controller0 ==
    Type({"isHealNetworkActive", "statistics", "inclusionState"},
         {"libraryVersion", "type", "homeId", "ownNodeId", "isSecondary",
          "isUsingHomeIdFromOtherNetwork", "isSISPresent", "wasRealPrimary",
          "isStaticUpdateController", "isSlave", "serialApiVersion",
          "manufacturerId", "productType", "productId",
          "supportedFunctionTypes", "sucNodeId", "supportsTimers"})
Controller16 == Omit(With(Controller0, {}, {"sdkVersion", "firmwareVersion"}),
                     {"libraryVersion", "serialApiVersion"})
Controller22 == Omit(With(Controller16, {}, {"isPrimary", "isSUC", "nodeType"}),
                     {"isSlave", "isSecondary", "isStaticUpdateController"})
Controller25 == With(Controller22, {}, {"rfRegion"})
Controller31 == With(Controller25, {"status"}, {})
Controller32 == Omit(With(Controller31, {"isRebuildingRoutes"}, {}),
                     {"isHealNetworkActive"})
Controller34 == With(Controller32, {}, {"rebuildRoutesProgress"})
Controller35 == With(Controller34, {"supportsLongRange"}, {})
Controller36 == With(Controller35,
                     {"maxLongRangePowerlevel", "longRangeChannel",
                      "supportsLongRangeAutoChannelSelection"}, {})
Controller47 == With(Controller36,
                     {"isSIS", "maxPayloadSize", "maxPayloadSizeLR",
                      "zwaveApiVersion", "zwaveChipType"}, {})

Endpoint0  == Type({"nodeId", "index"}, {"installerIcon", "userIcon"})
Endpoint3  == With(Endpoint0, {"deviceClass"}, {})
Endpoint15 == With(Endpoint3, {"commandClasses"}, {})
Endpoint26 == With(Endpoint15, {}, {"endpointLabel"})

Node0 ==
    With(Endpoint0,
         {"status", "ready", "isFrequentListening:boolean", "version",
          "interviewAttempts", "interviewStage:number", "deviceClass:object",
          "endpoints", "values"},
         {"isListening", "isRouting", "maxBaudRate", "isSecure", "isBeaming",
          "manufacturerId", "productId", "productType", "firmwareVersion",
          "zwavePlusVersion", "nodeType:zwavePlus", "roleType", "name",
          "location", "deviceConfig", "label", "endpointCountIsDynamic",
          "endpointsHaveIdenticalCapabilities", "individualEndpointCount",
          "aggregatedEndpointCount"})
Node1 == With(Omit(Node0, {"deviceClass:object"}),
              {"deviceClass", "commandClasses"}, {})
Node3 == With(Omit(Node1, {"maxBaudRate", "version", "isBeaming", "roleType",
                           "isFrequentListening:boolean", "nodeType:zwavePlus"}),
              {},
              {"isFrequentListening", "maxDataRate", "supportedDataRates",
               "protocolVersion", "supportsBeaming", "supportsSecurity",
               "zwavePlusNodeType", "zwavePlusRoleType", "nodeType"})
Node4  == With(Omit(Node3, {"interviewStage:number"}), {}, {"interviewStage:string"})
Node5  == With(Node4, {}, {"deviceDatabaseUrl"})
Node7  == With(Node5, {"statistics"}, {})
Node10 == With(Node7, {"highestSecurityClass"}, {})
Node14 == With(Node10, {"isControllerNode", "keepAwake"}, {})
Node29 == Omit(Node14, {"commandClasses"})
Node30 == With(Node29, {"lastSeen"}, {})
Node31 == With(Node30, {}, {"defaultVolume", "defaultTransitionDuration"})
Node35 == With(Node31, {"protocol"}, {})
Node42 == With(Node35, {}, {"sdkVersion"})
Node47 == With(Node42,
               {"canSleep", "supportsWakeUpOnDemand", "hardwareVersion",
                "hasSUCReturnRoute", "manufacturer"}, {"dsk"})

FoundNode19 == Type({"nodeId", "deviceClass", "status"}, {})
FoundNode22 == Omit(FoundNode19, {"status"})
FoundNode23 == With(FoundNode22, {}, {"supportedCCs", "controlledCCs"})

DeviceClass0 ==
    Type({"basic", "generic", "specific", "mandatorySupportedCCs",
          "mandatoryControlledCCs"}, {})
DeviceClass36 == Omit(DeviceClass0, {"mandatorySupportedCCs", "mandatoryControlledCCs"})

Metadata0  == Type({"type", "readable", "writeable"},
                   {"default", "description", "label", "ccSpecific",
                    "valueChangeOptions", "limits"})
Metadata28 == With(Metadata0, {}, {"stateful", "secret"})
Metadata46 == With(Metadata28, {}, {"allowed"})

ConfigurationMetadata0 ==
    With(Metadata0, {}, {"unit", "valueSize", "format", "name", "info",
                         "noBulkSupport", "isAdvanced", "requiresReInclusion",
                         "allowManualEntry", "isFromConfig"})
ConfigurationMetadata29 == Omit(ConfigurationMetadata0, {"name", "info"})
ConfigurationMetadata46 == With(ConfigurationMetadata29, {}, {"allowed", "purpose"})

Success == Type({"success"}, {})
Result  == Type({"result"}, {})

\* The type of each return, with the first version that reaches the return.
Casts ==
    [ driver |-> {<<0, Driver0>>, <<47, Driver47>>},
      controller |->
          {<<0, Controller0>>, <<16, Controller16>>, <<22, Controller22>>,
           <<25, Controller25>>, <<31, Controller31>>, <<32, Controller32>>,
           <<34, Controller34>>, <<35, Controller35>>, <<36, Controller36>>,
           <<47, Controller47>>},
      node |->
          {<<0, Node0>>, <<1, Node1>>, <<3, Node3>>, <<4, Node4>>, <<5, Node5>>,
           <<7, Node7>>, <<10, Node10>>, <<14, Node14>>, <<15, Node29>>,
           <<30, Node30>>, <<31, Node31>>, <<35, Node35>>, <<42, Node42>>,
           <<47, Node47>>},
      foundNode |-> {<<0, FoundNode19>>, <<22, FoundNode22>>, <<23, FoundNode23>>},
      endpoint |-> {<<0, Endpoint0>>, <<3, Endpoint3>>, <<15, Endpoint15>>,
                    <<26, Endpoint26>>},
      deviceClass |-> {<<0, DeviceClass0>>, <<36, DeviceClass36>>},
      metadata |-> {<<0, Metadata0>>, <<27, Metadata28>>, <<46, Metadata46>>},
      configurationMetadata |->
          {<<0, ConfigurationMetadata0>>, <<29, ConfigurationMetadata29>>,
           <<46, ConfigurationMetadata46>>},
      result |-> {<<0, Success>>, <<29, Result>>} ]

Declared(e, v) ==
    (CHOOSE c \in Casts[e] : c[1] <= v /\ \A d \in Casts[e] : d[1] <= v => d[1] <= c[1])[2]

\* What a later version calls by another name, tells as the opposite or in
\* another form, or has moved: the old entity and key, the new ones, and the
\* version from which clients are told at all.
Renamed ==
    { <<"driver", "level:number", "driver", "level:string", 0>>,
      <<"controller", "libraryVersion", "controller", "sdkVersion", 0>>,
      <<"controller", "serialApiVersion", "controller", "firmwareVersion", 0>>,
      <<"controller", "isSecondary", "controller", "isPrimary", 0>>,
      <<"controller", "isStaticUpdateController", "controller", "isSUC", 0>>,
      <<"controller", "isSlave", "controller", "nodeType", 0>>,
      <<"controller", "isHealNetworkActive", "controller", "isRebuildingRoutes", 0>>,
      <<"node", "isFrequentListening:boolean", "node", "isFrequentListening", 0>>,
      <<"node", "maxBaudRate", "node", "maxDataRate", 0>>,
      <<"node", "version", "node", "protocolVersion", 0>>,
      <<"node", "isBeaming", "node", "supportsBeaming", 0>>,
      <<"node", "nodeType:zwavePlus", "node", "zwavePlusNodeType", 0>>,
      <<"node", "roleType", "node", "zwavePlusRoleType", 0>>,
      <<"node", "interviewStage:number", "node", "interviewStage:string", 0>>,
      <<"node", "deviceClass:object", "node", "deviceClass", 0>>,
      <<"node", "commandClasses", "endpoint", "commandClasses", 1>>,
      <<"result", "success", "result", "result", 0>> }

-----------------------------------------------------------------------------
VARIABLES
    version,  \* the schema version of a client
    known     \* the traits of the object

vars == <<version, known>>

Init == version = 0 /\ known \in SUBSET Traits

NextVersion ==
    /\ version < Latest
    /\ version' = version + 1
    /\ UNCHANGED known

Learn(t) == t \notin known /\ known' = known \cup {t} /\ UNCHANGED version
Forget(t) == t \in known /\ known' = known \ {t} /\ UNCHANGED version

Next == NextVersion \/ \E t \in Traits : Learn(t) \/ Forget(t)

Spec == Init /\ [][Next]_vars

-----------------------------------------------------------------------------
(* Properties                                                               *)

\* Every dump has the keys its declared type requires and no others than the
\* type has, at every version: the unchecked casts of the returns are right.
FitsDeclaredType ==
    \A e \in Entity :
        LET dump == Dump(e, version, known)
            type == Declared(e, version)
        IN  type.req \subseteq dump /\ dump \subseteq type.req \cup type.opt

\* A client of any version is told every fact under one name: where a version
\* renames or moves a key, the old and the new one are tested for separately
\* in the code, and leave neither a version with both nor one with none.
OneNamePerFact ==
    \A f \in Renamed :
        LET old == f[2] \in Dump(f[1], version, known)
            new == f[4] \in Dump(f[3], version, known)
        IN  version >= f[5] =>
                IF f[4] \in Traits \ known THEN ~old /\ ~new ELSE old # new

=============================================================================

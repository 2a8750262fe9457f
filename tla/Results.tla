------------------------------- MODULE Results -------------------------------
(***************************************************************************)
(* The answers of the message handlers: the keys of the result of every    *)
(* command, as the handler builds it, against the type declared for the    *)
(* command in outgoing_message.ts.                                         *)
(*                                                                         *)
(* A handler's handle() returns Promise<ResultTypes[Command]>, the union   *)
(* of the results of all its commands, so that the compiler accepts the    *)
(* result of one command as the answer to another.                         *)
(*                                                                         *)
(* A table is a set of <<command, key>>.  A command without a pair is      *)
(* answered {}, and declared so.  node.get_value_metadata, whose result is *)
(* a dump, is in StateDump.                                                *)
(***************************************************************************)
EXTENDS Naturals

-----------------------------------------------------------------------------
(* Results by version (common.ts)                                           *)

\* Mutant: one of the two tests is <=.
ConvertUntil29(v) == IF v <= 29 THEN "success" ELSE "result"

\* setValueOutgoingMessage, firmwareUpdateOutgoingMessage
OutgoingMessage(v) == IF v < 29 THEN "success" ELSE "result"

-----------------------------------------------------------------------------
(* The handlers                                                             *)

\* Inclusion, exclusion and provisioning.
InclusionResults ==
    {"beginInclusion", "stopInclusion", "beginExclusion", "stopExclusion",
     "replaceFailedNode"} \X {"success"}
    \cup {<<"getProvisioningEntry", "entry">>, <<"getProvisioningEntries", "entries">>}

\* Routes and associations.
AssociationResults ==
    {"healNode", "rebuildNodeRoutes", "beginHealingNetwork",
     "beginRebuildingRoutes", "stopHealingNetwork", "stopRebuildingRoutes"}
        \X {"success"}
    \cup {<<"isFailedNode", "failed">>, <<"getAssociationGroups", "groups">>,
          <<"getAssociations", "associations">>, <<"checkAssociation", "result">>,
          <<"isAssociationAllowed", "allowed">>, <<"getNodeNeighbors", "neighbors">>}

\* The backup, the radio and the state of the controller.
RadioResults ==
    {"setRFRegion", "toggleRF", "setPowerlevel"} \X {"success"}
    \cup {<<"supportsFeature", "supported">>, <<"backupNVMRaw", "nvmData">>,
          <<"getRFRegion", "region">>, <<"getState", "state">>,
          <<"getKnownLifelineRoutes", "routes">>}
    \cup {"getPowerlevel"} \X {"powerlevel", "measured0dBm"}

\* Firmware and Long Range; controller.begin_ota_firmware_update throws.
FirmwareResults(v) ==
    {"firmwareUpdateOTA", "firmwareUpdateOTW"} \X {OutgoingMessage(v)}
    \cup {"getAnyFirmwareUpdateProgress", "isAnyOTAFirmwareUpdateInProgress",
          "isFirmwareUpdateInProgress"} \X {"progress"}
    \cup {"getAvailableFirmwareUpdates", "getAllAvailableFirmwareUpdates"} \X {"updates"}
    \cup {"setMaxLongRangePowerlevel", "setLongRangeChannel"} \X {"success"}
    \cup {<<"getMaxLongRangePowerlevel", "limit">>}
    \cup {"getLongRangeChannel"} \X {"channel", "supportsAutoChannelSelection"}

RoutingResults ==
    {"assignReturnRoutes", "deleteReturnRoutes", "assignSUCReturnRoutes",
     "deleteSUCReturnRoutes", "assignPriorityReturnRoute",
     "assignPrioritySUCReturnRoute", "assignCustomReturnRoutes",
     "assignCustomSUCReturnRoutes", "setPriorityRoute", "removePriorityRoute",
     "discoverNodeNeighbors"} \X {"success"}
    \cup {<<"getPriorityRoute", "route">>}

DiagnosticResults ==
    {"getBackgroundRSSI"} \X {"rssiChannel0", "rssiChannel1", "rssiChannel2",
                              "rssiChannel3"}
    \cup {<<"getLongRangeNodes", "nodeIds">>, <<"getDSK", "dsk">>,
          <<"getNVMId", "nvmId">>, <<"externalNVMOpen", "size">>,
          <<"externalNVMReadByte", "byte">>, <<"externalNVMReadBuffer", "buffer">>}
    \cup {"externalNVMWriteByte", "externalNVMWriteBuffer"} \X {"success"}
    \cup {"externalNVMReadBuffer700", "externalNVMReadBufferExt"}
             \X {"buffer", "endOfFile"}
    \cup {"externalNVMWriteBuffer700", "externalNVMWriteBufferExt"} \X {"endOfFile"}
    \cup {"externalNVMOpenExt"} \X {"size", "supportedOperations"}

NetworkResults ==
    {"querySupportedRFRegions", "getSupportedRFRegions"} \X {"regions"}
    \cup {"queryRFRegionInfo"} \X {"region", "supportsZWave", "supportsLongRange",
                                   "includesRegion"}
    \cup {"beginJoiningNetwork", "beginLeavingNetwork"} \X {"result"}
    \cup {"stopJoiningNetwork", "stopLeavingNetwork"} \X {"success"}
    \cup {"getPriorityReturnRouteCached", "getPrioritySUCReturnRouteCached"} \X {"route"}
    \cup {"getPriorityReturnRoutesCached", "getCustomReturnRoutesCached",
          "getCustomSUCReturnRoutesCached"} \X {"routes"}
    \cup {<<"getAllAssociationGroups", "groups">>,
          <<"getAllAssociations", "associations">>}

ControllerResults(v) ==
    InclusionResults \cup AssociationResults \cup RadioResults
        \cup FirmwareResults(v) \cup RoutingResults \cup DiagnosticResults
        \cup NetworkResults

\* The first half of the node handler: values, firmware, configuration, security.
NodeValueResults(v) ==
    {"setValue", "beginFirmwareUpdate", "updateFirmware"} \X {OutgoingMessage(v)}
    \cup {"getFirmwareUpdateCapabilities",
          "getFirmwareUpdateCapabilitiesCached"} \X {"capabilities"}
    \cup {"pollValue", "getRawConfigParameterValue"} \X {"value"}
    \cup {<<"getDefinedValueIDs", "valueIds">>,
          <<"setRawConfigParameterValue", "result">>, <<"ping", "responded">>,
          <<"hasSecurityClass", "hasSecurityClass">>,
          <<"getHighestSecurityClass", "highestSecurityClass">>}

\* The second half: health, state, interview, time.
NodeHealthResults ==
    {"checkLifelineHealth", "checkRouteHealth"} \X {"summary"}
    \cup {"getFirmwareUpdateProgress", "isFirmwareUpdateInProgress",
          "isHealthCheckInProgress", "isLinkReliabilityCheckInProgress"} \X {"progress"}
    \cup {<<"testPowerlevel", "framesAcked">>, <<"getValue", "value">>,
          <<"getEndpointCount", "count">>, <<"getState", "state">>,
          <<"getValueTimestamp", "timestamp">>, <<"setDateAndTime", "success">>,
          <<"getDateAndTime", "dateAndTime">>, <<"hasDeviceConfigChanged", "changed">>,
          <<"createDump", "dump">>, <<"getSupportedNotificationEvents", "events">>,
          <<"checkLinkReliability", "result">>}

EndpointResults ==
    {"supportsCCAPI", "supportsCC"} \X {"supported"}
    \cup {"getNodeUnsafe", "tryGetNode"} \X {"node"}
    \cup {<<"invokeCCAPI", "response">>, <<"controlsCC", "controlled">>,
          <<"isCCSecure", "secure">>, <<"getCCVersion", "version">>,
          <<"setRawConfigParameterValue", "result">>,
          <<"getRawConfigParameterValue", "value">>, <<"getCCs", "commandClasses">>,
          <<"maySupportBasicCC", "maySupport">>, <<"wasCCRemovedViaConfig", "removed">>}

AccessControlResults ==
    {"getUserCapabilitiesCached", "getCredentialCapabilitiesCached"} \X {"capabilities"}
    \cup {"getUser", "getUserCached"} \X {"user"}
    \cup {"getUsers", "getUsersCached"} \X {"users"}
    \cup {"getCredential", "getCredentialCached"} \X {"credential"}
    \cup {"getCredentials", "getCredentialsCached", "getCredentialsByType",
          "getCredentialsByTypeCached", "getAllCredentials",
          "getAllCredentialsCached"} \X {"credentials"}
    \cup {"setUser", "addUser", "deleteUser", "deleteAllUsers", "assignCredential",
          "setCredential", "deleteCredential", "startCredentialLearn",
          "cancelCredentialLearn", "setAdminCode"} \X {"result"}
    \cup {<<"isSupported", "supported">>, <<"getAdminCode", "code">>}

DriverResults ==
    {"getConfig", "getLogConfig"} \X {"config"}
    \cup {"checkForConfigUpdates"} \X {"installedVersion", "updateAvailable", "newVersion"}
    \cup {"installConfigUpdate", "shutdown"} \X {"success"}
    \cup {"getSupportedCCVersion", "getSafeCCVersion"} \X {"version"}
    \cup {<<"isStatisticsEnabled", "statisticsEnabled">>, <<"sendTestFrame", "status">>,
          <<"firmwareUpdateOTW", "result">>, <<"isOTWFirmwareUpdateInProgress", "progress">>}

\* broadcast_node and multicast_group alike.
VirtualResults(v) ==
    {"supportsCC", "supportsCCAPI"} \X {"supported"}
    \cup {<<"setValue", OutgoingMessage(v)>>, <<"getEndpointCount", "count">>,
          <<"getCCVersion", "version">>, <<"invokeCCAPI", "response">>,
          <<"getDefinedValueIDs", "valueIDs">>}

ConfigManagerResults ==
    {"lookupDevice", "lookupDevicePreserveConditions"} \X {"config"}
    \cup {"getIndex", "getFulltextIndex"} \X {"index"}
    \cup {<<"lookupManufacturer", "name">>, <<"manufacturers", "manufacturers">>,
          <<"configVersion", "configVersion">>}

UtilsResults ==
    {"num2hex", "buffer2hex"} \X {"hex"}
    \cup {<<"parseQRCodeString", "qrProvisioningInformation">>,
          <<"tryParseDSKFromQRCodeString", "dsk">>, <<"formatId", "id">>,
          <<"getEnumMemberName", "name">>, <<"rssiToString", "rssi">>,
          <<"guessFirmwareFileFormat", "format">>, <<"tryUnzipFirmwareFile", "file">>,
          <<"extractFirmware", "firmware">>}

ZnifferResults ==
    {<<"getCaptureAsZLFBuffer", "capture">>, <<"capturedFrames", "capturedFrames">>,
     <<"supportedFrequencies", "frequencies">>, <<"currentFrequency", "frequency">>,
     <<"getLRRegions", "regions">>, <<"getCurrentLRChannelConfig", "channelConfig">>,
     <<"getSupportedLRChannelConfigs", "channelConfigs">>}

Returned(v) ==
    [ controller |-> ControllerResults(v),
      node |-> NodeValueResults(v) \cup NodeHealthResults,
      endpoint |-> EndpointResults, accessControl |-> AccessControlResults,
      driver |-> DriverResults, virtual |-> VirtualResults(v),
      configManager |-> ConfigManagerResults, utils |-> UtilsResults,
      zniffer |-> ZnifferResults ]

-----------------------------------------------------------------------------
(* The declared types                                                       *)

\* A key marked ? in its type, or with undefined in its union, is optional.
ResultType(req, opt) == [req |-> req, opt |-> opt]

\* SetValueResultType, FirmwareUpdateResultType by the comments at their halves.
VersionedKey(v) == IF v >= 29 THEN "result" ELSE "success"

ControllerResultTypes(v) ==
    ResultType(
        {"beginInclusion", "stopInclusion", "beginExclusion", "stopExclusion",
         "replaceFailedNode", "healNode", "rebuildNodeRoutes",
         "beginHealingNetwork", "beginRebuildingRoutes", "stopHealingNetwork",
         "stopRebuildingRoutes", "setRFRegion", "toggleRF", "setPowerlevel",
         "setMaxLongRangePowerlevel", "setLongRangeChannel"} \X {"success"}
        \cup {"firmwareUpdateOTA", "firmwareUpdateOTW"} \X {VersionedKey(v)}
        \cup {"getAnyFirmwareUpdateProgress", "isAnyOTAFirmwareUpdateInProgress",
              "isFirmwareUpdateInProgress"} \X {"progress"}
        \cup {"getAvailableFirmwareUpdates",
              "getAllAvailableFirmwareUpdates"} \X {"updates"}
        \cup {"getPowerlevel"} \X {"powerlevel", "measured0dBm"}
        \cup {"getLongRangeChannel"} \X {"channel", "supportsAutoChannelSelection"}
        \cup {<<"isFailedNode", "failed">>, <<"getAssociationGroups", "groups">>,
              <<"getAssociations", "associations">>, <<"checkAssociation", "result">>,
              <<"isAssociationAllowed", "allowed">>,
              <<"getNodeNeighbors", "neighbors">>, <<"backupNVMRaw", "nvmData">>,
              <<"getProvisioningEntries", "entries">>, <<"getState", "state">>,
              <<"getRFRegion", "region">>, <<"getKnownLifelineRoutes", "routes">>,
              <<"getMaxLongRangePowerlevel", "limit">>},
        {<<"getProvisioningEntry", "entry">>, <<"supportsFeature", "supported">>})

\* The second half of ControllerResultTypes.
RoutingResultTypes ==
    ResultType(
        {"assignReturnRoutes", "deleteReturnRoutes", "assignSUCReturnRoutes",
         "deleteSUCReturnRoutes", "assignPriorityReturnRoute",
         "assignPrioritySUCReturnRoute", "assignCustomReturnRoutes",
         "assignCustomSUCReturnRoutes", "setPriorityRoute", "removePriorityRoute",
         "discoverNodeNeighbors", "externalNVMWriteByte", "externalNVMWriteBuffer",
         "stopJoiningNetwork", "stopLeavingNetwork"} \X {"success"}
        \cup {"getBackgroundRSSI"} \X {"rssiChannel0", "rssiChannel1"}
        \cup {"externalNVMReadBuffer", "externalNVMReadBuffer700",
              "externalNVMReadBufferExt"} \X {"buffer"}
        \cup {"externalNVMReadBuffer700", "externalNVMWriteBuffer700",
              "externalNVMReadBufferExt", "externalNVMWriteBufferExt"}
                 \X {"endOfFile"}
        \cup {"externalNVMOpen", "externalNVMOpenExt"} \X {"size"}
        \cup {"queryRFRegionInfo"} \X {"region", "supportsZWave", "supportsLongRange"}
        \cup {"beginJoiningNetwork", "beginLeavingNetwork"} \X {"result"}
        \cup {"getPriorityReturnRoutesCached", "getCustomReturnRoutesCached",
              "getCustomSUCReturnRoutesCached"} \X {"routes"}
        \cup {<<"getLongRangeNodes", "nodeIds">>, <<"getDSK", "dsk">>,
              <<"getNVMId", "nvmId">>, <<"externalNVMReadByte", "byte">>,
              <<"externalNVMOpenExt", "supportedOperations">>,
              <<"querySupportedRFRegions", "regions">>,
              <<"getAllAssociationGroups", "groups">>,
              <<"getAllAssociations", "associations">>},
        {"getBackgroundRSSI"} \X {"rssiChannel2", "rssiChannel3"}
        \cup {"getPriorityRoute", "getPriorityReturnRouteCached",
              "getPrioritySUCReturnRouteCached"} \X {"route"}
        \cup {<<"queryRFRegionInfo", "includesRegion">>,
              <<"getSupportedRFRegions", "regions">>})

NodeResultTypes(v) ==
    ResultType(
        {"setValue", "beginFirmwareUpdate", "updateFirmware"} \X {VersionedKey(v)}
        \cup {"getFirmwareUpdateCapabilities",
              "getFirmwareUpdateCapabilitiesCached"} \X {"capabilities"}
        \cup {"checkLifelineHealth", "checkRouteHealth"} \X {"summary"}
        \cup {"getFirmwareUpdateProgress", "isFirmwareUpdateInProgress",
              "isHealthCheckInProgress",
              "isLinkReliabilityCheckInProgress"} \X {"progress"}
        \cup {<<"getDefinedValueIDs", "valueIds">>, <<"ping", "responded">>,
              <<"testPowerlevel", "framesAcked">>, <<"getEndpointCount", "count">>,
              <<"getState", "state">>, <<"setDateAndTime", "success">>,
              <<"getDateAndTime", "dateAndTime">>, <<"createDump", "dump">>,
              <<"getSupportedNotificationEvents", "events">>,
              <<"checkLinkReliability", "result">>},
        {"pollValue", "getValue", "getRawConfigParameterValue"} \X {"value"}
        \cup {<<"setRawConfigParameterValue", "result">>,
              <<"hasSecurityClass", "hasSecurityClass">>,
              <<"getHighestSecurityClass", "highestSecurityClass">>,
              <<"getValueTimestamp", "timestamp">>,
              <<"hasDeviceConfigChanged", "changed">>})

EndpointResultTypes ==
    ResultType(
        {"supportsCCAPI", "supportsCC"} \X {"supported"}
        \cup {<<"controlsCC", "controlled">>, <<"isCCSecure", "secure">>,
              <<"getCCVersion", "version">>, <<"getCCs", "commandClasses">>,
              <<"maySupportBasicCC", "maySupport">>,
              <<"wasCCRemovedViaConfig", "removed">>},
        {"getNodeUnsafe", "tryGetNode"} \X {"node"}
        \cup {<<"invokeCCAPI", "response">>, <<"setRawConfigParameterValue", "result">>,
              <<"getRawConfigParameterValue", "value">>})

EndpointAccessControlResultTypes ==
    ResultType(
        {"getUserCapabilitiesCached", "getCredentialCapabilitiesCached"}
            \X {"capabilities"}
        \cup {"getUsers", "getUsersCached"} \X {"users"}
        \cup {"getCredentials", "getCredentialsCached", "getCredentialsByType",
              "getCredentialsByTypeCached", "getAllCredentials",
              "getAllCredentialsCached"} \X {"credentials"}
        \cup {"setUser", "addUser", "deleteUser", "deleteAllUsers",
              "assignCredential", "setCredential", "deleteCredential"} \X {"result"}
        \cup {<<"isSupported", "supported">>},
        {"getUser", "getUserCached"} \X {"user"}
        \cup {"getCredential", "getCredentialCached"} \X {"credential"}
        \cup {"startCredentialLearn", "cancelCredentialLearn", "setAdminCode"}
                 \X {"result"}
        \cup {<<"getAdminCode", "code">>})

DriverResultTypes ==
    ResultType(
        {"getConfig", "getLogConfig"} \X {"config"}
        \cup {"checkForConfigUpdates"} \X {"installedVersion", "updateAvailable"}
        \cup {"installConfigUpdate", "shutdown"} \X {"success"}
        \cup {<<"isStatisticsEnabled", "statisticsEnabled">>,
              <<"firmwareUpdateOTW", "result">>, <<"getSupportedCCVersion", "version">>,
              <<"isOTWFirmwareUpdateInProgress", "progress">>},
        {<<"checkForConfigUpdates", "newVersion">>, <<"sendTestFrame", "status">>,
         <<"getSafeCCVersion", "version">>})

\* BroadcastNodeResultTypes, MulticastGroupResultTypes
VirtualResultTypes(v) ==
    ResultType(
        {"supportsCC", "supportsCCAPI"} \X {"supported"}
        \cup {<<"setValue", VersionedKey(v)>>, <<"getEndpointCount", "count">>,
              <<"getCCVersion", "version">>, <<"getDefinedValueIDs", "valueIDs">>},
        {<<"invokeCCAPI", "response">>})

ConfigManagerResultTypes ==
    ResultType(
        {<<"manufacturers", "manufacturers">>, <<"configVersion", "configVersion">>},
        {"lookupDevice", "lookupDevicePreserveConditions"} \X {"config"}
        \cup {"getIndex", "getFulltextIndex"} \X {"index"}
        \cup {<<"lookupManufacturer", "name">>})

UtilsResultTypes ==
    ResultType(
        {"num2hex", "buffer2hex"} \X {"hex"}
        \cup {<<"parseQRCodeString", "qrProvisioningInformation">>,
              <<"formatId", "id">>, <<"getEnumMemberName", "name">>,
              <<"rssiToString", "rssi">>, <<"guessFirmwareFileFormat", "format">>,
              <<"extractFirmware", "firmware">>},
        {<<"tryParseDSKFromQRCodeString", "dsk">>, <<"tryUnzipFirmwareFile", "file">>})

ZnifferResultTypes ==
    ResultType(
        {<<"getCaptureAsZLFBuffer", "capture">>, <<"capturedFrames", "capturedFrames">>,
         <<"supportedFrequencies", "frequencies">>, <<"getLRRegions", "regions">>,
         <<"getSupportedLRChannelConfigs", "channelConfigs">>},
        {<<"currentFrequency", "frequency">>,
         <<"getCurrentLRChannelConfig", "channelConfig">>})

ResultTypes(v) ==
    [ controller |-> ResultType(ControllerResultTypes(v).req \cup RoutingResultTypes.req,
                                ControllerResultTypes(v).opt \cup RoutingResultTypes.opt),
      node |-> NodeResultTypes(v), endpoint |-> EndpointResultTypes,
      accessControl |-> EndpointAccessControlResultTypes,
      driver |-> DriverResultTypes, virtual |-> VirtualResultTypes(v),
      configManager |-> ConfigManagerResultTypes, utils |-> UtilsResultTypes,
      zniffer |-> ZnifferResultTypes ]

=============================================================================

---------------------------- MODULE MessagesProofs ----------------------------
(***************************************************************************)
(* What a client gives in a request reaches the driver or is refused: one  *)
(* lemma for each handler that has to choose between fields, with no bound *)
(* on the values of those that are only passed on.  Then the dumps and the *)
(* answers: their names, and the types declared for them, with one lemma   *)
(* for each kind of dump and each handler.                                 *)
(***************************************************************************)
EXTENDS Messages, TLAPS

-----------------------------------------------------------------------------
(* Optional fields                                                          *)

LEMMA GivenWins ==
    \A x, default : Else(x, default) = IF x # Absent THEN x ELSE default
  BY DEF Else, Given

\* An error is told from the arguments of a call by the keys it has.
LEMMA CallsAreNotRefusals ==
    /\ \A x, y, z : [bitMask |-> x, valueSize |-> y, valueFormat |-> z] # Refused
    /\ \A x, y : [unzipped |-> x, format |-> y] # Refused
    /\ \A x, y : [firmware |-> x, target |-> y] # Refused
    /\ \A x, y, z : [strategy |-> x, provisioning |-> y, userCallbacks |-> z] # Refused
    /\ \A x : [entry |-> x] # Refused
  BY DEF Refused

LEMMA FirstOfTwo ==
    \A x, a, b : (x = IF a # Absent THEN a ELSE b) => FirstCounts(x, <<a, b>>)
<1> SUFFICES ASSUME NEW a, NEW b PROVE FirstCounts(IF a # Absent THEN a ELSE b, <<a, b>>)
  OBVIOUS
<1>1. DOMAIN <<a, b>> = 1..2 /\ <<a, b>>[1] = a /\ <<a, b>>[2] = b
  OBVIOUS
<1>2. /\ \A i \in 1..2 : i = 1 \/ i = 2
      /\ 1 \in 1..2 /\ 2 \in 1..2 /\ 1..(1 - 1) = {} /\ 1..(2 - 1) = {1}
  OBVIOUS
<1> QED
  BY <1>1, <1>2 DEF FirstCounts

LEMMA FirstOfThree ==
    \A x, a, b, c :
        (x = IF a # Absent THEN a ELSE IF b # Absent THEN b ELSE c) =>
            FirstCounts(x, <<a, b, c>>)
<1> SUFFICES ASSUME NEW a, NEW b, NEW c
             PROVE  FirstCounts(IF a # Absent THEN a ELSE IF b # Absent THEN b ELSE c,
                                 <<a, b, c>>)
  OBVIOUS
<1>1. /\ DOMAIN <<a, b, c>> = 1..3
      /\ <<a, b, c>>[1] = a /\ <<a, b, c>>[2] = b /\ <<a, b, c>>[3] = c
  OBVIOUS
<1>2. /\ \A i \in 1..3 : i = 1 \/ i = 2 \/ i = 3
      /\ 1 \in 1..3 /\ 2 \in 1..3 /\ 3 \in 1..3
      /\ 1..(1 - 1) = {} /\ 1..(2 - 1) = {1} /\ 1..(3 - 1) = {1, 2}
  OBVIOUS
<1> QED
  BY <1>1, <1>2 DEF FirstCounts

-----------------------------------------------------------------------------
(* The handlers                                                             *)

\* A mask and a size exclude each other, and a size comes with a format; what
\* the driver is called with is then what was given.  This holds for masks,
\* sizes and formats of any value (set_raw_config_parameter_value).
LEMMA RawConfigIsUnderstood == ASSUME NEW m PROVE RawConfigUnderstood(m)
<1> DEFINE conflict == \/ (m.valueSize = Absent) # (m.valueFormat = Absent)
                       \/ (m.valueSize # Absent /\ m.bitMask # Absent)
<1>1. CASE conflict
  BY <1>1 DEF RawConfigUnderstood, SetRawConfigParameterValue, Given
<1>2. CASE ~conflict /\ m.bitMask # Absent
  <2>1. m.valueSize = Absent /\ m.valueFormat = Absent
    BY <1>2
  <2>2. SetRawConfigParameterValue(m) =
            [bitMask |-> m.bitMask, valueSize |-> Absent, valueFormat |-> Absent]
    BY <1>2, <2>1 DEF SetRawConfigParameterValue, Given
  <2> QED
    BY <1>2, <2>1, <2>2, CallsAreNotRefusals DEF RawConfigUnderstood
<1>3. CASE ~conflict /\ m.bitMask = Absent
  <2>1. SetRawConfigParameterValue(m) =
            [bitMask |-> Absent, valueSize |-> m.valueSize,
             valueFormat |-> m.valueFormat]
    BY <1>3 DEF SetRawConfigParameterValue, Given
  <2> QED
    BY <1>3, <2>1, CallsAreNotRefusals DEF RawConfigUnderstood
<1> QED BY <1>1, <1>2, <1>3

\* The format and the target in the message win over what the file tells of
\* itself, for formats and targets of any value, and unzipping is not left out
\* for the sake of either.
LEMMA FirmwareIsUnderstood == ASSUME NEW m PROVE FirmwareUnderstood(m)
<1>1. PICK ofFile : ofFile = IF m.zipped THEN "unzipped" ELSE m.guess
  OBVIOUS
<1>2. PICK format : format = IF m.fileFormat # Absent THEN m.fileFormat ELSE ofFile
  OBVIOUS
<1>3. PICK target : target = IF m.target # Absent THEN m.target ELSE "ofTheFile"
  OBVIOUS
<1>4. Else(m.fileFormat, DetectedFormat(m)) = format /\ Else(m.target, "ofTheFile") = target
  BY <1>1, <1>2, <1>3, GivenWins DEF DetectedFormat
<1>5. CASE format = Absent
  <2>1. UpdateFirmware(m) = Refused
    BY <1>4, <1>5 DEF UpdateFirmware, ParseFirmwareFile
  <2> QED BY <1>1, <1>2, <1>5, <2>1 DEF FirmwareUnderstood
<1>6. CASE format # Absent
  <2>1. ParseFirmwareFile(m) = [unzipped |-> m.zipped, format |-> format]
    BY <1>4, <1>6 DEF ParseFirmwareFile
  <2>2. UpdateFirmware(m) =
            [firmware |-> [unzipped |-> m.zipped, format |-> format], target |-> target]
    BY <1>4, <2>1, CallsAreNotRefusals DEF UpdateFirmware
  <2>3. UpdateFirmware(m) # Refused
    BY <2>2, CallsAreNotRefusals
  <2>4. /\ UpdateFirmware(m).firmware.format = format
        /\ UpdateFirmware(m).firmware.unzipped = m.zipped
        /\ UpdateFirmware(m).target = target
    BY <2>2
  <2>5. /\ FirstCounts(format, <<m.fileFormat, ofFile>>)
        /\ FirstCounts(target, <<m.target, "ofTheFile">>)
    BY <1>2, <1>3, FirstOfTwo
  <2>6. ~(m.fileFormat = Absent /\ ofFile = Absent)
    BY <1>2, <1>6
  <2> QED BY <1>1, <2>3, <2>4, <2>5, <2>6, Zenon DEF FirmwareUnderstood
<1> QED BY <1>5, <1>6

\* Files listed in the older way are refused even beside the newer field.
LEMMA UpdateIsUnderstood == ASSUME NEW m PROVE UpdateUnderstood(m)
  BY DEF UpdateUnderstood, FirmwareUpdateOTA, Given

\* options, then unprovision, then strategy, each with its meaning.
LEMMA ExclusionIsUnderstood ==
    ASSUME NEW m \in ExclusionRequest PROVE ExclusionUnderstood(m)
<1>1. m.unprovision \in {Absent, "true", "false", "inactive"}
  BY DEF ExclusionRequest
<1>2. m.unprovision # Absent => AsStrategy(m.unprovision) # Absent
  BY <1>1 DEF AsStrategy, Absent
<1>3. m.unprovision = Absent => AsStrategy(m.unprovision) = Absent
  BY DEF AsStrategy, Absent
<1>4. ProcessExclusionOptions(m) =
          IF m.options # Absent THEN m.options
          ELSE IF AsStrategy(m.unprovision) # Absent THEN AsStrategy(m.unprovision)
          ELSE m.strategy
  <2>1. CASE m.options # Absent
    BY <2>1 DEF ProcessExclusionOptions, Given
  <2>2. CASE m.options = Absent /\ m.unprovision # Absent
    <3>1. ProcessExclusionOptions(m) =
              [true |-> "Unprovision", false |-> "ExcludeOnly",
               inactive |-> "DisableProvisioningEntry"][m.unprovision]
      BY <2>2 DEF ProcessExclusionOptions, Given
    <3>2. ProcessExclusionOptions(m) = AsStrategy(m.unprovision)
      BY <1>1, <2>2, <3>1 DEF AsStrategy
    <3> QED BY <1>2, <2>2, <3>2
  <2>3. CASE m.options = Absent /\ m.unprovision = Absent
    BY <1>3, <2>3 DEF ProcessExclusionOptions, Given
  <2> QED BY <2>1, <2>2, <2>3
<1> QED BY <1>4, FirstOfThree DEF ExclusionUnderstood

\* The strategy of an inclusion is the one asked for, and a bootstrap of it has
\* either the provisioned details or the clients to ask, whichever of the forms
\* of the request is used; other strategies ask nobody.
LEMMA InclusionIsUnderstood ==
    ASSUME NEW m \in InclusionRequest PROVE InclusionUnderstood(m)
<1>1. /\ m.provisioning \in {Absent, "QRCode", "badQRCode", "entry"}
      /\ m.options = Absent => m.provisioning = Absent
  BY DEF InclusionRequest
<1>2. PICK legacy : legacy = IF m.includeNonSecure = "true" THEN "Insecure" ELSE Absent
  OBVIOUS
<1>3. ASSUME NEW s, NEW p, NEW asks \in BOOLEAN,
             ProcessInclusionOptions(m) =
                 [strategy |-> s, provisioning |-> p, userCallbacks |-> asks],
             FirstCounts(s, <<m.options, legacy, "Security_S0">>),
             Bootstraps(s) => (p = "entry") # asks /\ (asks <=> m.provisioning = Absent),
             ~Bootstraps(s) => ~asks /\ p = m.provisioning
      PROVE  InclusionUnderstood(m)
  <2>1. /\ ProcessInclusionOptions(m).strategy = s
        /\ ProcessInclusionOptions(m).provisioning = p
        /\ ProcessInclusionOptions(m).userCallbacks = asks
    BY <1>3
  <2>2. ProcessInclusionOptions(m) # Refused
    BY <1>3, CallsAreNotRefusals
  <2> QED BY <1>2, <1>3, <2>1, <2>2, Zenon DEF InclusionUnderstood
<1>4. CASE m.options # Absent
  <2>1. CASE Bootstraps(m.options) /\ m.provisioning = "badQRCode"
    <3>1. ProcessInclusionOptions(m) = Refused
      BY <1>4, <2>1, Zenon DEF ProcessInclusionOptions, Given
    <3> QED BY <2>1, <3>1, Zenon DEF InclusionUnderstood
  <2>2. CASE ~(Bootstraps(m.options) /\ m.provisioning = "badQRCode")
    \* Named first: the provers take formulas and records apart in different steps.
    <3>1. PICK asks \in BOOLEAN : asks = (Bootstraps(m.options) /\ ~Given(m.provisioning))
      BY Zenon
    <3>2. PICK p : p = IF Bootstraps(m.options) /\ m.provisioning = "QRCode"
                       THEN "entry" ELSE m.provisioning
      OBVIOUS
    <3>3. ProcessInclusionOptions(m) =
              [strategy |-> m.options, provisioning |-> p, userCallbacks |-> asks]
      BY <1>4, <2>2, <3>1, <3>2, Zenon DEF ProcessInclusionOptions, Given
    <3>4. FirstCounts(m.options, <<m.options, legacy, "Security_S0">>)
      BY <1>4, FirstOfThree
    <3>5. Bootstraps(m.options) =>
              (p = "entry") # asks /\ (asks <=> m.provisioning = Absent)
      BY <1>1, <2>2, <3>1, <3>2 DEF Given, Absent
    <3>6. ~Bootstraps(m.options) => ~asks /\ p = m.provisioning
      BY <3>1, <3>2
    <3> QED BY <1>3, <3>3, <3>4, <3>5, <3>6
  <2> QED BY <2>1, <2>2
<1>5. CASE m.options = Absent
  <2>1. PICK s : s = IF m.includeNonSecure = "true" THEN "Insecure" ELSE "Security_S0"
    OBVIOUS
  <2>2. ProcessInclusionOptions(m) =
            [strategy |-> s, provisioning |-> Absent, userCallbacks |-> FALSE]
    BY <1>5, <2>1 DEF ProcessInclusionOptions, Given
  <2>3. ~Bootstraps(s)
    BY <2>1 DEF Bootstraps
  <2>4. FirstCounts(s, <<m.options, legacy, "Security_S0">>)
    <3>1. s = IF m.options # Absent THEN m.options
              ELSE IF legacy # Absent THEN legacy ELSE "Security_S0"
      BY <1>2, <1>5, <2>1 DEF Absent
    <3> QED BY <3>1, FirstOfThree
  <2> QED BY <1>1, <1>3, <1>5, <2>2, <2>3, <2>4
<1> QED BY <1>4, <1>5

\* Of the two names of an entry the newer counts if it names anything; one of
\* them is enough, and one of them must.
LEMMA EntryIsUnderstood == ASSUME NEW m PROVE EntryUnderstood(m)
<1> DEFINE names(x) == IF x \in {"empty", "0"} THEN Absent ELSE x
<1>1. \A x : Truthy(x) <=> names(x) # Absent
  BY DEF Truthy, Absent
<1>2. \A x : Truthy(x) => names(x) = x
  BY DEF Truthy
<1>3. CASE names(m.dskOrNodeId) = Absent /\ names(m.dsk) = Absent
  BY <1>1, <1>3 DEF EntryUnderstood, GetProvisioningEntry
<1>4. CASE ~(names(m.dskOrNodeId) = Absent /\ names(m.dsk) = Absent)
  <2>1. PICK entry : entry = IF names(m.dskOrNodeId) # Absent
                             THEN names(m.dskOrNodeId) ELSE names(m.dsk)
    OBVIOUS
  <2>2. GetProvisioningEntry(m) = [entry |-> entry]
    BY <1>1, <1>2, <1>4, <2>1 DEF GetProvisioningEntry
  <2>3. GetProvisioningEntry(m) # Refused /\ GetProvisioningEntry(m).entry = entry
    BY <2>2, CallsAreNotRefusals
  <2>4. FirstCounts(entry, <<names(m.dskOrNodeId), names(m.dsk)>>)
    BY <2>1, FirstOfTwo
  <2> QED BY <1>4, <2>3, <2>4 DEF EntryUnderstood
<1> QED BY <1>3, <1>4

-----------------------------------------------------------------------------
(* Every request                                                            *)

LEMMA EveryRequestIsUnderstood == ASSUME NEW m PROVE Understood(m)
  BY RawConfigIsUnderstood, FirmwareIsUnderstood, UpdateIsUnderstood,
     ExclusionIsUnderstood, InclusionIsUnderstood, EntryIsUnderstood DEF Understood

\* A request means one thing whichever of its forms a client uses, also several
\* at once, at any version and whatever the driver knows by then: one of them
\* counts, always the same, alone and with the meaning it has by itself, or an
\* error is the answer (lib/common.ts, lib/controller/message_handler.ts).
THEOREM FormsMeanOneThing == MessageSpec => []RequestsAreUnderstood
<1>1. MessageInit => RequestsAreUnderstood
  BY DEF MessageInit, RequestsAreUnderstood
<1>2. RequestsAreUnderstood'
  BY EveryRequestIsUnderstood DEF RequestsAreUnderstood
<1> QED BY <1>1, <1>2, PTL DEF MessageSpec

-----------------------------------------------------------------------------
(* Names                                                                    *)

Versions == 0..Latest

\* A stage of the dump of e sets the key for clients of version v.
Told(e, v, key) == \E s \in Stages[e] : s[1] <= v /\ v <= s[2] /\ key \in s[3]

LEMMA InDump ==
    ASSUME NEW e, NEW v, NEW traits, NEW key
    PROVE  key \in Dump(e, v, traits) <=> Told(e, v, key) /\ ~Lacks(traits, key)
<1>1. key \in Dump(e, v, traits) <=>
          /\ ~Lacks(traits, key)
          /\ \E s \in {t \in Stages[e] : t[1] <= v /\ v <= t[2]} : key \in s[3]
  BY Zenon DEF Dump
<1> QED BY <1>1, Zenon DEF Told

LEMMA StagesOf ==
    /\ Stages["driver"] = DriverStages
    /\ Stages["controller"] = ControllerStages
    /\ Stages["node"] = NodeStages
    /\ Stages["foundNode"] = FoundNodeStages
    /\ Stages["endpoint"] = EndpointStages
    /\ Stages["deviceClass"] = DeviceClassStages
    /\ Stages["metadata"] = MetadataStages
    /\ Stages["configurationMetadata"] = ConfigurationMetadataStages
    /\ Stages["result"] = ResultStages
  BY DEF Stages

\* Which versions are told each of the old names and each of the new ones.
LEMMA DriverNames ==
    ASSUME NEW v \in Versions
    PROVE  /\ Told("driver", v, "level:number") <=> v < 3
           /\ Told("driver", v, "level:string") <=> v >= 3
  BY StagesOf DEF Told, DriverStages, Until, Since, Always, Latest, Versions

LEMMA ControllerNames ==
    ASSUME NEW v \in Versions
    PROVE  /\ Told("controller", v, "libraryVersion") <=> v < 16
           /\ Told("controller", v, "sdkVersion") <=> v >= 16
           /\ Told("controller", v, "serialApiVersion") <=> v < 16
           /\ Told("controller", v, "firmwareVersion") <=> v >= 16
           /\ Told("controller", v, "isSecondary") <=> v < 22
           /\ Told("controller", v, "isPrimary") <=> v >= 22
           /\ Told("controller", v, "isStaticUpdateController") <=> v < 22
           /\ Told("controller", v, "isSUC") <=> v >= 22
           /\ Told("controller", v, "isSlave") <=> v < 22
           /\ Told("controller", v, "nodeType") <=> v >= 22
           /\ Told("controller", v, "isHealNetworkActive") <=> v < 32
           /\ Told("controller", v, "isRebuildingRoutes") <=> v >= 32
  BY StagesOf DEF Told, ControllerStages, Until, Since, Always, Latest, Versions

LEMMA NodeNames ==
    ASSUME NEW v \in Versions
    PROVE  /\ Told("node", v, "isFrequentListening:boolean") <=> v < 3
           /\ Told("node", v, "isFrequentListening") <=> v >= 3
           /\ Told("node", v, "maxBaudRate") <=> v < 3
           /\ Told("node", v, "maxDataRate") <=> v >= 3
           /\ Told("node", v, "version") <=> v < 3
           /\ Told("node", v, "protocolVersion") <=> v >= 3
           /\ Told("node", v, "isBeaming") <=> v < 3
           /\ Told("node", v, "supportsBeaming") <=> v >= 3
           /\ Told("node", v, "nodeType:zwavePlus") <=> v < 3
           /\ Told("node", v, "zwavePlusNodeType") <=> v >= 3
           /\ Told("node", v, "roleType") <=> v < 3
           /\ Told("node", v, "zwavePlusRoleType") <=> v >= 3
           /\ Told("node", v, "interviewStage:number") <=> v < 4
           /\ Told("node", v, "interviewStage:string") <=> v >= 4
           /\ Told("node", v, "deviceClass:object") <=> v < 1
           /\ Told("node", v, "deviceClass") <=> v >= 1
           /\ Told("node", v, "commandClasses") <=> 1 <= v /\ v < 15
  BY StagesOf DEF Told, NodeStages, Until, Since, Always, Latest, Versions

LEMMA EndpointNames ==
    ASSUME NEW v \in Versions
    PROVE  /\ Told("endpoint", v, "commandClasses") <=> v >= 15
  BY StagesOf DEF Told, EndpointStages, Until, Since, Always, Latest, Versions

LEMMA ResultNames ==
    ASSUME NEW v \in Versions
    PROVE  /\ Told("result", v, "success") <=> v < 29
           /\ Told("result", v, "result") <=> v >= 29
  BY StagesOf DEF Told, ResultStages, Until, Since, Always, Latest, Versions

\* Of the names only those of the controller's role depend on the object.
LEMMA NamesLack ==
    ASSUME NEW traits, NEW f \in Renamed
    PROVE  /\ Lacks(traits, f[2]) <=> f[2] = "isSecondary" /\ "isPrimary" \notin traits
           /\ Lacks(traits, f[4]) <=> f[4] = "isPrimary" /\ "isPrimary" \notin traits
           /\ f[4] \in Traits \ traits <=> f[4] = "isPrimary" /\ "isPrimary" \notin traits
           /\ f[2] = "isSecondary" <=> f[4] = "isPrimary"
  BY DEF Renamed, Lacks, Traits

\* Where one name ends, the other begins, whatever the entity.
LEMMA NamesMeet ==
    ASSUME NEW v \in Versions, NEW f \in Renamed, v >= f[5]
    PROVE  Told(f[1], v, f[2]) <=> ~Told(f[3], v, f[4])
  BY DriverNames, ControllerNames, NodeNames, EndpointNames, ResultNames
     DEF Renamed, Versions, Latest

LEMMA InitVersion == MessageInit => version \in Versions
  BY DEF MessageInit, Init, Versions, Latest

LEMMA StepVersion == ASSUME version \in Versions, [MessageNext]_<<vars, request>>
                     PROVE  version' \in Versions
  BY DEF MessageNext, Next, NextVersion, Learn, Forget, vars, Versions, Latest

\* A client of any version is told each fact by exactly one of its names,
\* although the two are left out and put in by separate tests of the version
\* (lib/state.ts, lib/common.ts).
THEOREM EachFactHasOneName == MessageSpec => []OneNamePerFact
<1>1. MessageInit => version \in Versions
  BY InitVersion
<1>2. version \in Versions => OneNamePerFact
  <2> SUFFICES ASSUME version \in Versions, NEW f \in Renamed, version >= f[5]
               PROVE  LET old == f[2] \in Dump(f[1], version, known)
                          new == f[4] \in Dump(f[3], version, known)
                      IN  IF f[4] \in Traits \ known THEN ~old /\ ~new ELSE old # new
    BY Zenon DEF OneNamePerFact
  <2>1. /\ f[2] \in Dump(f[1], version, known) <=>
               Told(f[1], version, f[2]) /\ ~Lacks(known, f[2])
        /\ f[4] \in Dump(f[3], version, known) <=>
               Told(f[3], version, f[4]) /\ ~Lacks(known, f[4])
    BY InDump, Zenon
  <2>2. Told(f[1], version, f[2]) <=> ~Told(f[3], version, f[4])
    BY NamesMeet
  <2>3. CASE f[4] \in Traits \ known
    BY <2>1, <2>3, NamesLack, Zenon
  <2>4. CASE f[4] \notin Traits \ known
    BY <2>1, <2>2, <2>4, NamesLack, Zenon
  <2> QED BY <2>3, <2>4
<1>3. version \in Versions /\ [MessageNext]_<<vars, request>> => (version \in Versions)'
  BY StepVersion
<1> QED BY <1>1, <1>2, <1>3, PTL DEF MessageSpec

-----------------------------------------------------------------------------
(* The types of the dumps                                                   *)

\* A type fits the stages for version v: what it requires is told of every
\* object, and nothing is told that it does not have.
Everywhere(T)     == \A key \in T.req : key \notin Traits \cup {"isSecondary"}
Requires(e, v, T) == \A key \in T.req : Told(e, v, key)
Covers(e, v, T)   == \A key : Told(e, v, key) => key \in T.req \cup T.opt
Fits(e, v, T)     == Everywhere(T) /\ Requires(e, v, T) /\ Covers(e, v, T)

\* Clients of version v get past the returns before that of type c[2].
Reaches(e, v, c) ==
    /\ c \in Casts[e] /\ c[1] <= v
    /\ \A d \in Casts[e] : d[1] \in Nat /\ (d[1] <= v => d = c \/ d[1] < c[1])

FitsFrom(e, v, first, T) == Reaches(e, v, <<first, T>>) /\ Fits(e, v, T)

LEMMA Parts ==
    /\ \A T, r, o : With(T, r, o).req = T.req \cup r
    /\ \A T, r, o : With(T, r, o).opt = T.opt \cup o
    /\ \A T, r : Omit(T, r).req = T.req \ r
    /\ \A T, r : Omit(T, r).opt = T.opt \ r
    /\ \A r, o : Type(r, o).req = r
    /\ \A r, o : Type(r, o).opt = o
  BY DEF With, Omit, Type

LEMMA CastsOf ==
    /\ Casts["driver"] =
           {<<0, Driver0>>, <<47, Driver47>>}
    /\ Casts["controller"] =
           {<<0, Controller0>>, <<16, Controller16>>, <<22, Controller22>>,
            <<25, Controller25>>, <<31, Controller31>>, <<32, Controller32>>,
            <<34, Controller34>>, <<35, Controller35>>, <<36, Controller36>>,
            <<47, Controller47>>}
    /\ Casts["node"] =
           {<<0, Node0>>, <<1, Node1>>, <<3, Node3>>, <<4, Node4>>,
            <<5, Node5>>, <<7, Node7>>, <<10, Node10>>, <<14, Node14>>,
            <<15, Node29>>, <<30, Node30>>, <<31, Node31>>, <<35, Node35>>,
            <<42, Node42>>, <<47, Node47>>}
    /\ Casts["foundNode"] =
           {<<0, FoundNode19>>, <<22, FoundNode22>>, <<23, FoundNode23>>}
    /\ Casts["endpoint"] =
           {<<0, Endpoint0>>, <<3, Endpoint3>>, <<15, Endpoint15>>,
            <<26, Endpoint26>>}
    /\ Casts["deviceClass"] =
           {<<0, DeviceClass0>>, <<36, DeviceClass36>>}
    /\ Casts["metadata"] =
           {<<0, Metadata0>>, <<27, Metadata28>>, <<46, Metadata46>>}
    /\ Casts["configurationMetadata"] =
           {<<0, ConfigurationMetadata0>>, <<29, ConfigurationMetadata29>>,
            <<46, ConfigurationMetadata46>>}
    /\ Casts["result"] =
           {<<0, Success>>, <<29, Result>>}
  BY DEF Casts

\* The return a client gets is the last of those its version reaches.
LEMMA Declares ==
    ASSUME NEW e, NEW v \in Versions, NEW n \in Nat, NEW T, Reaches(e, v, <<n, T>>)
    PROVE  Declared(e, v) = T
<1> DEFINE c == <<n, T>>
           Is(x) == x[1] <= v /\ \A d \in Casts[e] : d[1] <= v => d[1] <= x[1]
<1>1. c \in Casts[e] /\ c[1] = n /\ c[2] = T /\ n <= v
  BY DEF Reaches
<1>2. \A d \in Casts[e] : d[1] \in Nat /\ (d[1] <= v => d = c \/ d[1] < n)
  BY DEF Reaches
<1>3. Is(c)
  BY <1>1, <1>2 DEF Versions
<1>4. ASSUME NEW x \in Casts[e], Is(x) PROVE x = c
  BY <1>1, <1>2, <1>4 DEF Versions
<1>5. Declared(e, v) = (CHOOSE x \in Casts[e] : Is(x))[2]
  BY DEF Declared
<1> HIDE DEF Is, c
<1>6. (CHOOSE x \in Casts[e] : Is(x)) = c
  BY <1>1, <1>3, <1>4
<1> QED BY <1>1, <1>5, <1>6

\* What fits the stages fits the dump of any object.
LEMMA FitsMeans ==
    ASSUME NEW e, NEW v, NEW traits, NEW T, Fits(e, v, T)
    PROVE  /\ T.req \subseteq Dump(e, v, traits)
           /\ Dump(e, v, traits) \subseteq T.req \cup T.opt
<1>1. ASSUME NEW key \in T.req PROVE key \in Dump(e, v, traits)
  <2>1. Told(e, v, key) /\ key \notin Traits /\ key # "isSecondary"
    BY DEF Fits, Requires, Everywhere
  <2> QED BY <2>1, InDump, Zenon DEF Lacks
<1>2. ASSUME NEW key \in Dump(e, v, traits) PROVE key \in T.req \cup T.opt
  BY InDump, Zenon DEF Fits, Covers
<1> QED BY <1>1, <1>2

LEMMA DriverFits ==
    ASSUME NEW v \in Versions
    PROVE  /\ v < 47 => FitsFrom("driver", v, 0, Driver0)
           /\ 47 <= v => FitsFrom("driver", v, 47, Driver47)
<1>1. /\ v < 47 => Reaches("driver", v, <<0, Driver0>>)
      /\ 47 <= v => Reaches("driver", v, <<47, Driver47>>)
  BY CastsOf DEF Reaches, Versions, Latest
<1>2. /\ v < 47 => Fits("driver", v, Driver0)
      /\ 47 <= v => Fits("driver", v, Driver47)
  BY StagesOf, Parts
  DEF Fits, Everywhere, Requires, Covers, Told, Traits, Versions, Latest,
      Until, Since, Always,
      DriverStages, Driver0, Driver47
<1> QED BY <1>1, <1>2 DEF FitsFrom

LEMMA ControllerFits ==
    ASSUME NEW v \in Versions
    PROVE  /\ v < 16 => FitsFrom("controller", v, 0, Controller0)
           /\ 16 <= v /\ v < 22 => FitsFrom("controller", v, 16, Controller16)
           /\ 22 <= v /\ v < 25 => FitsFrom("controller", v, 22, Controller22)
           /\ 25 <= v /\ v < 31 => FitsFrom("controller", v, 25, Controller25)
           /\ 31 <= v /\ v < 32 => FitsFrom("controller", v, 31, Controller31)
           /\ 32 <= v /\ v < 34 => FitsFrom("controller", v, 32, Controller32)
           /\ 34 <= v /\ v < 35 => FitsFrom("controller", v, 34, Controller34)
           /\ 35 <= v /\ v < 36 => FitsFrom("controller", v, 35, Controller35)
           /\ 36 <= v /\ v < 47 => FitsFrom("controller", v, 36, Controller36)
           /\ 47 <= v => FitsFrom("controller", v, 47, Controller47)
<1>1. /\ v < 16 => Reaches("controller", v, <<0, Controller0>>)
      /\ 16 <= v /\ v < 22 => Reaches("controller", v, <<16, Controller16>>)
      /\ 22 <= v /\ v < 25 => Reaches("controller", v, <<22, Controller22>>)
      /\ 25 <= v /\ v < 31 => Reaches("controller", v, <<25, Controller25>>)
      /\ 31 <= v /\ v < 32 => Reaches("controller", v, <<31, Controller31>>)
      /\ 32 <= v /\ v < 34 => Reaches("controller", v, <<32, Controller32>>)
      /\ 34 <= v /\ v < 35 => Reaches("controller", v, <<34, Controller34>>)
      /\ 35 <= v /\ v < 36 => Reaches("controller", v, <<35, Controller35>>)
      /\ 36 <= v /\ v < 47 => Reaches("controller", v, <<36, Controller36>>)
      /\ 47 <= v => Reaches("controller", v, <<47, Controller47>>)
  BY CastsOf DEF Reaches, Versions, Latest
<1> USE StagesOf, Parts
    DEF Fits, Everywhere, Requires, Covers, Told, Traits, Versions, Latest,
        Until, Since, Always, ControllerStages
<1> USE DEF Controller0
<1>2. v < 16 => Fits("controller", v, Controller0)
  BY SMTT(60)
<1> USE DEF Controller16
<1>3. 16 <= v /\ v < 22 => Fits("controller", v, Controller16)
  BY SMTT(60)
<1> USE DEF Controller22
<1>4. 22 <= v /\ v < 25 => Fits("controller", v, Controller22)
  BY SMTT(60)
<1> USE DEF Controller25
<1>5. 25 <= v /\ v < 31 => Fits("controller", v, Controller25)
  BY SMTT(60)
<1> USE DEF Controller31
<1>6. 31 <= v /\ v < 32 => Fits("controller", v, Controller31)
  BY SMTT(60)
<1> USE DEF Controller32
<1>7. 32 <= v /\ v < 34 => Fits("controller", v, Controller32)
  BY SMTT(60)
<1> USE DEF Controller34
<1>8. 34 <= v /\ v < 35 => Fits("controller", v, Controller34)
  BY SMTT(60)
<1> USE DEF Controller35
<1>9. 35 <= v /\ v < 36 => Fits("controller", v, Controller35)
  BY SMTT(60)
<1> USE DEF Controller36
<1>10. 36 <= v /\ v < 47 => Fits("controller", v, Controller36)
  BY SMTT(60)
<1> USE DEF Controller47
<1>11. 47 <= v => Fits("controller", v, Controller47)
  BY SMTT(60)
<1> HIDE DEF Everywhere, Requires, Covers, Told, Traits, Until, Since, Always,
             ControllerStages, Controller0, Controller16, Controller22,
             Controller25, Controller31, Controller32, Controller34,
             Controller35, Controller36, Controller47
<1> QED BY <1>1, <1>2, <1>3, <1>4, <1>5, <1>6, <1>7, <1>8, <1>9, <1>10, <1>11
          DEF FitsFrom

LEMMA NodeFits ==
    ASSUME NEW v \in Versions
    PROVE  /\ v < 1 => FitsFrom("node", v, 0, Node0)
           /\ 1 <= v /\ v < 3 => FitsFrom("node", v, 1, Node1)
           /\ 3 <= v /\ v < 4 => FitsFrom("node", v, 3, Node3)
           /\ 4 <= v /\ v < 5 => FitsFrom("node", v, 4, Node4)
           /\ 5 <= v /\ v < 7 => FitsFrom("node", v, 5, Node5)
           /\ 7 <= v /\ v < 10 => FitsFrom("node", v, 7, Node7)
           /\ 10 <= v /\ v < 14 => FitsFrom("node", v, 10, Node10)
           /\ 14 <= v /\ v < 15 => FitsFrom("node", v, 14, Node14)
           /\ 15 <= v /\ v < 30 => FitsFrom("node", v, 15, Node29)
           /\ 30 <= v /\ v < 31 => FitsFrom("node", v, 30, Node30)
           /\ 31 <= v /\ v < 35 => FitsFrom("node", v, 31, Node31)
           /\ 35 <= v /\ v < 42 => FitsFrom("node", v, 35, Node35)
           /\ 42 <= v /\ v < 47 => FitsFrom("node", v, 42, Node42)
           /\ 47 <= v => FitsFrom("node", v, 47, Node47)
<1>1. /\ v < 1 => Reaches("node", v, <<0, Node0>>)
      /\ 1 <= v /\ v < 3 => Reaches("node", v, <<1, Node1>>)
      /\ 3 <= v /\ v < 4 => Reaches("node", v, <<3, Node3>>)
      /\ 4 <= v /\ v < 5 => Reaches("node", v, <<4, Node4>>)
      /\ 5 <= v /\ v < 7 => Reaches("node", v, <<5, Node5>>)
      /\ 7 <= v /\ v < 10 => Reaches("node", v, <<7, Node7>>)
      /\ 10 <= v /\ v < 14 => Reaches("node", v, <<10, Node10>>)
      /\ 14 <= v /\ v < 15 => Reaches("node", v, <<14, Node14>>)
      /\ 15 <= v /\ v < 30 => Reaches("node", v, <<15, Node29>>)
      /\ 30 <= v /\ v < 31 => Reaches("node", v, <<30, Node30>>)
      /\ 31 <= v /\ v < 35 => Reaches("node", v, <<31, Node31>>)
      /\ 35 <= v /\ v < 42 => Reaches("node", v, <<35, Node35>>)
      /\ 42 <= v /\ v < 47 => Reaches("node", v, <<42, Node42>>)
      /\ 47 <= v => Reaches("node", v, <<47, Node47>>)
  BY CastsOf DEF Reaches, Versions, Latest
<1> USE StagesOf, Parts
    DEF Fits, Everywhere, Requires, Covers, Told, Traits, Versions, Latest,
        Until, Since, Always, NodeStages, Endpoint0
<1> USE DEF Node0
<1>2. v < 1 => Fits("node", v, Node0)
  BY SMTT(60)
<1> USE DEF Node1
<1>3. 1 <= v /\ v < 3 => Fits("node", v, Node1)
  BY SMTT(60)
<1> USE DEF Node3
<1>4. 3 <= v /\ v < 4 => Fits("node", v, Node3)
  BY SMTT(60)
<1> USE DEF Node4
<1>5. 4 <= v /\ v < 5 => Fits("node", v, Node4)
  BY SMTT(60)
<1> USE DEF Node5
<1>6. 5 <= v /\ v < 7 => Fits("node", v, Node5)
  BY SMTT(60)
<1> USE DEF Node7
<1>7. 7 <= v /\ v < 10 => Fits("node", v, Node7)
  BY SMTT(60)
<1> USE DEF Node10
<1>8. 10 <= v /\ v < 14 => Fits("node", v, Node10)
  BY SMTT(60)
<1> USE DEF Node14
<1>9. 14 <= v /\ v < 15 => Fits("node", v, Node14)
  BY SMTT(60)
<1> USE DEF Node29
<1>10. 15 <= v /\ v < 30 => Fits("node", v, Node29)
  BY SMTT(60)
<1> USE DEF Node30
<1>11. 30 <= v /\ v < 31 => Fits("node", v, Node30)
  BY SMTT(60)
<1> USE DEF Node31
<1>12. 31 <= v /\ v < 35 => Fits("node", v, Node31)
  BY SMTT(60)
<1> USE DEF Node35
<1>13. 35 <= v /\ v < 42 => Fits("node", v, Node35)
  BY SMTT(60)
<1> USE DEF Node42
<1>14. Everywhere(Node42)
  BY SMTT(60)
<1>15. 42 <= v /\ v < 47 => Requires("node", v, Node42)
  BY SMTT(60)
<1>16. 42 <= v /\ v < 47 => Covers("node", v, Node42)
  BY SMTT(60)
<1> USE DEF Node47
<1>17. Everywhere(Node47)
  BY SMTT(60)
<1>18. 47 <= v => Requires("node", v, Node47)
  BY SMTT(60)
<1>19. 47 <= v => Covers("node", v, Node47)
  BY SMTT(60)
<1> HIDE DEF Everywhere, Requires, Covers, Told, Traits, Until, Since, Always,
             NodeStages, Endpoint0, Node0, Node1, Node3, Node4, Node5, Node7,
             Node10, Node14, Node29, Node30, Node31, Node35, Node42, Node47
<1> QED BY <1>1, <1>2, <1>3, <1>4, <1>5, <1>6, <1>7, <1>8, <1>9, <1>10, <1>11,
          <1>12, <1>13, <1>14, <1>15, <1>16, <1>17, <1>18, <1>19 DEF FitsFrom

LEMMA FoundNodeFits ==
    ASSUME NEW v \in Versions
    PROVE  /\ v < 22 => FitsFrom("foundNode", v, 0, FoundNode19)
           /\ 22 <= v /\ v < 23 => FitsFrom("foundNode", v, 22, FoundNode22)
           /\ 23 <= v => FitsFrom("foundNode", v, 23, FoundNode23)
<1>1. /\ v < 22 => Reaches("foundNode", v, <<0, FoundNode19>>)
      /\ 22 <= v /\ v < 23 => Reaches("foundNode", v, <<22, FoundNode22>>)
      /\ 23 <= v => Reaches("foundNode", v, <<23, FoundNode23>>)
  BY CastsOf DEF Reaches, Versions, Latest
<1>2. /\ v < 22 => Fits("foundNode", v, FoundNode19)
      /\ 22 <= v /\ v < 23 => Fits("foundNode", v, FoundNode22)
      /\ 23 <= v => Fits("foundNode", v, FoundNode23)
  BY StagesOf, Parts
  DEF Fits, Everywhere, Requires, Covers, Told, Traits, Versions, Latest,
      Until, Since, Always,
      FoundNodeStages, FoundNode19, FoundNode22, FoundNode23
<1> QED BY <1>1, <1>2 DEF FitsFrom

LEMMA EndpointFits ==
    ASSUME NEW v \in Versions
    PROVE  /\ v < 3 => FitsFrom("endpoint", v, 0, Endpoint0)
           /\ 3 <= v /\ v < 15 => FitsFrom("endpoint", v, 3, Endpoint3)
           /\ 15 <= v /\ v < 26 => FitsFrom("endpoint", v, 15, Endpoint15)
           /\ 26 <= v => FitsFrom("endpoint", v, 26, Endpoint26)
<1>1. /\ v < 3 => Reaches("endpoint", v, <<0, Endpoint0>>)
      /\ 3 <= v /\ v < 15 => Reaches("endpoint", v, <<3, Endpoint3>>)
      /\ 15 <= v /\ v < 26 => Reaches("endpoint", v, <<15, Endpoint15>>)
      /\ 26 <= v => Reaches("endpoint", v, <<26, Endpoint26>>)
  BY CastsOf DEF Reaches, Versions, Latest
<1>2. /\ v < 3 => Fits("endpoint", v, Endpoint0)
      /\ 3 <= v /\ v < 15 => Fits("endpoint", v, Endpoint3)
      /\ 15 <= v /\ v < 26 => Fits("endpoint", v, Endpoint15)
      /\ 26 <= v => Fits("endpoint", v, Endpoint26)
  BY StagesOf, Parts
  DEF Fits, Everywhere, Requires, Covers, Told, Traits, Versions, Latest,
      Until, Since, Always,
      EndpointStages, Endpoint0, Endpoint3, Endpoint15, Endpoint26
<1> QED BY <1>1, <1>2 DEF FitsFrom

LEMMA DeviceClassFits ==
    ASSUME NEW v \in Versions
    PROVE  /\ v < 36 => FitsFrom("deviceClass", v, 0, DeviceClass0)
           /\ 36 <= v => FitsFrom("deviceClass", v, 36, DeviceClass36)
<1>1. /\ v < 36 => Reaches("deviceClass", v, <<0, DeviceClass0>>)
      /\ 36 <= v => Reaches("deviceClass", v, <<36, DeviceClass36>>)
  BY CastsOf DEF Reaches, Versions, Latest
<1>2. /\ v < 36 => Fits("deviceClass", v, DeviceClass0)
      /\ 36 <= v => Fits("deviceClass", v, DeviceClass36)
  BY StagesOf, Parts
  DEF Fits, Everywhere, Requires, Covers, Told, Traits, Versions, Latest,
      Until, Since, Always,
      DeviceClassStages, DeviceClass0, DeviceClass36
<1> QED BY <1>1, <1>2 DEF FitsFrom

LEMMA MetadataFits ==
    ASSUME NEW v \in Versions
    PROVE  /\ v < 27 => FitsFrom("metadata", v, 0, Metadata0)
           /\ 27 <= v /\ v < 46 => FitsFrom("metadata", v, 27, Metadata28)
           /\ 46 <= v => FitsFrom("metadata", v, 46, Metadata46)
<1>1. /\ v < 27 => Reaches("metadata", v, <<0, Metadata0>>)
      /\ 27 <= v /\ v < 46 => Reaches("metadata", v, <<27, Metadata28>>)
      /\ 46 <= v => Reaches("metadata", v, <<46, Metadata46>>)
  BY CastsOf DEF Reaches, Versions, Latest
<1>2. /\ v < 27 => Fits("metadata", v, Metadata0)
      /\ 27 <= v /\ v < 46 => Fits("metadata", v, Metadata28)
      /\ 46 <= v => Fits("metadata", v, Metadata46)
  BY StagesOf, Parts
  DEF Fits, Everywhere, Requires, Covers, Told, Traits, Versions, Latest,
      Until, Since, Always,
      MetadataStages, Metadata0, Metadata28, Metadata46
<1> QED BY <1>1, <1>2 DEF FitsFrom

LEMMA ConfigurationMetadataFits ==
    ASSUME NEW v \in Versions
    PROVE  /\ v < 29 => FitsFrom("configurationMetadata", v, 0, ConfigurationMetadata0)
           /\ 29 <= v /\ v < 46 => FitsFrom("configurationMetadata", v, 29, ConfigurationMetadata29)
           /\ 46 <= v => FitsFrom("configurationMetadata", v, 46, ConfigurationMetadata46)
<1>1. /\ v < 29 => Reaches("configurationMetadata", v, <<0, ConfigurationMetadata0>>)
      /\ 29 <= v /\ v < 46 => Reaches("configurationMetadata", v, <<29, ConfigurationMetadata29>>)
      /\ 46 <= v => Reaches("configurationMetadata", v, <<46, ConfigurationMetadata46>>)
  BY CastsOf DEF Reaches, Versions, Latest
<1>2. /\ v < 29 => Fits("configurationMetadata", v, ConfigurationMetadata0)
      /\ 29 <= v /\ v < 46 => Fits("configurationMetadata", v, ConfigurationMetadata29)
      /\ 46 <= v => Fits("configurationMetadata", v, ConfigurationMetadata46)
  BY StagesOf, Parts
  DEF Fits, Everywhere, Requires, Covers, Told, Traits, Versions, Latest,
      Until, Since, Always,
      ConfigurationMetadataStages, Metadata0, ConfigurationMetadata0,
      ConfigurationMetadata29, ConfigurationMetadata46
<1> QED BY <1>1, <1>2 DEF FitsFrom

LEMMA ResultFits ==
    ASSUME NEW v \in Versions
    PROVE  /\ v < 29 => FitsFrom("result", v, 0, Success)
           /\ 29 <= v => FitsFrom("result", v, 29, Result)
<1>1. /\ v < 29 => Reaches("result", v, <<0, Success>>)
      /\ 29 <= v => Reaches("result", v, <<29, Result>>)
  BY CastsOf DEF Reaches, Versions, Latest
<1>2. /\ v < 29 => Fits("result", v, Success)
      /\ 29 <= v => Fits("result", v, Result)
  BY StagesOf, Parts
  DEF Fits, Everywhere, Requires, Covers, Told, Traits, Versions, Latest,
      Until, Since, Always,
      ResultStages, Success, Result
<1> QED BY <1>1, <1>2 DEF FitsFrom

\* Every kind of dump fits the type its return casts it to.
LEMMA DumpFits ==
    ASSUME NEW v \in Versions, NEW e \in Entity, NEW traits
    PROVE  LET dump == Dump(e, v, traits)
               type == Declared(e, v)
           IN  type.req \subseteq dump /\ dump \subseteq type.req \cup type.opt
<1>1. \E first \in Nat : \E T : FitsFrom(e, v, first, T)
  <2>1. CASE e = "driver"
    BY <2>1, DriverFits DEF Versions, Latest
  <2>2. CASE e = "controller"
    BY <2>2, ControllerFits DEF Versions, Latest
  <2>3. CASE e = "node"
    BY <2>3, NodeFits DEF Versions, Latest
  <2>4. CASE e = "foundNode"
    BY <2>4, FoundNodeFits DEF Versions, Latest
  <2>5. CASE e = "endpoint"
    BY <2>5, EndpointFits DEF Versions, Latest
  <2>6. CASE e = "deviceClass"
    BY <2>6, DeviceClassFits DEF Versions, Latest
  <2>7. CASE e = "metadata"
    BY <2>7, MetadataFits DEF Versions, Latest
  <2>8. CASE e = "configurationMetadata"
    BY <2>8, ConfigurationMetadataFits DEF Versions, Latest
  <2>9. CASE e = "result"
    BY <2>9, ResultFits DEF Versions, Latest
  <2>10. e \in {"driver", "controller", "node", "foundNode", "endpoint",
              "deviceClass", "metadata", "configurationMetadata", "result"}
    BY DEF Entity, Stages
  <2> QED BY <2>1, <2>2, <2>3, <2>4, <2>5, <2>6, <2>7, <2>8, <2>9, <2>10
<1>2. PICK first \in Nat : \E T : FitsFrom(e, v, first, T)
  BY <1>1
<1>3. PICK T : FitsFrom(e, v, first, T)
  BY <1>2
<1> QED BY <1>3, Declares, FitsMeans DEF FitsFrom

-----------------------------------------------------------------------------
(* The types of the answers                                                 *)

Agrees(keys, type) == type.req \subseteq keys /\ keys \subseteq type.req \cup type.opt

LEMMA ResultParts ==
    /\ \A r, o : ResultType(r, o).req = r
    /\ \A r, o : ResultType(r, o).opt = o
  BY DEF ResultType

\* The two tests of the version are written the one as < 29, the other as >= 29.
LEMMA VersionsMeet == ASSUME NEW v \in Versions PROVE OutgoingMessage(v) = VersionedKey(v)
  BY DEF OutgoingMessage, VersionedKey, Versions

LEMMA ControllerAnswers ==
    ASSUME NEW v \in Versions
    PROVE  Agrees(ControllerResults(v),
                  ResultType(ControllerResultTypes(v).req \cup RoutingResultTypes.req,
                             ControllerResultTypes(v).opt \cup RoutingResultTypes.opt))
<1>1. Agrees(InclusionResults \cup AssociationResults \cup RadioResults
                 \cup FirmwareResults(v), ControllerResultTypes(v))
  BY ResultParts, VersionsMeet
     DEF Agrees, InclusionResults, AssociationResults, RadioResults, FirmwareResults,
         ControllerResultTypes
<1>2. Agrees(RoutingResults \cup DiagnosticResults \cup NetworkResults,
             RoutingResultTypes)
  BY ResultParts
     DEF Agrees, RoutingResults, DiagnosticResults, NetworkResults, RoutingResultTypes
<1> QED BY <1>1, <1>2, ResultParts DEF Agrees, ControllerResults

LEMMA NodeAnswers ==
    ASSUME NEW v \in Versions
    PROVE  Agrees(NodeValueResults(v) \cup NodeHealthResults, NodeResultTypes(v))
  BY ResultParts, VersionsMeet
     DEF Agrees, NodeValueResults, NodeHealthResults, NodeResultTypes

LEMMA VirtualAnswers ==
    ASSUME NEW v \in Versions PROVE Agrees(VirtualResults(v), VirtualResultTypes(v))
  BY ResultParts, VersionsMeet DEF Agrees, VirtualResults, VirtualResultTypes

LEMMA EndpointAnswers == Agrees(EndpointResults, EndpointResultTypes)
  BY ResultParts DEF Agrees, EndpointResults, EndpointResultTypes

LEMMA AccessControlAnswers ==
    Agrees(AccessControlResults, EndpointAccessControlResultTypes)
  BY ResultParts DEF Agrees, AccessControlResults, EndpointAccessControlResultTypes

LEMMA OtherAnswers ==
    /\ Agrees(DriverResults, DriverResultTypes)
    /\ Agrees(ConfigManagerResults, ConfigManagerResultTypes)
    /\ Agrees(UtilsResults, UtilsResultTypes)
    /\ Agrees(ZnifferResults, ZnifferResultTypes)
<1>1. Agrees(DriverResults, DriverResultTypes)
  BY ResultParts DEF Agrees, DriverResults, DriverResultTypes
<1>2. Agrees(ConfigManagerResults, ConfigManagerResultTypes)
  BY ResultParts DEF Agrees, ConfigManagerResults, ConfigManagerResultTypes
<1>3. Agrees(UtilsResults, UtilsResultTypes)
  BY ResultParts DEF Agrees, UtilsResults, UtilsResultTypes
<1>4. Agrees(ZnifferResults, ZnifferResultTypes)
  BY ResultParts DEF Agrees, ZnifferResults, ZnifferResultTypes
<1> QED BY <1>1, <1>2, <1>3, <1>4

\* Every handler returns what it declares.
LEMMA AnswerFits ==
    ASSUME NEW v \in Versions, NEW h \in DOMAIN Returned(v)
    PROVE  Agrees(Returned(v)[h], ResultTypes(v)[h])
<1>1. h \in {"controller", "node", "endpoint", "accessControl", "driver", "virtual",
             "configManager", "utils", "zniffer"}
  BY DEF Returned
<1>2. CASE h = "controller"
  BY <1>2, ControllerAnswers DEF Returned, ResultTypes
<1>3. CASE h = "node"
  BY <1>3, NodeAnswers DEF Returned, ResultTypes
<1>4. CASE h = "virtual"
  BY <1>4, VirtualAnswers DEF Returned, ResultTypes
<1>5. CASE h \in {"endpoint", "accessControl"}
  BY <1>5, EndpointAnswers, AccessControlAnswers DEF Returned, ResultTypes
<1>6. CASE h \in {"driver", "configManager", "utils", "zniffer"}
  BY <1>6, OtherAnswers DEF Returned, ResultTypes
<1> QED BY <1>1, <1>2, <1>3, <1>4, <1>5, <1>6

-----------------------------------------------------------------------------
(* Every message                                                            *)

\* Whatever goes out fits the type declared for it, at every version and for
\* any object: the casts at the returns of the dumps and the union of results
\* a handler may return from hide no key that is missing or too many
\* (lib/state.ts, lib/*/message_handler.ts against lib/*/outgoing_message.ts).
THEOREM TypesAreKept == MessageSpec => []MessagesFitDeclaredType
<1>1. MessageInit => version \in Versions
  BY InitVersion
<1>2. version \in Versions => MessagesFitDeclaredType
  <2> SUFFICES ASSUME version \in Versions PROVE MessagesFitDeclaredType
    OBVIOUS
  <2>1. FitsDeclaredType
    BY DumpFits DEF FitsDeclaredType
  <2>2. AnswersFitDeclaredType
    BY AnswerFits DEF AnswersFitDeclaredType, Agrees
  <2> QED BY <2>1, <2>2 DEF MessagesFitDeclaredType
<1>3. version \in Versions /\ [MessageNext]_<<vars, request>> => (version \in Versions)'
  BY StepVersion
<1> QED BY <1>1, <1>2, <1>3, PTL DEF MessageSpec

=============================================================================

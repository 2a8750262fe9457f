----------------------------- MODULE RequestForms -----------------------------
(***************************************************************************)
(* What the handlers make of requests whose fields may be left out, given  *)
(* in an older form or given together, before they call the driver: the    *)
(* refusals, the defaults and the precedence of one field over another.    *)
(*                                                                         *)
(* The version of the client is not looked at: a handler tells the forms   *)
(* of a request apart by the fields it has.  An operator named after a     *)
(* handler returns the arguments of its call of the driver, or Refused.    *)
(*                                                                         *)
(* A field is absent or has a value of its declared type, which null is    *)
(* of none.  "0" is the number, "empty" the text without characters.       *)
(***************************************************************************)
EXTENDS Naturals

Absent  == "absent"            \* the message has no such key
Refused == [refused |-> TRUE]  \* an error is the answer, no call of the driver

\* What a test for truth tells apart: if (x), x || y.
Truthy(x) == x \notin {Absent, "0", "empty"}

\* Whether the client gave the field: !== undefined, ?? and "in".  The enums
\* and the bit masks have a member 0, which is given.
Given(x) == x # Absent

\* a ?? b
Else(x, default) == IF Given(x) THEN x ELSE default

-----------------------------------------------------------------------------
(* The forms of the requests                                                *)

RawConfigRequest ==
    [command: {"setRawConfigParameterValue"}, bitMask: {Absent, "0", "255"},
     valueSize: {Absent, "1", "4"}, valueFormat: {Absent, "0", "1"}]

\* The file may be a ZIP, and its format one that can be guessed or not.
FirmwareRequest ==
    [command: {"updateFirmware"}, zipped: BOOLEAN, guess: {Absent, "hex"},
     fileFormat: {Absent, "gecko"}, target: {Absent, "0", "2"}]

UpdateRequest ==
    [command: {"firmwareUpdateOTA"}, updates: {Absent, "files"},
     updateInfo: {Absent, "info"}]

ExclusionStrategy == {"ExcludeOnly", "DisableProvisioningEntry", "Unprovision"}

\* options stands for its strategy.
ExclusionRequest ==
    [command: {"beginExclusion"}, options: ExclusionStrategy \cup {Absent},
     unprovision: {Absent, "true", "false", "inactive"},
     strategy: ExclusionStrategy \cup {Absent}]

\* options stands for its strategy; provisioning is a key of options, and a
\* QR code may be one that cannot be parsed.
InclusionRequest ==
    {m \in [command: {"beginInclusion", "replaceFailedNode"},
            options: {Absent, "Default", "Security_S2", "Security_S0", "Insecure"},
            provisioning: {Absent, "QRCode", "badQRCode", "entry"},
            includeNonSecure: {Absent, "false", "true"}] :
        m.options = Absent => m.provisioning = Absent}

EntryRequest ==
    [command: {"getProvisioningEntry"}, dsk: {Absent, "empty", "dsk"},
     dskOrNodeId: {Absent, "empty", "dsk", "0", "5"}]

Request == RawConfigRequest \cup FirmwareRequest \cup UpdateRequest
               \cup ExclusionRequest \cup InclusionRequest \cup EntryRequest

-----------------------------------------------------------------------------
(* The handlers                                                             *)

\* The mask, or the size and the format, both or neither.
SetRawConfigParameterValue(m) ==
    IF \/ Given(m.valueSize) # Given(m.valueFormat)
       \/ (Given(m.valueSize) /\ Given(m.bitMask))
    THEN Refused
    ELSE IF Given(m.bitMask)
         THEN [bitMask |-> m.bitMask, valueSize |-> Absent, valueFormat |-> Absent]
         ELSE [bitMask |-> Absent, valueSize |-> m.valueSize,
               valueFormat |-> m.valueFormat]

\* The format that an unzipped file brings, or the guess, which may throw.
DetectedFormat(m) == IF m.zipped THEN "unzipped" ELSE m.guess

\* Unzip first whatever the format, then the given format, then the detected one.
ParseFirmwareFile(m) ==
    IF Else(m.fileFormat, DetectedFormat(m)) = Absent
    THEN Refused
    ELSE [unzipped |-> m.zipped, format |-> Else(m.fileFormat, DetectedFormat(m))]

\* The target in the message, or else the one the file names.
UpdateFirmware(m) ==
    IF ParseFirmwareFile(m) = Refused
    THEN Refused
    ELSE [firmware |-> ParseFirmwareFile(m), target |-> Else(m.target, "ofTheFile")]

FirmwareUpdateOTA(m) ==
    IF Given(m.updates) \/ ~Given(m.updateInfo) THEN Refused
    ELSE [updateInfo |-> m.updateInfo]

\* Absent: the driver is called without options and takes its default.
ProcessExclusionOptions(m) ==
    CASE Given(m.options)             -> m.options
      [] ~Given(m.options) /\ Given(m.unprovision) ->
             [true |-> "Unprovision", false |-> "ExcludeOnly",
              inactive |-> "DisableProvisioningEntry"][m.unprovision]
      [] OTHER                        -> m.strategy

\* The strategies whose bootstrap asks for the grant and for the PIN.
Bootstraps(strategy) == strategy \in {"Default", "Security_S2"}

\* A QR code is parsed, if the strategy has a use for it; without provisioning
\* the questions go to the clients.
ProcessInclusionOptions(m) ==
    IF ~Given(m.options)
    THEN [strategy |-> IF m.includeNonSecure = "true" THEN "Insecure" ELSE "Security_S0",
          provisioning |-> Absent, userCallbacks |-> FALSE]
    ELSE IF Bootstraps(m.options) /\ m.provisioning = "badQRCode"
    THEN Refused
    ELSE [strategy |-> m.options,
          provisioning |-> IF Bootstraps(m.options) /\ m.provisioning = "QRCode"
                           THEN "entry" ELSE m.provisioning,
          userCallbacks |-> Bootstraps(m.options) /\ ~Given(m.provisioning)]

\* dskOrNodeId || dsk
GetProvisioningEntry(m) ==
    LET dskOrNodeId == IF Truthy(m.dskOrNodeId) THEN m.dskOrNodeId ELSE m.dsk
    IN  IF ~Truthy(dskOrNodeId) THEN Refused ELSE [entry |-> dskOrNodeId]

-----------------------------------------------------------------------------
(* What a client may expect of each                                         *)

\* x is what the first of the forms says that the client used; forms are the
\* ways to say one thing, those that take precedence first, Absent where one is
\* not used.
FirstCounts(x, forms) ==
    \/ \E i \in DOMAIN forms :
          /\ forms[i] # Absent /\ x = forms[i]
          /\ \A j \in 1..(i - 1) : forms[j] = Absent
    \/ x = Absent /\ \A i \in DOMAIN forms : forms[i] = Absent

\* Fields that cannot be used together are refused, and those that can reach
\* the driver as they were given, 0 included.
RawConfigUnderstood(m) ==
    LET call == SetRawConfigParameterValue(m)
    IN  IF \/ (m.valueSize = Absent) # (m.valueFormat = Absent)
           \/ (m.valueSize # Absent /\ m.bitMask # Absent)
        THEN call = Refused
        ELSE /\ call # Refused
             /\ call.bitMask = m.bitMask
             /\ call.valueSize = m.valueSize
             /\ call.valueFormat = m.valueFormat

\* A format that is given wins over the one the file tells of itself, refused
\* if it has none either; so does a target; and a ZIP never goes to a device.
FirmwareUnderstood(m) ==
    LET call   == UpdateFirmware(m)
        ofFile == IF m.zipped THEN "unzipped" ELSE m.guess
    IN  IF m.fileFormat = Absent /\ ofFile = Absent
        THEN call = Refused
        ELSE /\ call # Refused
             /\ FirstCounts(call.firmware.format, <<m.fileFormat, ofFile>>)
             /\ FirstCounts(call.target, <<m.target, "ofTheFile">>)
             /\ call.firmware.unzipped = m.zipped

\* The list of files of older versions is refused, not ignored, and also beside
\* the newer field.
UpdateUnderstood(m) ==
    LET call == FirmwareUpdateOTA(m)
    IN  IF m.updates = Absent /\ m.updateInfo # Absent
        THEN call = [updateInfo |-> m.updateInfo]
        ELSE call = Refused

\* What unprovision asks for, as a strategy of the versions since 29.
AsStrategy(unprovision) ==
    CASE unprovision = "true"     -> "Unprovision"
      [] unprovision = "false"    -> "ExcludeOnly"
      [] unprovision = "inactive" -> "DisableProvisioningEntry"
      [] OTHER                    -> Absent

\* Three generations of the request mean the same by the same strategy.  One
\* counts: options, of version 29, and of the older two unprovision, the oldest.
\* The driver's own default is left to it only by a client that used none.
ExclusionUnderstood(m) ==
    FirstCounts(ProcessExclusionOptions(m),
                 <<m.options, AsStrategy(m.unprovision), m.strategy>>)

\* The strategy is that of options, or else of the older form, S0 if of none; a
\* bootstrap has exactly one of its two sources, provisioned details, if any
\* were sent, or somebody to ask.  The compiler is told not to look here
\* (@ts-expect-error).
InclusionUnderstood(m) ==
    LET call   == ProcessInclusionOptions(m)
        legacy == IF m.includeNonSecure = "true" THEN "Insecure" ELSE Absent
    IN  \/ call = Refused /\ Bootstraps(m.options) /\ m.provisioning = "badQRCode"
        \/ /\ call # Refused
           /\ FirstCounts(call.strategy, <<m.options, legacy, "Security_S0">>)
           /\ Bootstraps(call.strategy) =>
                  /\ (call.provisioning = "entry") # call.userCallbacks
                  /\ call.userCallbacks <=> m.provisioning = Absent
           /\ ~Bootstraps(call.strategy) =>
                  ~call.userCallbacks /\ call.provisioning = m.provisioning

\* An empty text and node 0 name no entry: beside them the older field counts,
\* and by themselves they are refused.
EntryUnderstood(m) ==
    LET call     == GetProvisioningEntry(m)
        names(x) == IF x \in {"empty", "0"} THEN Absent ELSE x
    IN  IF names(m.dskOrNodeId) = Absent /\ names(m.dsk) = Absent
        THEN call = Refused
        ELSE /\ call # Refused
             /\ FirstCounts(call.entry, <<names(m.dskOrNodeId), names(m.dsk)>>)

\* A request is taken at its word or refused.
Understood(m) ==
    /\ m \in RawConfigRequest => RawConfigUnderstood(m)
    /\ m \in FirmwareRequest  => FirmwareUnderstood(m)
    /\ m \in UpdateRequest    => UpdateUnderstood(m)
    /\ m \in ExclusionRequest => ExclusionUnderstood(m)
    /\ m \in InclusionRequest => InclusionUnderstood(m)
    /\ m \in EntryRequest     => EntryUnderstood(m)

=============================================================================

--------------------------- MODULE HdiConversions ---------------------------
(***************************************************************************)
(* What the fingerprint host and the framework mean by their codes: the    *)
(* Convert... functions of fingerprint_auth_all_in_one_executor_hdi.cpp    *)
(* and fingerprint_auth_executor_callback_hdi.cpp (services/src).          *)
(*                                                                         *)
(* Result codes are the numbers of enum ResultCode                         *)
(* (common/inc/fingerprint_auth_defines.h); the framework's codes of the   *)
(* same names are identified with them.  Names of which only the           *)
(* distinctness matters are strings.                                       *)
(***************************************************************************)
EXTENDS Integers, Sequences

CONSTANTS
    \* DriverCommandId, of the host's interface
    LOCK_TEMPLATE, UNLOCK_TEMPLATE, INIT_ALGORITHM, VENDOR_COMMAND_BEGIN,
    \* PropertyMode, of the framework
    PROPERTY_INIT_ALGORITHM, PROPERTY_MODE_FREEZE, PROPERTY_MODE_UNFREEZE

DriverCommandIds == {LOCK_TEMPLATE, UNLOCK_TEMPLATE, INIT_ALGORITHM}
PropertyModes ==
    {PROPERTY_INIT_ALGORITHM, PROPERTY_MODE_FREEZE, PROPERTY_MODE_UNFREEZE}

ASSUME CommandAssumption ==
    /\ VENDOR_COMMAND_BEGIN \in Nat
    /\ DriverCommandIds \cup PropertyModes \subseteq 0..VENDOR_COMMAND_BEGIN
    /\ LOCK_TEMPLATE # UNLOCK_TEMPLATE
    /\ LOCK_TEMPLATE # INIT_ALGORITHM
    /\ UNLOCK_TEMPLATE # INIT_ALGORITHM
    /\ PROPERTY_INIT_ALGORITHM # PROPERTY_MODE_FREEZE
    /\ PROPERTY_INIT_ALGORITHM # PROPERTY_MODE_UNFREEZE
    /\ PROPERTY_MODE_FREEZE # PROPERTY_MODE_UNFREEZE

SUCCESS == 0
FAIL == 1
GENERAL_ERROR == 2
CANCELED == 3
TIMEOUT == 4
BUSY == 7
INVALID_PARAMETERS == 8
LOCKED == 9
NOT_ENROLLED == 10
OPERATION_NOT_SUPPORT == 11
VENDOR_RESULT_CODE_BEGIN == 10000

-----------------------------------------------------------------------------
(***************************************************************************)
(* FingerprintAllInOneExecutorHdi::ConvertResultCode: the status of a call *)
(* to the host.  What the map does not know, a dead host included, is a    *)
(* GENERAL_ERROR.                                                          *)
(***************************************************************************)
ConvertStatus(status) ==
    CASE status = "HDF_SUCCESS" -> SUCCESS
      [] status = "HDF_ERR_TIMEOUT" -> TIMEOUT
      [] status \in {"HDF_ERR_QUEUE_FULL", "HDF_ERR_DEVICE_BUSY"} -> BUSY
      [] OTHER -> GENERAL_ERROR

\* The codes ConvertResult's map keeps as they are.
KnownResults ==
    {SUCCESS, FAIL, GENERAL_ERROR, CANCELED, TIMEOUT, BUSY,
     INVALID_PARAMETERS, LOCKED, NOT_ENROLLED}

\* Mutant of ConvertResult: what the map does not know counts as SUCCESS.
TrustUnknownResult(in) ==
    IF in > VENDOR_RESULT_CODE_BEGIN \/ in \in KnownResults THEN in
    ELSE SUCCESS

(***************************************************************************)
(* FingerprintAuthExecutorCallbackHdi::ConvertResultCode: the result the   *)
(* host reports.  The comparison is signed, so that a negative code is     *)
(* unknown.                                                                *)
(***************************************************************************)
ConvertResult(in) ==
    CASE in > VENDOR_RESULT_CODE_BEGIN -> in
      [] in = OPERATION_NOT_SUPPORT -> FAIL
      [] in \in KnownResults -> in
      [] OTHER -> GENERAL_ERROR

-----------------------------------------------------------------------------
\* Mutant of ValidCommand: the bound itself counts as a vendor's command.
AcceptBound(mode) == mode >= VENDOR_COMMAND_BEGIN \/ mode \in PropertyModes

ValidCommand(mode) == mode > VENDOR_COMMAND_BEGIN \/ mode \in PropertyModes

\* ConvertCommandId, for a mode that it accepts.
ConvertCommandId(mode) ==
    CASE mode = PROPERTY_INIT_ALGORITHM -> INIT_ALGORITHM
      [] mode = PROPERTY_MODE_FREEZE -> LOCK_TEMPLATE
      [] mode = PROPERTY_MODE_UNFREEZE -> UNLOCK_TEMPLATE
      [] OTHER -> mode

PropertyType ==
    [ATTR_PIN_SUB_TYPE |-> "AUTH_SUB_TYPE",
     ATTR_FREEZING_TIME |-> "LOCKOUT_DURATION",
     ATTR_REMAIN_TIMES |-> "REMAIN_ATTEMPTS",
     ATTR_ENROLL_PROGRESS |-> "ENROLL_PROGRESS",
     ATTR_SENSOR_INFO |-> "SENSOR_INFO"]

\* ConvertAttributeKeyVectorToPropertyType: all keys, or none of them.
ValidKeys(keys) == \A i \in DOMAIN keys : keys[i] \in DOMAIN PropertyType
ConvertKeys(keys) == [i \in DOMAIN keys |-> PropertyType[keys[i]]]

(***************************************************************************)
(* MoveHdiExecutorInfo accepts what the framework knows: ConvertExecutor-  *)
(* Role, ConvertAuthType and ConvertExecutorSecureLevel.                   *)
(***************************************************************************)
KnownField ==
    [executorRole |-> {"COLLECTOR", "VERIFIER", "ALL_IN_ONE"},
     authType |-> {"FINGERPRINT"},
     esl |-> {"ESL0", "ESL1", "ESL2", "ESL3"}]
MoveHdiExecutorInfo(info) ==
    IF \A field \in DOMAIN KnownField : info[field] \in KnownField[field]
      THEN SUCCESS ELSE GENERAL_ERROR

=============================================================================

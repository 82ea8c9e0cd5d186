--------------------- MODULE MCFingerprintAuthExecutor ---------------------
(***************************************************************************)
(* Modes and results on both sides of every boundary of the conversions;   *)
(* key vectors with a known, another known and an unknown key.             *)
(***************************************************************************)
EXTENDS FingerprintAuthExecutor

MCModes ==
    PropertyModes
        \cup {0, PROPERTY_MODE_UNFREEZE + 1}
        \cup {VENDOR_COMMAND_BEGIN, VENDOR_COMMAND_BEGIN + 1}

MCKeyVectors ==
    {<<"ATTR_REMAIN_TIMES">>, <<"ATTR_FREEZING_TIME">>,
     <<"ATTR_REMAIN_TIMES", "other key">>}

MCResults ==
    {-1, SUCCESS, FAIL, LOCKED, OPERATION_NOT_SUPPORT,
     VENDOR_RESULT_CODE_BEGIN, VENDOR_RESULT_CODE_BEGIN + 1}

=============================================================================

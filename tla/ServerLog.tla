------------------------------ MODULE ServerLog ------------------------------
(***************************************************************************)
(* ServerLog.c: where a message goes.  put_log, put_time_log and           *)
(* put_ip_log differ in the text they print and in nothing else.           *)
(***************************************************************************)

LogTypes == {"LOG_INFO", "LOG_WARNING", "LOG_ERROR",
             "LOG_INFO_FORCE", "LOG_WARNING_FORCE", "LOG_ERROR_FORCE"}

Forced == {"LOG_INFO_FORCE", "LOG_WARNING_FORCE", "LOG_ERROR_FORCE"}

(* __is_log_true: whether it is worth formatting the message. *)
is_log_true(config, type) == config.logFile \/ ~config.noLog \/ type \in Forced

OnScreen(config, type) == ~config.noLog \/ type \in Forced

(* The places a message of this type appears. *)
put_log(config, type) ==
    IF is_log_true(config, type)
    THEN {p \in {"screen", "file"} : p = "screen" => OnScreen(config, type)}
            \ (IF config.logFile THEN {} ELSE {"file"})
    ELSE {}
=============================================================================

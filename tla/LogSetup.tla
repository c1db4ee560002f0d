------------------------------- MODULE LogSetup -------------------------------
(***************************************************************************)
(* SetupLogger (src/integrity-shield-server/pkg/config/                    *)
(* request_handler_config.go), called by the admission handler for every   *)
(* request with the LogConfig it loaded.  It writes three pieces of        *)
(* process-wide state, each under its own lock: the environment variable   *)
(* K8S_MANIFEST_SIGSTORE_LOG_LEVEL (os.Setenv), the logrus level           *)
(* (log.SetLevel) and, for format "json", the logrus formatter             *)
(* (log.SetFormatter).  Handlers run concurrently, so the three writes of  *)
(* two requests interleave; each write is one step.                        *)
(***************************************************************************)
EXTENDS Naturals, FiniteSets

CONSTANTS Handlers,     \* concurrent admission request handlers
          LogConfigs,   \* the [Level, ManifestSigstoreLogLevel, Format] a request may carry
          NoHandler

\* The LogConfig struct: three strings, "" when omitted from the JSON.
LogConfig == [Level: STRING, ManifestSigstoreLogLevel: STRING, Format: STRING]

ASSUME LogConfigs \subseteq LogConfig

\* logLevelMap: the level names logrus knows.
logLevelMap == {"panic", "fatal", "error", "warn", "info", "debug", "trace"}

\* Mutant: an empty Level falls back to info, not to the other name.
ResolvedLevels_NoFallback(config) ==
    LET l0 == config.Level
        k0 == config.ManifestSigstoreLogLevel
        l1 == IF l0 = "" THEN "info" ELSE l0
        k2 == IF l1 # "" /\ k0 = "" THEN l1 ELSE k0
    IN  [logLevelStr |-> l1, k8sLogLevelStr |-> k2]

(***************************************************************************)
(* The level names after the three defaulting tests: both empty means      *)
(* info; either empty takes the other's value.                             *)
(***************************************************************************)
ResolvedLevels(config) ==
    LET l0 == config.Level
        k0 == config.ManifestSigstoreLogLevel
        l1 == IF l0 = "" /\ k0 = "" THEN "info" ELSE l0
        k1 == IF l0 = "" /\ k0 = "" THEN "info" ELSE k0
        l2 == IF l1 = "" /\ k1 # "" THEN k1 ELSE l1
        k2 == IF l2 # "" /\ k1 = "" THEN l2 ELSE k1
    IN  [logLevelStr |-> l2, k8sLogLevelStr |-> k2]

\* logLevelMap[logLevelStr], log.InfoLevel when the name is unknown.
LevelOf(name) == IF name \in logLevelMap THEN name ELSE "info"

VARIABLES envLevel,    \* K8S_MANIFEST_SIGSTORE_LOG_LEVEL ("" while unset)
          logLevel,    \* the logrus standard logger's level
          formatter,   \* the logrus standard logger's formatter
          pc,          \* each handler's position in SetupLogger
          config,      \* the LogConfig each handler's request carries
          alone,       \* no other SetupLogger overlapped this handler's
          lastDone     \* the handler whose SetupLogger returned last

vars == <<envLevel, logLevel, formatter, pc, config, alone, lastDone>>

InSetup(h) == pc[h] \in {"setenv", "setlevel", "format"}

\* Process start: logrus defaults to Info and the text formatter.
Init == /\ envLevel = ""
        /\ logLevel = "info"
        /\ formatter = "text"
        /\ pc = [h \in Handlers |-> "idle"]
        /\ config \in [Handlers -> LogConfigs]
        /\ alone = [h \in Handlers |-> TRUE]
        /\ lastDone = NoHandler

\* A request arrives and the handler calls SetupLogger(config.Log, req).
Begin(h) ==
    /\ ~InSetup(h)
    /\ \E c \in LogConfigs : config' = [config EXCEPT ![h] = c]
    /\ pc' = [pc EXCEPT ![h] = "setenv"]
    /\ alone' = [s \in Handlers |-> IF s = h THEN \A o \in Handlers : ~InSetup(o)
                                    ELSE alone[s] /\ ~InSetup(s)]
    /\ UNCHANGED <<envLevel, logLevel, formatter, lastDone>>

\* Lines 82-94: resolve the names, os.Setenv.
SetEnv(h) ==
    /\ pc[h] = "setenv"
    /\ envLevel' = ResolvedLevels(config[h]).k8sLogLevelStr
    /\ pc' = [pc EXCEPT ![h] = "setlevel"]
    /\ UNCHANGED <<logLevel, formatter, config, alone, lastDone>>

\* Lines 95-99: look the name up, log.SetLevel.
SetLevel(h) ==
    /\ pc[h] = "setlevel"
    /\ logLevel' = LevelOf(ResolvedLevels(config[h]).logLevelStr)
    /\ pc' = [pc EXCEPT ![h] = "format"]
    /\ UNCHANGED <<envLevel, formatter, config, alone, lastDone>>

\* Lines 101-103: only "json" sets a formatter; nothing resets it.
SetFormat(h) ==
    /\ pc[h] = "format"
    /\ formatter' = IF config[h].Format = "json" THEN "json" ELSE formatter
    /\ pc' = [pc EXCEPT ![h] = "done"]
    /\ lastDone' = h
    /\ UNCHANGED <<envLevel, logLevel, config, alone>>

Next == \E h \in Handlers : Begin(h) \/ SetEnv(h) \/ SetLevel(h) \/ SetFormat(h)

Spec == Init /\ [][Next]_vars

(***************************************************************************)
(* When a SetupLogger that no other one overlapped has returned and no     *)
(* other is running, the process logs as that request's LogConfig says:    *)
(* the manifest-sigstore level and the logrus level are the configured     *)
(* names, each defaulting to the other and both to info, an unknown logrus *)
(* name meaning info, and format "json" means the JSON formatter.          *)
(***************************************************************************)
LoneSetupApplies ==
    LET h == lastDone
        c == config[h]
        l == IF c.Level # "" THEN c.Level
             ELSE IF c.ManifestSigstoreLogLevel # "" THEN c.ManifestSigstoreLogLevel
             ELSE "info"
        k == IF c.ManifestSigstoreLogLevel # "" THEN c.ManifestSigstoreLogLevel ELSE l
    IN  (h # NoHandler /\ alone[h] /\ \A o \in Handlers : ~InSetup(o))
            => /\ envLevel = k
               /\ logLevel = (IF l \in logLevelMap THEN l ELSE "info")
               /\ (c.Format = "json" => formatter = "json")
====

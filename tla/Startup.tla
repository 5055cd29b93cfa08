------------------------------ MODULE Startup ------------------------------
(***************************************************************************)
(* cmd/main.go and StartAPIServer: how the process comes up.  The main     *)
(* goroutine makes the manager and starts it, the API server is configured *)
(* and started by a goroutine of its own, and every failure of either ends *)
(* the process.  The TLS files are looked at three times (by               *)
(* NewServerConfig, by Validate and to load them) and nothing says that    *)
(* they are the same each time; of the kubeconfig each look may find       *)
(* anything.                                                               *)
(***************************************************************************)
EXTENDS Integers

CONSTANTS
  Port,       \* the values SERVICE_PORT may have
  NoPort      \* it is not set, or not a number

defaultServicePort == 9072
maxSecurePort == 65535

ASSUME StartupAssumption == Port \subseteq Int /\ NoPort \notin Int

File == {"cert", "key", "ca"}

\* "denied" cannot even be looked at, "bad" can be read but not parsed.
FileState == {"missing", "denied", "bad", "good"}
Present == {"bad", "good"}

VARIABLES
  main,          \* how far main() is
  api,           \* how far StartAPIServer and the server's Run are
  process,       \* is the process up, and if not, how did it end?
  port,          \* SERVICE_PORT
  files,         \* the TLS files
  inCluster,     \* does the cluster the process runs in configure its client?
  kubeFile,      \* is the kubeconfig's name in the configuration?
  config,        \* the *ServerConfig: not made yet, nil, or made ...
  securePort,    \* ... with this SecurePort ...
  insecurePort,  \* ... and this InsecurePort
  scheme         \* what the server speaks

configVars == <<config, securePort, insecurePort, kubeFile>>
serverVars == <<api, configVars, scheme>>
givenVars == <<port, inCluster>>
startupVars == <<main, serverVars, givenVars, files, process>>

StartupTypeOK ==
  /\ main \in {"newManager", "setup", "checks", "start", "running"}
  /\ api \in {"off", "serverConfig", "kubeFile", "kubeConfig", "validate",
              "newServer", "run", "listening"}
  /\ process \in {"up", "exit", "fatal", "panic"}
  /\ port \in Port \cup {NoPort}
  /\ files \in [File -> FileState]
  /\ inCluster \in BOOLEAN /\ kubeFile \in BOOLEAN
  /\ config \in {"none", "nil", "made"}
  /\ securePort \in Int /\ insecurePort \in Int
  /\ scheme \in {"http", "https"}

StartupInit ==
  /\ main = "newManager"
  /\ api = "off" /\ scheme = "http"
  /\ config = "none" /\ securePort = 0 /\ insecurePort = 0
  /\ kubeFile = FALSE
  /\ process = "up"
  /\ port \in Port \cup {NoPort}
  /\ files \in [File -> FileState]
  /\ inCluster \in BOOLEAN
-----------------------------------------------------------------------------
(* The main goroutine. *)

Main(from, to) ==
  /\ process = "up"
  /\ main = from
  /\ main' = to
  /\ UNCHANGED <<configVars, scheme, givenVars, files, process>>

NewManager == Main("newManager", "setup") /\ UNCHANGED api

\* The controller is registered, then the API server's goroutine started.
SetupWithManager ==
  /\ Main("setup", "checks")
  /\ api' = "serverConfig"

AddChecks == Main("checks", "start") /\ UNCHANGED api

\* The manager starts the caches that its client, the API server's too, reads.
StartManager == Main("start", "running") /\ UNCHANGED api

\* Any of these fails: os.Exit(1).  The manager also stops when it is told to,
\* and main returns: the API server is not shut down but cut off.
MainEnds ==
  /\ process = "up"
  /\ process' = "exit"
  /\ UNCHANGED <<main, serverVars, givenVars, files>>
-----------------------------------------------------------------------------
(* The API server's goroutine. *)

Api(from, to) ==
  /\ process = "up"
  /\ api = from
  /\ api' = to
  /\ UNCHANGED <<main, givenVars, files, process>>

\* zlog.LogFatalf: the whole process ends.
Fatal(from) ==
  /\ process = "up"
  /\ api = from
  /\ process' = "fatal"
  /\ UNCHANGED <<main, serverVars, givenVars, files>>

\* The certificate decides between TLS and plain HTTP; a certificate that may
\* or may not be there leaves no configuration.
NewServerConfig ==
  LET p == IF port = NoPort THEN defaultServicePort ELSE port
  IN /\ Api("serverConfig", "kubeFile")
     /\ \/ /\ files["cert"] = "missing"
           /\ config' = "made" /\ insecurePort' = p /\ UNCHANGED securePort
        \/ /\ files["cert"] = "denied"
           /\ config' = "nil" /\ UNCHANGED <<securePort, insecurePort>>
        \/ /\ files["cert"] \in Present
           /\ config' = "made" /\ securePort' = p /\ UNCHANGED insecurePort
     /\ UNCHANGED <<kubeFile, scheme>>

\* getKubeConfigFile: a kubeconfig that is there goes into the configuration,
\* used or not.
GetKubeConfigFile ==
  /\ Api("kubeFile", "kubeConfig")
  /\ kubeFile' \in BOOLEAN
  /\ UNCHANGED <<config, securePort, insecurePort, scheme>>

\* GetKubeConfig: outside a cluster, the kubeconfig must be there and parse.
GetKubeConfig ==
  \/ Api("kubeConfig", "validate") /\ UNCHANGED <<configVars, scheme>>
  \/ ~inCluster /\ Fatal("kubeConfig")

FilesFound ==
  securePort \in 1 .. maxSecurePort - 1 =>
    {files["cert"], files["key"]} \subseteq Present

\* Faulty: the ports are not looked at.
AnyPort == FilesFound

\* ServerConfig.Validate, for a configuration that is there.
Valid == (securePort # 0 \/ insecurePort # 0) /\ FilesFound

\* KubernetesCfg.Validate looks again for a kubeconfig that was there.
KubeFileMayBeGone == kubeFile

\* RunConfig.Validate, which uses the configuration without a look at nil.
Validate ==
  \/ /\ process = "up" /\ api = "validate" /\ config = "nil"
     /\ process' = "panic"
     /\ UNCHANGED <<main, serverVars, givenVars, files>>
  \/ /\ api = "validate" /\ config = "made"
     /\ \/ Valid /\ Api("validate", "newServer") /\ UNCHANGED <<configVars, scheme>>
        \/ (~Valid \/ KubeFileMayBeGone) /\ Fatal("validate")

\* Loadable: the pair must parse, the CA need only be read.
Loadable == files["cert"] = "good" /\ files["key"] = "good" /\ files["ca"] \in Present

\* Faulty: without its files, the server does without TLS.
FallBack ==
  /\ api = "newServer"
  /\ Api("newServer", "run")
  /\ scheme' = IF securePort # 0 /\ Loadable THEN "https" ELSE "http"
  /\ UNCHANGED configVars

\* Faulty: a server that cannot be made is only logged.
LogOnly ==
  /\ api = "newServer"
  /\ securePort = 0 \/ Loadable
  /\ Api("newServer", "run")
  /\ scheme' = IF securePort # 0 THEN "https" ELSE "http"
  /\ UNCHANGED configVars

\* NewServer and initServer.  It may also fail to make the cluster's client.
NewServer ==
  /\ api = "newServer"
  /\ \/ /\ securePort = 0
        /\ Api("newServer", "run") /\ UNCHANGED <<configVars, scheme>>
     \/ /\ securePort # 0 /\ Loadable
        /\ Api("newServer", "run") /\ scheme' = "https" /\ UNCHANGED configVars
     \/ Fatal("newServer")

ListenPort == IF securePort # 0 THEN securePort ELSE insecurePort

\* Run: no port, or one that is taken, is fatal.
Run ==
  \/ /\ api = "run" /\ ListenPort \in 0 .. maxSecurePort
     /\ Api("run", "listening") /\ UNCHANGED <<configVars, scheme>>
  \/ Fatal("run")
-----------------------------------------------------------------------------
\* Something outside the process puts, changes or takes away one of the files.
FilesChange ==
  /\ files' \in [File -> FileState]
  /\ \E f \in File : \A g \in File \ {f} : files'[g] = files[g]
  /\ UNCHANGED <<main, serverVars, givenVars, process>>

MainStep == NewManager \/ SetupWithManager \/ AddChecks \/ StartManager
ApiStep ==
  \/ NewServerConfig \/ GetKubeConfigFile \/ GetKubeConfig \/ Validate
  \/ NewServer \/ Run

StartupNext == MainStep \/ MainEnds \/ ApiStep \/ FilesChange

StartupSpec == StartupInit /\ [][StartupNext]_startupVars

\* Both goroutines run.
StartupFairness == WF_startupVars(MainStep) /\ WF_startupVars(ApiStep)
FairStartupSpec == StartupSpec /\ StartupFairness
-----------------------------------------------------------------------------
Serving == process = "up" /\ api = "listening"

\* The process that serves, serves what it was configured for, at a port that
\* exists: with TLS exactly when its certificate was found, whatever became of
\* the files in between (serverconfig.go, lines 76-86; apiserver.go, 88-120).
ServedAsConfigured ==
  Serving =>
    /\ config = "made"
    /\ ListenPort \in 1 .. maxSecurePort
    /\ scheme = "https" <=> securePort # 0

\* No half a service: the process ends, or the manager and the API server are
\* both up, though neither goroutine waits for the other (main.go, lines
\* 102-135; apiserver.go, 167-187).
UpOrDown == <>(process # "up" \/ (Serving /\ main = "running"))

\* Why: TLS is set for a configuration that asks for it and by the step that
\* loads the files, and a configuration without a port does not get that far.
ConfigInv ==
  /\ StartupTypeOK
  /\ api \in {"newServer", "run", "listening"} =>
       config = "made" /\ (securePort # 0 \/ insecurePort # 0)
  /\ api \in {"run", "listening"} => (scheme = "https" <=> securePort # 0)
  /\ api \notin {"run", "listening"} => scheme = "http"
  /\ api = "listening" => ListenPort \in 0 .. maxSecurePort
  /\ main \in {"newManager", "setup"} <=> api = "off"
=============================================================================

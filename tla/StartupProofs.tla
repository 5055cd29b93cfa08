--------------------------- MODULE StartupProofs ---------------------------
(***************************************************************************)
(* Whatever port and files the process is given, and whatever happens to   *)
(* the files while it comes up, it serves what it was configured for.      *)
(***************************************************************************)
EXTENDS Startup, TLAPS

\* All the proofs need to know of the highest port.
LEMMA HighestPort == maxSecurePort \in Int
BY DEF maxSecurePort

\* The process starts within the invariant.
LEMMA ConfigInit == StartupInit => ConfigInv
<1>1. StartupInit => kubeFile \in BOOLEAN
  BY DEF StartupInit
<1> QED
  BY <1>1, StartupAssumption DEF StartupInit, ConfigInv, StartupTypeOK

\* The main goroutine knows nothing of the configuration.
LEMMA MainKeeps ==
  ASSUME ConfigInv, MainStep \/ MainEnds
  PROVE  ConfigInv'
BY DEF ConfigInv, StartupTypeOK, ListenPort, MainStep, MainEnds, Main,
       NewManager, SetupWithManager, AddChecks, StartManager, configVars,
       serverVars, givenVars

\* The steps that make the configuration keep it well-formed, and plain.
LEMMA ConfigureKeeps ==
  ASSUME ConfigInv,
         NewServerConfig \/ GetKubeConfigFile \/ GetKubeConfig \/ Validate
  PROVE  ConfigInv'
<1>1. CASE NewServerConfig
  <2>1. (IF port = NoPort THEN defaultServicePort ELSE port) \in Int
    BY StartupAssumption DEF ConfigInv, StartupTypeOK, defaultServicePort
  <2> QED BY <1>1, <2>1 DEF ConfigInv, StartupTypeOK, Api, NewServerConfig,
             serverVars, givenVars
<1>2. CASE GetKubeConfigFile \/ GetKubeConfig
  BY <1>2 DEF ConfigInv, StartupTypeOK, ListenPort, Api, Fatal, GetKubeConfigFile,
     GetKubeConfig, configVars, serverVars, givenVars
<1>3. CASE Validate
  BY <1>3 DEF ConfigInv, StartupTypeOK, Api, Fatal, Validate, Valid, FilesFound,
     configVars, serverVars, givenVars
<1> QED BY <1>1, <1>2, <1>3

\* TLS is set by the step that loads the files, for a configuration that asks
\* for it; a configuration without a usable port is not listened at.
LEMMA ServeKeeps ==
  ASSUME ConfigInv, NewServer \/ Run
  PROVE  ConfigInv'
BY DEF ConfigInv, StartupTypeOK, ListenPort, Api, Fatal,
       configVars, serverVars, givenVars, NewServer, Run

\* Changing a file changes nothing that was decided.
LEMMA FilesKeep ==
  ASSUME ConfigInv, FilesChange \/ UNCHANGED startupVars
  PROVE  ConfigInv'
BY DEF ConfigInv, StartupTypeOK, ListenPort, FilesChange, startupVars,
       configVars, serverVars, givenVars

\* The invariant is inductive, for every set of ports (all of Startup.tla).
THEOREM StartupInductive == StartupSpec => []ConfigInv
<1>1. ConfigInv /\ [StartupNext]_startupVars => ConfigInv'
  BY MainKeeps, ConfigureKeeps, ServeKeeps, FilesKeep DEF StartupNext, ApiStep
<1> QED BY ConfigInit, <1>1, PTL DEF StartupSpec

\* A process that serves, serves at a port that exists, with TLS exactly when
\* its certificate was found (serverconfig.go, lines 76-86; apiserver.go,
\* 88-120).
THEOREM ServesAsConfigured == StartupSpec => []ServedAsConfigured
<1>1. ConfigInv => ServedAsConfigured
  BY HighestPort DEF ConfigInv, StartupTypeOK, ServedAsConfigured, Serving,
                     ListenPort
<1> QED BY <1>1, StartupInductive, PTL
=============================================================================

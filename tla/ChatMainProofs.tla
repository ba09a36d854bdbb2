--------------------------- MODULE ChatMainProofs ---------------------------
(***************************************************************************)
(* The chat server's main, whenever SIGINT comes and whatever fails.       *)
(***************************************************************************)
EXTENDS ChatMain, JrpcServerProofs

(* The flag is reset before the handler can set it; and main looks at it    *)
(* before each call of jrpc_server_run.                                     *)
SignalInv ==
  /\ main \in {"name", "parse", "reset", "install"} => ~handled
  /\ ~handled => ~caught
  /\ caught => requested
  /\ late \in {0, 1}
  /\ ~caught \/ main = "run" => late = 0

LEMMA SignalInit == MainInit => SignalInv
  BY DEF MainInit, SignalInv

LEMMA SignalStep == SignalInv /\ [MainNext]_allVars => SignalInv'
<1> SUFFICES ASSUME SignalInv, [MainNext]_allVars PROVE SignalInv'
  OBVIOUS
<1> USE DEF SignalInv, Goto, signalVars
<1>1. CASE Configure
  BY <1>1 DEF Configure
<1>2. CASE Option
  BY <1>2 DEF Option
<1>3. CASE Parsed
  BY <1>3 DEF Parsed
<1>4. CASE Prepare
  BY <1>4 DEF Prepare
<1>5. CASE Test
  BY <1>5 DEF Test
<1>6. CASE RunServer
  BY <1>6 DEF RunServer
<1>7. CASE InServer
  BY <1>7 DEF InServer, mainVars
<1>8. CASE Kill
  BY <1>8 DEF Kill
<1>9. CASE on_shutdown_requested
  BY <1>9 DEF on_shutdown_requested
<1>10. CASE Exit
  BY <1>10 DEF Exit
<1>11. CASE UNCHANGED allVars
  BY <1>11 DEF allVars, mainVars
<1> QED BY <1>1, <1>2, <1>3, <1>4, <1>5, <1>6, <1>7, <1>8, <1>9, <1>10, <1>11 DEF MainNext

(* No SIGINT that was handled is forgotten, and at most one more call of    *)
(* jrpc_server_run is made after it.                                        *)
THEOREM ShutdownNotForgotten == MainSpec => []ShutdownRemembered
<1>1. SignalInv => ShutdownRemembered
  BY DEF SignalInv, ShutdownRemembered
<1> QED BY <1>1, SignalInit, SignalStep, PTL DEF MainSpec
-----------------------------------------------------------------------------
(* main uses the server as JrpcConfig expects, up to the interrupted poll.  *)
LEMMA MainConfigStep == ConfigInv /\ [MainNext]_allVars => ConfigInv'
<1> SUFFICES ASSUME ConfigInv, [MainNext]_allVars PROVE ConfigInv'
  OBVIOUS
<1>1. CASE Configure
  <2>1. Set("protocol_name", ChatName) /\ "protocol_name" \in Field
    BY <1>1 DEF Configure, Field
  <2> QED BY <2>1, SetInv, ChatNameAssumption
<1>2. CASE Option
  <2>1. PICK f \in Field \ {"protocol_name"}, path \in Text \ {ChatName} : Set(f, path)
    BY <1>2 DEF Option
  <2> QED BY <2>1, SetInv
<1>3. CASE UNCHANGED configAll
  BY <1>3, ConfigNextInv
<1>4. CASE Parsed \/ Prepare \/ Test \/ Kill
  BY <1>3, <1>4 DEF Parsed, Prepare, Test, Kill
<1>5. CASE RunServer
  <2>1. UNCHANGED configVars /\ context' = context /\ pc # "disposed" /\ pc' # "disposed"
    BY <1>5 DEF RunServer, Run, Return
  <2> QED BY <2>1, SameConfig
<1>6. CASE InServer
  <2>1. CASE CreateConfigured
    BY <2>1, CreateInv
  <2>2. CASE (PollEvent \/ PollTimeout \/ Served) /\ UNCHANGED configVars
    <3>1. context' = context /\ pc # "disposed" /\ pc' # "disposed"
      BY <2>2 DEF PollEvent, PollTimeout, Served
    <3> QED BY <2>2, <3>1, SameConfig
  <2> QED BY <1>6, <2>1, <2>2 DEF InServer
<1>7. CASE on_shutdown_requested
  <2>1. UNCHANGED configVars /\ context' = context
    BY <1>7 DEF on_shutdown_requested
  <2>2. CASE pc = "poll"
    <3>1. pc # "disposed" /\ pc' # "disposed"
      BY <1>7, <2>2 DEF on_shutdown_requested
    <3> QED BY <2>1, <3>1, SameConfig
  <2>3. CASE pc # "poll"
    <3>1. pc' = pc
      BY <1>7, <2>3 DEF on_shutdown_requested
    <3> QED BY <2>1, <3>1 DEF ConfigInv, ConfigTypeOK, StringsOwned, HeldInv, WantedInv, ServingInv,
               configVars, Deref
  <2> QED BY <2>2, <2>3
<1>8. CASE Exit
  BY <1>8, DisposeInv DEF Exit
<1>9. CASE UNCHANGED allVars
  BY <1>3, <1>9 DEF allVars
<1> QED BY <1>1, <1>2, <1>4, <1>5, <1>6, <1>7, <1>8, <1>9 DEF MainNext

(* Only Exit ends the process, and a server that is disposed stays so.      *)
ExitInv == ConfigInv /\ (main = "exited" => pc = "disposed")

LEMMA ExitStep == ExitInv /\ [MainNext]_allVars => ExitInv'
<1> SUFFICES ASSUME ExitInv, [MainNext]_allVars PROVE main' = "exited" => pc' = "disposed"
  BY MainConfigStep DEF ExitInv
<1>1. CASE Configure \/ Option \/ Parsed \/ Prepare \/ Test \/ RunServer \/ Kill
  BY <1>1 DEF Configure, Option, Parsed, Prepare, Test, RunServer, Kill, Goto
<1>2. CASE InServer
  <2>1. pc # "disposed" /\ main' = main
    BY <1>2 DEF InServer, CreateConfigured, CreateContext, PollEvent, PollTimeout, Served, mainVars
  <2> QED BY <2>1 DEF ExitInv
<1>3. CASE on_shutdown_requested
  BY <1>3 DEF on_shutdown_requested
<1>4. CASE Exit
  BY <1>4 DEF Exit, DisposeAll, Dispose
<1>5. CASE UNCHANGED allVars
  BY <1>5 DEF ExitInv, allVars, mainVars, configAll, vars
<1> QED BY <1>1, <1>2, <1>3, <1>4, <1>5 DEF MainNext

(* A process that ends by itself has freed all its strings.                 *)
THEOREM NothingLeftAtExit == MainSpec => []ExitsDisposed
<1>1. MainInit => ExitInv
  BY ConfigInitInv DEF MainInit, ExitInv
<1>2. ExitInv => ExitsDisposed
  BY DEF ExitInv, ExitsDisposed, ConfigInv, StringsOwned
<1> QED BY <1>1, <1>2, ExitStep, PTL DEF MainSpec

(* What the server of this program serves is what its arguments say.        *)
THEOREM MainServesArguments == MainSpec => []ServedAsSet
<1>1. MainInit => ConfigInv
  BY ConfigInitInv DEF MainInit
<1>2. ConfigInv => ServedAsSet
  BY DEF ConfigInv, ServingInv, ServedAsSet, WantsTls, Service
<1> QED BY <1>1, <1>2, MainConfigStep, PTL DEF MainSpec

(* No string of the configuration is lost, freed twice or shared, and those *)
(* the context refers to are there until main disposes of the server,       *)
(* whenever SIGINT comes.                                                   *)
THEOREM MainKeepsStrings == MainSpec => [](StringsOwned /\ HeldNotFreed)
<1>1. MainInit => ConfigInv
  BY ConfigInitInv DEF MainInit
<1>2. ConfigInv => StringsOwned /\ HeldNotFreed
  BY DEF ConfigInv, HeldInv, StringsOwned, HeldNotFreed
<1> QED BY <1>1, <1>2, MainConfigStep, PTL DEF MainSpec
=============================================================================

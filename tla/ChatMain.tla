------------------------------ MODULE ChatMain ------------------------------
(***************************************************************************)
(* main of example/chat-server/main.cc: it configures a server from its    *)
(* arguments and runs it until the user asks for the end by SIGINT.  The   *)
(* signal may come between any two steps of the program.                   *)
(***************************************************************************)
EXTENDS JrpcConfig

CONSTANT ChatName  \* the protocol name "jrpc-chat"

ASSUME ChatNameAssumption == ChatName \in Text

VARIABLES
  main,       \* what main does next, or that the process "exited" or was "killed"
  requested,  \* is_shutdown_requested
  handled,    \* whether on_shutdown_requested handles SIGINT
  caught,     \* history: a SIGINT was handled
  late        \* history: calls of jrpc_server_run since then

mainVars == <<main, requested, handled, caught, late>>
signalVars == <<requested, handled, caught>>
allVars == <<configAll, mainVars>>

(* The flag is static, so it is false. *)
MainInit ==
  /\ ConfigInit
  /\ main = "name"
  /\ requested = FALSE
  /\ handled = FALSE
  /\ caught = FALSE
  /\ late = 0

Goto(here, there) == main = here /\ main' = there

Configure ==
  /\ Goto("name", "parse")
  /\ Set("protocol_name", ChatName)
  /\ UNCHANGED <<signalVars, late>>

(* parse_arguments takes an option for a path ... *)
Option ==
  /\ Goto("parse", "parse")
  /\ \E f \in Field \ {"protocol_name"}, path \in Text \ {ChatName} : Set(f, path)
  /\ UNCHANGED <<signalVars, late>>

(* Mutant: help and bad arguments end the program at once. *)
ParsedReturns ==
  /\ Goto("parse", "exited") \/ Goto("parse", "reset")
  /\ UNCHANGED <<configAll, signalVars, late>>

(* ... until there are none left, or one is unknown or asks for help: then  *)
(* the server is not run.                                                   *)
Parsed ==
  /\ Goto("parse", "dispose") \/ Goto("parse", "reset")
  /\ UNCHANGED <<configAll, signalVars, late>>

(* Mutant: the flag is reset when the handler is there already. *)
PrepareLate ==
  /\ \/ Goto("reset", "install") /\ handled' = TRUE /\ UNCHANGED requested
     \/ Goto("install", "test") /\ requested' = FALSE /\ UNCHANGED handled
  /\ UNCHANGED <<configAll, caught, late>>

(* First the flag is reset, then the handler is installed. *)
Prepare ==
  /\ \/ Goto("reset", "install") /\ requested' = FALSE /\ UNCHANGED handled
     \/ Goto("install", "test") /\ handled' = TRUE /\ UNCHANGED requested
  /\ UNCHANGED <<configAll, caught, late>>

(* The condition of the loop. *)
Test ==
  /\ Goto("test", IF requested THEN "dispose" ELSE "run")
  /\ UNCHANGED <<configAll, signalVars, late>>

(* Mutant: a call that timed out is repeated, without a look at the flag. *)
RunUntilEvent ==
  /\ \/ Goto("run", "running") /\ Run /\ late' = IF caught THEN 1 ELSE 0
     \/ /\ Goto("running", IF cause = "timeout" THEN "run" ELSE "test")
        /\ Return /\ UNCHANGED late
  /\ UNCHANGED <<configVars, signalVars>>

(* jrpc_server_run, with a timeout of a second, and its return. *)
RunServer ==
  /\ \/ Goto("run", "running") /\ Run /\ late' = IF caught THEN late + 1 ELSE late
     \/ Goto("running", "test") /\ Return /\ UNCHANGED late
  /\ UNCHANGED <<configVars, signalVars>>

InServer ==
  /\ \/ CreateConfigured
     \/ (PollEvent \/ PollTimeout \/ Served) /\ UNCHANGED configVars
  /\ UNCHANGED mainVars

(* SIGINT kills a process that does not handle it. *)
Kill ==
  /\ main \notin {"exited", "killed"}
  /\ ~handled
  /\ main' = "killed"
  /\ UNCHANGED <<configAll, signalVars, late>>

(* Handled, it sets the flag, and a poll it interrupts returns at once. *)
on_shutdown_requested ==
  /\ main \notin {"exited", "killed"}
  /\ handled
  /\ requested' = TRUE
  /\ caught' = TRUE
  /\ pc' = IF pc = "poll" THEN "return" ELSE pc
  /\ UNCHANGED <<main, handled, late, configVars,
                 context, adopted, datagrams, readable, cause, waker>>

Exit == Goto("dispose", "exited") /\ DisposeAll /\ UNCHANGED <<signalVars, late>>

MainNext == Configure \/ Option \/ Parsed \/ Prepare \/ Test \/ RunServer \/ InServer
              \/ Kill \/ on_shutdown_requested \/ Exit

MainSpec == MainInit /\ [][MainNext]_allVars

(* The process is scheduled, and has finitely many arguments; a poll ends   *)
(* with its timeout at the latest.                                          *)
MainFair ==
  MainSpec /\ WF_allVars(Configure \/ Parsed \/ Prepare \/ Test \/ RunServer \/ InServer \/ Exit)
-----------------------------------------------------------------------------
(* A SIGINT that was handled is not forgotten, and if it comes at the worst *)
(* moment, between the test of the flag and the poll, it takes one more     *)
(* jrpc_server_run to be noticed, and no more.                              *)
ShutdownRemembered == (caught => requested) /\ late <= 1

(* However the process ends by itself, it has disposed of the server, and   *)
(* no string of its configuration is left.                                  *)
ExitsDisposed == main = "exited" => pc = "disposed" /\ DOMAIN heap = {}

(* After a SIGINT that is handled the program ends, wherever it was, and if *)
(* the context cannot be created, too.                                      *)
ShutdownEnds == caught ~> main = "exited"
=============================================================================

------------------------------ MODULE Programs ------------------------------
(***************************************************************************)
(* The two programs on their way from their command lines to the           *)
(* connection: the service is started, then the provider (main of          *)
(* provider_main.cpp), which connects to it and serves it.  An application *)
(* that uses the client library has no command line.                       *)
(***************************************************************************)
EXTENDS Options, WsClient

vars == <<optionVars, clientVars>>

Init ==
    /\ ClientInit
    /\ current = 0 /\ service = NoService
    /\ \/ /\ listener = "shutdown" /\ stage = "webfuse"
          /\ argv \in ServiceLines /\ config = ws_config
       \/ /\ listener = "reconnect" /\ stage = "application"
          /\ argv = <<>> /\ config = context("")

(* main() of the provider: the loop, or the end at once.  What is known of the
   command line besides the exit code is no longer used.                    *)
Begun(exit_code) ==
    /\ stage' = "started" /\ argv' = <<>> /\ current' = 0 /\ service' = NoService
    /\ config' = [context("") EXCEPT !.exit_code = exit_code]

main_run ==
    /\ stage = "parsed" /\ Connects(config)
    /\ Start(IF ws_url(config.url) = service THEN "up" ELSE "gone")
    /\ Begun(EXIT_SUCCESS)

main_end ==
    /\ stage = "parsed" /\ ~Connects(config)
    /\ Begun(main_exit_code(config))
    /\ pc' = "exited"
    /\ UNCHANGED <<listener, overlooked, shutdown_requested, connection, current_message, requests, network,
                   owner, asked, answered, count, connects>>

application_run ==
    /\ stage = "application"
    /\ \E there \in {"up", "gone"} : Start(there)
    /\ Begun(EXIT_SUCCESS)

CommandLine == ReadServiceArgument \/ verify \/ app_run \/ launch_provider \/ getopt_long \/ url_given

Next == \/ CommandLine /\ UNCHANGED clientVars
        \/ main_run \/ main_end \/ application_run
        \/ (Callback \/ Loop \/ Others) /\ UNCHANGED optionVars

Spec == Init /\ [][Next]_vars /\ ClientFairness

(* Ports keep their 16 bits, and the client is in a state of its loop. *)
TypeOK ==
    /\ stage \in {"webfuse", "verified", "launch", "webfuse_provider", "parsed", "application", "started"}
    /\ current \in 0 .. Len(argv)
    /\ config.exit_code \in {EXIT_SUCCESS, EXIT_FAILURE, Aborted}
    /\ stage \in {"webfuse", "verified"} => config.port \in uint16
    /\ service.port \in uint16 \cup {-1}
    /\ pc \in {"start", "test", "entering", "poll", "handling", "exited"}
    /\ connection \in {"none", "connecting", "open"}
    /\ current_message \in Seq(Fragments) /\ wire \in Seq(Fragments)
    /\ requests \in Seq(1 .. MaxMessages) /\ answered \in Seq(1 .. MaxMessages)
    /\ {writable, wake, shutdown_requested, overlooked} \subseteq BOOLEAN
    /\ count \in 0 .. MaxMessages /\ connects \in 0 .. MaxConnects
=============================================================================

------------------------------- MODULE Options -------------------------------
(***************************************************************************)
(* The command lines of the two programs: ws_config of the service         *)
(* (ws/config.cpp, util/commandline_*.cpp, webfuse.cpp) and context of the *)
(* provider (provider_main.cpp), with the url it connects to (ws/url.cpp). *)
(*                                                                         *)
(* An argument is a token; Number gives the tokens that std::stoi accepts  *)
(* their value, and Url those that the provider is given as urls: their    *)
(* scheme and the parts of the authority between its colons.  Getopt gives *)
(* the arguments that begin with a dash what getopt_long finds in them:    *)
(* the letters of options without a value, then at most one option with a  *)
(* value, which may be attached.  -vuURL has the flag v and the option u   *)
(* with URL attached; --url has the option u and --url=URL has it with the *)
(* value.  A flag that is no letter of the program stands for whatever     *)
(* getopt_long does not accept: an unknown letter, an unknown long name,   *)
(* a value for a long option that takes none.                              *)
(***************************************************************************)
EXTENDS Integers, SequencesExt

CONSTANTS
    ServiceLines, ProviderLines,   \* command lines without the program's name
    Tokens,                        \* values of WEBFUSE_TOKEN; "" if it is not set
    Directories,                   \* arguments that name a directory
    Number,                        \* partial function: tokens to integers
    Url,                           \* partial function: tokens to [scheme, authority]
    Getopt                         \* partial function: tokens to [flags, option, attached, value]

VARIABLES
    stage,     \* "webfuse", "verified", "launch", "webfuse_provider", "parsed",
               \* "application" or "started"
    argv,      \* arguments of the program that starts
    current,   \* of commandline_reader, or optind: arguments consumed
    config,    \* ws_config, or context
    service    \* where the service listens

ASSUME LinesAssumption == ServiceLines \cup ProviderLines \subseteq Seq(STRING)
ASSUME NumberAssumption == "" \notin DOMAIN Number /\ \A text \in DOMAIN Number : Number[text] \in Int

(* The end of the options, which is no option. *)
EndOfOptions == "--"
ASSUME GetoptAssumption ==
    /\ EndOfOptions \notin DOMAIN Getopt
    /\ \A arg \in DOMAIN Getopt : Getopt[arg].option \in {"", "p", "u", "a", "t"}

optionVars == <<stage, argv, current, config, service>>

EXIT_SUCCESS == 0
EXIT_FAILURE == 1
Aborted      == 134     \* an exception that nobody catches

-----------------------------------------------------------------------------
(* static_cast<uint16_t> *)
FaultyToUint16(n) == n
to_uint16(n) == n % 65536
uint16 == 0 .. 65535

(* commandline_reader::next(), after which current() is the next argument. *)
has_next == current < Len(argv)

DefaultPort == 8081
ws_config ==
    [cmd |-> "run", exit_code |-> EXIT_SUCCESS, port |-> DefaultPort, use_tls |-> FALSE, args |-> <<>>,
     key_path |-> "", cert_path |-> "", other |-> {}]

(* Options of the service that have a value. *)
ValueOptions == {"--wf-port", "--wf-vhost", "--wf-key", "--wf-cert", "--wf-authenticator",
                 "--wf-auth-header", "--wf-timeout", "--wf-docroot"}

show_help(c, exit_code) == [c EXCEPT !.cmd = "show_help", !.exit_code = exit_code]
abort(c) == [c EXCEPT !.exit_code = Aborted]

(* The value of an option; std::stoi may throw. *)
store(c, option, value) ==
    CASE option = "--wf-port" ->
           IF value \in DOMAIN Number THEN [c EXCEPT !.port = to_uint16(Number[value])] ELSE abort(c)
      [] option = "--wf-timeout" ->
           IF value \in DOMAIN Number THEN [c EXCEPT !.other = @ \cup {option}] ELSE abort(c)
      [] option = "--wf-key"  -> [c EXCEPT !.key_path = value, !.use_tls = TRUE]
      [] option = "--wf-cert" -> [c EXCEPT !.cert_path = value, !.use_tls = TRUE]
      [] OTHER -> [c EXCEPT !.other = @ \cup {option}]

(* commandline_args::push; its capacity is argc. *)
push(c, arg) ==
    IF Len(c.args) + 1 < Len(argv) + 1 THEN [c EXCEPT !.args = Append(@, arg)] ELSE abort(c)

(* One turn of the loop of ws_config::ws_config. *)
get_arg(arg) ==
    IF current + 1 < Len(argv)
    THEN config' = store(config, arg, argv[current + 2]) /\ current' = current + 2
    ELSE config' = show_help(config, EXIT_FAILURE) /\ current' = current + 1

ReadServiceArgument ==
    /\ stage = "webfuse" /\ config.exit_code = EXIT_SUCCESS /\ has_next
    /\ LET arg == argv[current + 1] IN
       IF arg \in ValueOptions THEN get_arg(arg)
       ELSE /\ current' = current + 1
            /\ config' = CASE arg \in {"-h", "--help"} -> show_help(config, config.exit_code)
                           [] arg = "--wf-version" -> [config EXCEPT !.cmd = "print_version"]
                           [] OTHER -> push(config, arg)
    /\ UNCHANGED <<stage, argv, service>>

(* Afterwards: TLS needs both files. *)
FaultyVerify ==
    /\ stage = "webfuse" /\ (config.exit_code /= EXIT_SUCCESS \/ ~has_next)
    /\ stage' = "verified"
    /\ config' = IF /\ config.cmd = "run" /\ config.exit_code = EXIT_SUCCESS
                    /\ config.use_tls /\ config.key_path = "" /\ config.cert_path = ""
                 THEN show_help(config, EXIT_FAILURE) ELSE config
    /\ UNCHANGED <<argv, current, service>>
verify ==
    /\ stage = "webfuse" /\ (config.exit_code /= EXIT_SUCCESS \/ ~has_next)
    /\ stage' = "verified"
    /\ config' = IF /\ config.cmd = "run" /\ config.exit_code = EXIT_SUCCESS
                    /\ config.use_tls /\ (config.key_path = "" \/ config.cert_path = "")
                 THEN show_help(config, EXIT_FAILURE) ELSE config
    /\ UNCHANGED <<argv, current, service>>

-----------------------------------------------------------------------------
NoService == [port |-> -1, use_tls |-> FALSE]
Running(c) == c.cmd = "run" /\ c.exit_code = EXIT_SUCCESS

context(env) ==
    [cmd |-> "run", exit_code |-> EXIT_SUCCESS, base_path |-> ".", url |-> "", token |-> env,
     env |-> env]

(* fuse_main() stays in the process only if it is told to. *)
Foreground(c) == \E i \in DOMAIN c.args : c.args[i] \in {"-f", "-d"}

(* ws_server: where a service listens. *)
ws_server(c) == [port |-> c.port, use_tls |-> c.use_tls]

(* app::run: the service ends with its help or version, or runs.  ws_server
   has started its thread by the time fuse_main() forks, and a daemon is left
   without it; that lws_create_vhost() has failed goes unnoticed.           *)
app_run ==
    /\ stage = "verified"
    /\ service' \in {NoService} \cup
                    IF Running(config) /\ Foreground(config) THEN {ws_server(config)} ELSE {}
    /\ stage' = "launch" /\ argv' = <<>> /\ current' = 0 /\ config' = context("")

(* Somebody starts a provider. *)
launch_provider ==
    /\ stage = "launch" /\ stage' = "webfuse_provider"
    /\ argv' \in ProviderLines
    /\ \E env \in Tokens : config' = context(env)
    /\ UNCHANGED <<current, service>>

(* long_options: the letters of the options without and with a value. *)
no_argument       == {"v", "h"}
required_argument == {"p", "u", "a", "t"}

(* What getopt_long finds in an argument; nothing in one that is no option. *)
NoOptions  == [flags |-> <<>>, option |-> "", attached |-> FALSE, value |-> ""]
Found(arg) == IF arg \in DOMAIN Getopt THEN Getopt[arg] ELSE NoOptions

(* Arguments whose option takes the next argument as its value. *)
Takers == {arg \in DOMAIN Getopt : Getopt[arg].option \in required_argument /\ ~Getopt[arg].attached}

(* The value of the option in the argument at i. *)
optarg(line, i) == IF line[i] \in Takers THEN line[i + 1] ELSE Found(line[i]).value

(* getopt_long returns '?' for a flag it does not know or a missing value. *)
Refused(line, i) ==
    \/ \E k \in DOMAIN Found(line[i]).flags : Found(line[i]).flags[k] \notin no_argument
    \/ line[i] \in Takers /\ i = Len(line)

(* The switch of context::context: flags, of which the last one counts, and
   an option with its value.                                                *)
flagged(c, flags) ==
    IF flags = <<>> THEN c
    ELSE [c EXCEPT !.cmd = IF Last(flags) = "h" THEN "show_help" ELSE "show_version"]

FaultySet(c, option, value) ==
    CASE option = "p" -> [c EXCEPT !.base_path = value, !.url = value]
      [] option = "u" -> [c EXCEPT !.url = value]
      [] option = "t" -> [c EXCEPT !.token = value]
      [] OTHER -> c
set(c, option, value) ==
    CASE option = "p" -> [c EXCEPT !.base_path = value]
      [] option = "u" -> [c EXCEPT !.url = value]
      [] option = "t" -> [c EXCEPT !.token = value]
      [] OTHER -> c                                   \* ca_path, or no option

(* The turns of the loop of context::context that read one argument.  An
   argument that is no option is passed over.                               *)
Turn(arg) ==
    /\ stage = "webfuse_provider" /\ config.exit_code = EXIT_SUCCESS /\ has_next
    /\ arg = argv[current + 1]
    /\ UNCHANGED <<stage, argv, service>>

end_of_options ==
    /\ Turn(EndOfOptions)
    /\ current' = Len(argv) /\ UNCHANGED config

unknown_option ==
    /\ Turn(argv[current + 1]) /\ Refused(argv, current + 1)
    /\ current' = current + 1
    /\ config' = show_help(config, EXIT_FAILURE)

read_option ==
    LET n == current + 1 IN
    /\ Turn(argv[n]) /\ argv[n] /= EndOfOptions /\ ~Refused(argv, n)
    /\ current' = IF argv[n] \in Takers THEN n + 1 ELSE n
    /\ config' = set(flagged(config, Found(argv[n]).flags), Found(argv[n]).option, optarg(argv, n))

getopt_long == end_of_options \/ unknown_option \/ read_option

(* Then the url must have been given. *)
url_given ==
    /\ stage = "webfuse_provider" /\ (config.exit_code /= EXIT_SUCCESS \/ ~has_next)
    /\ stage' = "parsed"
    /\ config' = IF config.cmd = "run" /\ config.url = "" THEN show_help(config, EXIT_FAILURE)
                                                          ELSE config
    /\ UNCHANGED <<argv, current, service>>

-----------------------------------------------------------------------------
(* ws_url: the scheme decides on TLS; the port is what follows the first
   colon.  The constructor throws if there is no such scheme or no number.  *)
default_port == [ws |-> 80, wss |-> 443]
ValidUrl(url) ==
    /\ url \in DOMAIN Url /\ Url[url].scheme \in DOMAIN default_port
    /\ Len(Url[url].authority) > 1 => Url[url].authority[2] \in DOMAIN Number
ws_url(url) ==
    LET u == Url[url] IN
    [port |-> IF Len(u.authority) > 1 THEN to_uint16(Number[u.authority[2]])
                                      ELSE default_port[u.scheme],
     use_tls |-> u.scheme = "wss"]

(* filesystem::filesystem and connect() may throw, which main() catches. *)
CanStart(c) == c.base_path \in Directories /\ ValidUrl(c.url)
main_exit_code(c) == IF Running(c) /\ ~CanStart(c) THEN EXIT_FAILURE ELSE c.exit_code
Connects(c) == Running(c) /\ CanStart(c)

-----------------------------------------------------------------------------
(* Reference: the arguments that are not the value of the one before. *)
Positions(line, options) ==
    CHOOSE S \in SUBSET (DOMAIN line) :
        \A i \in DOMAIN line : i \in S <=> ~(i - 1 \in S /\ line[i - 1] \in options)

(* The value that an option was given last, or else a default. *)
LastValue(line, S, option, default) ==
    LET given == {i \in S : line[i] = option}
    IN IF given = {} THEN default ELSE line[Max(given) + 1]

(* The port that was given, or the default of the service. *)
AskedPort(line) ==
    LET text == LastValue(line, Positions(line, ValueOptions), "--wf-port", "")
    IN IF text = "" THEN DefaultPort ELSE Number[text]

(* The arguments at some positions, in their order. *)
Picked(line, S, picked) ==
    /\ Len(picked) = Cardinality(S)
    /\ \A i \in S : picked[Cardinality({j \in S : j <= i})] = line[i]

(* A service that runs, runs as its command line says: it has neither lost an
   argument of FUSE nor taken one of its own options or their values for one,
   listens on the port given last if that is one, and uses TLS if and only if
   it was given a key or a certificate, and then has both.  Nor has it run out
   of capacity.                                                             *)
RunsAsAsked ==
    stage = "verified" =>
        LET S == Positions(argv, ValueOptions)
            own == ValueOptions \cup {"-h", "--help", "--wf-version"}
            tls == \E i \in S : argv[i] \in {"--wf-key", "--wf-cert"}
            bad == \E i \in S : /\ argv[i] \in {"--wf-port", "--wf-timeout"} /\ i < Len(argv)
                                /\ argv[i + 1] \notin DOMAIN Number
        IN /\ Running(config) =>
                /\ Picked(argv, {i \in S : argv[i] \notin own}, config.args)
                /\ AskedPort(argv) \in uint16 => config.port = AskedPort(argv)
                /\ config.use_tls = tls
                /\ tls => /\ LastValue(argv, S, "--wf-key", "") /= ""
                          /\ LastValue(argv, S, "--wf-cert", "") /= ""
           /\ config.exit_code = Aborted => bad

(* Reference: the arguments of the provider that are read as options. *)
OptionsRead(line) ==
    LET S == Positions(line, Takers)
    IN {i \in S : \A j \in S : line[j] = EndOfOptions => i < j}

(* The value that an option of the provider was given last, or a default. *)
LastGiven(line, S, option, default) ==
    LET given == {i \in S : Found(line[i]).option = option}
    IN IF given = {} THEN default ELSE optarg(line, Max(given))

(* A provider is going to connect if and only if its command line has a url,
   asks for nothing else and has nothing unknown or missing, all of this before
   the end of the options; it connects to the url given last, with the token
   given last or with that of the environment.  If there are both, the usage
   text and the manual disagree on which one it is.                         *)
ConnectsAsAsked ==
    stage = "parsed" =>
        LET S == OptionsRead(argv)
            wrong == \E i \in S : Refused(argv, i)
            asks == \E i \in S : Found(argv[i]).flags /= <<>>
            url == LastGiven(argv, S, "u", "")
        IN /\ Running(config) <=> ~wrong /\ ~asks /\ url /= ""
           /\ wrong => config.exit_code = EXIT_FAILURE
           /\ Running(config) =>
                /\ config.url = url
                /\ config.token \in {config.env, LastGiven(argv, S, "t", config.env)}
                /\ config.env = "" => config.token = LastGiven(argv, S, "t", "")
=============================================================================

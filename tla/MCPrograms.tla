----------------------------- MODULE MCPrograms -----------------------------
(* Command lines for model checking. *)
EXTENDS Programs

UpTo(n, S) == UNION {[1 .. k -> S] : k \in 0 .. n}

MCServiceLines ==
    UpTo(3, {"--wf-port", "--wf-key", "--wf-cert", "--wf-vhost", "--wf-timeout", "-h",
             "--help", "--wf-version", "-f", "65616", "443", "x", ""})
        \cup {<<"-f", "--wf-key", "x", "--wf-cert">> \o l :
                l \in UpTo(3, {"--wf-port", "--wf-key", "-h", "65616", "443", "x", ""})}

MCProviderLines ==
    LET args == {"-u", "-t", "-p", "--", "-h", "-vh", "-x", "--url=plain", "-vu", "-ttls", "plain"}
    IN UpTo(2, args) \cup {<<"-u", u>> \o l : u \in {"plain", "tls", "ipv6", "http"}, l \in UpTo(2, args)}
                    \cup {<<a, "-u", "plain">> \o l : a \in args, l \in UpTo(1, {"-u", "--", "-h", "plain"})}

(* An argument with flags and an option that takes the next one, or has it. *)
Takes(flags, option) == [flags |-> flags, option |-> option, attached |-> FALSE, value |-> ""]
Has(option, value)   == [flags |-> <<>>, option |-> option, attached |-> TRUE, value |-> value]
MCGetopt == ("-u" :> Takes(<<>>, "u")) @@ ("-t" :> Takes(<<>>, "t")) @@ ("-p" :> Takes(<<>>, "p"))
         @@ ("-h" :> Takes(<<"h">>, "")) @@ ("-vh" :> Takes(<<"v", "h">>, ""))
         @@ ("-x" :> Takes(<<"x">>, "")) @@ ("-vu" :> Takes(<<"v">>, "u"))
         @@ ("--url=plain" :> Has("u", "plain")) @@ ("-ttls" :> Has("t", "tls"))

MCNumber == ("65616" :> 65616) @@ ("443" :> 443) @@ ("8081" :> 8081)
MCUrl == [plain |-> [scheme |-> "ws", authority |-> <<"localhost", "8081">>],
          tls   |-> [scheme |-> "wss", authority |-> <<"localhost", "65616">>],
          ipv6  |-> [scheme |-> "ws", authority |-> <<"[", "", "1]", "8081">>],
          http  |-> [scheme |-> "http", authority |-> <<"localhost">>]]
=============================================================================

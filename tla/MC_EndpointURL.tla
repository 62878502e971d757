--------------------------- MODULE MC_EndpointURL ---------------------------
(* Model-checking instance of EndpointURL: config files that set every    *)
(* required key, one key changed or left out at a time, or a pool          *)
(* endpoint built from pieces; and command lines whose source is an        *)
(* irods:// string built from pieces, a mapping file, or neither.          *)
EXTENDS EndpointURL, TLC

\* pool_endpoint: [scheme:] [slashes] [authority] [path]
MCLegalPool ==
    {[net |-> "tcp", addr |-> <<h, ":", "8080">>] : h \in {"host", "127.0.0.1"}}
        \cup {[net |-> "unix", addr |-> <<"/", "dir">>]}
MCPoolInputs ==
    {sc \o sl \o au \o pa :
        sc \in {<<>>, <<"tcp", ":">>, <<"TCP", ":">>, <<"unix", ":">>, <<"http", ":">>},
        sl \in {<<>>, <<"/">>, <<"/", "/">>, <<"/", "/", "/">>},
        au \in {<<>>, <<"host">>, <<"host", ":">>, <<"host", ":", "8080">>,
                <<"127.0.0.1", ":", "8080">>, <<"8080">>, <<"host", ":", "host">>},
        pa \in {<<>>, <<"/", "dir">>}}
    \cup {FormatPool(ep) : ep \in MCLegalPool}

\* a config file with every key spec.md 6 requires
Mapping == [remote |-> <<"/", "zone">>, local |-> <<"/">>]
CompleteYaml ==
    [host |-> <<"host">>, proxyUser |-> <<"user">>, clientUser |-> <<"user">>,
     zone |-> <<"zone">>, password |-> <<"pass">>, pathMappings |-> <<Mapping>>,
     mountPath |-> <<"/", "dir">>]
Without(y, k) == [f \in DOMAIN y \ {k} |-> y[f]]
PamYaml == [authScheme |-> "pam", caCertificateFile |-> <<"/", "dir">>] @@ CompleteYaml
\* one key changed, or one left out to its default
MCYamlVariants ==
    {CompleteYaml} \cup {Without(CompleteYaml, k) : k \in DOMAIN CompleteYaml}
    \cup {(k :> v) @@ CompleteYaml :
            <<k, v>> \in {<<"port", 0>>, <<"readAheadMax", -1>>, <<"readAheadMax", 0>>,
                          <<"connectionMax", 0>>, <<"connectionMax", 1>>,
                          <<"dataRootPath", <<>>>>, <<"authScheme", "pam">>,
                          <<"authScheme", "krb">>, <<"profile", TRUE>>,
                          <<"csNegotiation", TRUE>>,
                          <<"pathMappings", <<[Mapping EXCEPT !.local = <<"dir">>]>>>>,
                          <<"pathMappings", <<Mapping, Mapping>>>>}}
    \cup {PamYaml}
    \cup {(k :> v) @@ PamYaml :
            <<k, v>> \in {<<"encryptionKeySize", 0>>, <<"encryptionAlgorithm", "">>,
                          <<"saltSize", 0>>, <<"hashRounds", 0>>}}

\* the mount directory: owned by the mounting user or not, with or
\* without the owner and other write bits
GoodDir == [exists |-> TRUE, isDir |-> TRUE, mine |-> TRUE, ownerW |-> TRUE, otherW |-> FALSE]
MCMountDirs ==
    {GoodDir, [GoodDir EXCEPT !.exists = FALSE], [GoodDir EXCEPT !.isDir = FALSE],
     [GoodDir EXCEPT !.ownerW = FALSE], [GoodDir EXCEPT !.mine = FALSE],
     [GoodDir EXCEPT !.mine = FALSE, !.ownerW = FALSE, !.otherW = TRUE]}
\* the CA certificate exists or not, in a directory the user can search or not
MCCerts == {"present", "absent", "hiddenPresent", "hiddenAbsent"}

MCConfigSources ==
    {[kind |-> "config", yaml |-> y, yamlOK |-> TRUE, mountDir |-> d, cert |-> c] :
        y \in MCYamlVariants, d \in MCMountDirs, c \in MCCerts}
    \cup {[kind |-> "config", yaml |-> ("poolEndpoint" :> p) @@ CompleteYaml,
           yamlOK |-> TRUE, mountDir |-> GoodDir, cert |-> "present"] : p \in MCPoolInputs}
    \cup {[kind |-> "config", yaml |-> CompleteYaml, yamlOK |-> FALSE,
           mountDir |-> GoodDir, cert |-> "present"]}

\* irods:// source: irods:// [userinfo@] [host[:port]] [path]
MCLegalSource ==
    {[user |-> "user", password |-> "pass", host |-> "host", port |-> pt, path |-> p] :
        pt \in {"1247", "8080", "0"}, p \in {<<"/", "zone">>, <<"/", "zone", "/", "dir">>}}
MCSourceInputs ==
    {<<"irods", ":", "/", "/">> \o ui \o hp \o pa :
        ui \in {<<>>, <<"user", "@">>, <<"user", ":", "pass", "@">>, <<"user", ":", "@">>},
        hp \in {<<>>, <<"host">>, <<"host", ":">>, <<"host", ":", "1247">>, <<"host", ":", "8080">>},
        pa \in {<<>>, <<"/">>, <<"/", "zone">>, <<"/", "zone", "/">>, <<"/", "zone", "/", "dir">>,
                <<"/", "/", "zone", "/", "/", "dir">>}}
    \cup {FormatSource(a) : a \in MCLegalSource}

\* credential flags, and what the user types at the two prompts
MCFlags == [proxyUser: {<<>>, <<"dir">>}, clientUser: {<<>>, <<"dir">>}, password: {<<>>, <<"dir">>}]
MCAnswers == {[user |-> u, password |-> p, pwErr |-> FALSE] : u, p \in {<<>>, <<"user">>}}
                \cup {[user |-> <<"user">>, password |-> <<>>, pwErr |-> TRUE]}
NoFlags == [proxyUser |-> <<>>, clientUser |-> <<>>, password |-> <<>>]
Typed   == [user |-> <<"user">>, password |-> <<"pass">>, pwErr |-> FALSE]

MCArgsSources ==
    {[kind |-> "args", argsOK |-> TRUE, form |-> "irods", s |-> s, file |-> "none",
      mappings |-> <<>>, flags |-> fl, answer |-> an] :
        s \in MCSourceInputs, fl \in MCFlags, an \in MCAnswers}
    \cup {[kind |-> "args", argsOK |-> TRUE, form |-> "yaml", s |-> <<>>, file |-> fi,
           mappings |-> ms, flags |-> fl, answer |-> an] :
            fi \in {"missing", "dir", "unreadable", "malformed", "ok"},
            ms \in {<<>>, <<Mapping>>}, fl \in MCFlags, an \in MCAnswers}
    \cup {[kind |-> "args", argsOK |-> ok, form |-> fm, s |-> <<>>, file |-> "none",
           mappings |-> <<>>, flags |-> NoFlags, answer |-> Typed] :
            ok \in BOOLEAN, fm \in {"other", "irods"}}
=============================================================================

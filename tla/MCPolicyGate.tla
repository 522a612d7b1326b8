---------------------------- MODULE MCPolicyGate ----------------------------
(***************************************************************************)
(* An instance of PolicyGate: two addresses of one network, one of them    *)
(* listed, and a proxy some configurations trust.                          *)
(***************************************************************************)
EXTENDS PolicyGate

CONSTANTS ip1, ip2, proxy

MCUpper == [m \in {"GET", "POST"} |-> m]

MCSubnet == [ip \in {ip1, ip2, proxy} |-> "net"]

Limit(mode, n) == [mode |-> mode, capacity |-> n, refill |-> 1]

\* a plain limit with bans, the stricter modes without the blocklist and with a
\* route, no limit at all, and one that does not validate
MCConfigs ==
    LET base == [rl |-> TRUE, limit |-> Limit("ip", 1), bl |-> TRUE, ban |-> TRUE,
                 threshold |-> 2, routesOn |-> FALSE, routes |-> <<>>, trusted |-> {proxy}]
    IN  {base,
         [base EXCEPT !.limit = Limit("both", 1), !.bl = FALSE, !.routesOn = TRUE,
                      !.routes = <<[path |-> <<"x">>, methods |-> {"POST"},
                                    limit |-> Limit("subnet", 1)]>>,
                      !.threshold = 1],
         [base EXCEPT !.rl = FALSE, !.ban = FALSE, !.trusted = {}],
         [base EXCEPT !.limit = Limit("ip", 0)]}

Input(x, p, path) ==
    [probe |-> FALSE, xff |-> x, real |-> Nil, remote |-> p, packed |-> p,
     method |-> "POST", path |-> path]

\* the file, and another file of the directory
MCNotes == {[path |-> "absolute", kind |-> "data"], [path |-> "other", kind |-> "data"]}

MCInputs == {Input(<<ip1, proxy>>, ip1, <<"y">>), Input(<<ip2>>, ip2, <<"x">>),
             [Input(Nil, Bad, <<"h">>) EXCEPT !.probe = TRUE, !.real = Bad, !.remote = Nil]}
=============================================================================

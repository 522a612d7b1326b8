---------------------------- MODULE MCXdpBridge ----------------------------
(***************************************************************************)
(* An instance of XdpBridge: IPv4 addresses of two bits, IPv6 addresses of *)
(* three whose first bit is 0 in the IPv4-mapped block.                    *)
(***************************************************************************)
EXTENDS XdpBridge

Cidr(f, a, l) == [text |-> "cidr", fam |-> f, addr |-> a, len |-> l]

Bare(f, a) == [text |-> "bare", fam |-> f, addr |-> a, len |-> 0]

\* host bits set, two spellings of one host, a prefix beside them, a native IPv6
\* prefix (too short for one configuration), and text that does not parse
MCItems == {Cidr(4, <<0, 1>>, 1), Bare(4, <<0, 1>>), Cidr(6, <<0, 0, 1>>, 3),
            Cidr(4, <<1, 0>>, 1), Cidr(6, <<1, 0, 0>>, 2),
            [text |-> "junk", fam |-> 4, addr |-> <<>>, len |-> 0]}

MCMapped == <<0>>

MCAddrs == [fam : {4}, bits : {<<0, 0>>, <<0, 1>>, <<1, 1>>}]
           \cup [fam : {6}, bits : {<<1, 0, 1>>, <<1, 1, 1>>}]

\* one guards a host inside a listed prefix and a prefix around another; the
\* faulty ones leave the server without XDP
MCConfigs ==
    LET good == [enabled |-> TRUE, mode |-> "skb", minV4 |-> 1, minV6 |-> 1,
                 failClosed |-> TRUE,
                 never |-> {[fam |-> 4, bits |-> <<0, 0>>], [fam |-> 6, bits |-> <<1>>]}]
    IN  {good,
         [good EXCEPT !.mode = "drv", !.minV6 = 3, !.failClosed = FALSE,
                      !.never = {[fam |-> 6, bits |-> <<1, 1, 1>>]}],
         [good EXCEPT !.mode = "hw"], [good EXCEPT !.never = Nil],
         [good EXCEPT !.enabled = FALSE]}
=============================================================================

----------------------------- MODULE IpExtractor -----------------------------
(***************************************************************************)
(* The client address of a request (policy/src/ip_extractor.rs).  The      *)
(* headers are [xff, real, remote]: the hops of X-Forwarded-For, X-Real-IP *)
(* and the peer address, Nil if absent.  Bad is text that is no address,   *)
(* an empty header included; Invalid is either error of extract_ip.        *)
(***************************************************************************)
EXTENDS Integers, Sequences

CONSTANTS Nil, Bad, Invalid

\* the first and the last of some positions of the header
First(stops) == CHOOSE k \in stops : \A j \in stops : k <= j

Last(stops) == CHOOSE k \in stops : \A j \in stops : j <= k

Parsed(text) == IF text = Bad THEN Invalid ELSE text

\* Mutant: the hops are walked from the client's end.
ExtractIp_leftmost(h, trusted) ==
    LET stops == IF h.xff = Nil THEN {}
                 ELSE {k \in 1..Len(h.xff) : h.xff[k] \notin trusted}
    IN  CASE stops # {} -> Parsed(h.xff[First(stops)])
          [] stops = {} /\ h.real # Nil -> Parsed(h.real)
          [] stops = {} /\ h.real = Nil /\ h.remote # Nil -> h.remote
          [] OTHER -> Invalid

(***************************************************************************)
(* extract_ip: the last hop that is not a trusted proxy, and an error if   *)
(* it does not parse; else X-Real-IP; else the peer.                       *)
(***************************************************************************)
ExtractIp(h, trusted) ==
    LET stops == IF h.xff = Nil THEN {}
                 ELSE {k \in 1..Len(h.xff) : h.xff[k] \notin trusted}
    IN  CASE stops # {} -> Parsed(h.xff[Last(stops)])
          [] stops = {} /\ h.real # Nil -> Parsed(h.real)
          [] stops = {} /\ h.real = Nil /\ h.remote # Nil -> h.remote
          [] OTHER -> Invalid
=============================================================================

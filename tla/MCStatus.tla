------------------------------ MODULE MCStatus ------------------------------
(* Instances of Status for TLC. *)
EXTENDS Status

CONSTANTS n1, n2, n3, r1, r2

Call(k, m) == [kind |-> k, method |-> m, at |-> n1]
Both(c, d) == [r \in Requests |-> IF r = r1 THEN c ELSE d]
None == Call("none", "GET")

\* All to the same node, since nodes do not share counters.  A status alone: it
\* only reads, so it meets writes in nothing but the nodes' health and terms.
\* Then what shares a series of http_requests_total: PUT with PUT, DELETE with
\* DELETE, and with POST all that is posted.
MCWorkloads ==
    {Both(Call("full", m), None) : m \in {"GET", "PUT"}}
    \cup {Both(Call("put", "PUT"), c) :
             c \in {Call("put", "POST"), Call("scrape", "PUT"), Call("delete", "DELETE")}}
    \cup {Both(Call("delete", "DELETE"), Call(k, "DELETE")) : k \in {"delete", "scrape"}}
    \cup {Both(Call("put", "POST"), Call(k, "POST")) : k \in {"put", "snapshot", "member", "scrape"}}
    \cup {Both(Call("snapshot", "POST"), Call("member", "POST"))}
=============================================================================

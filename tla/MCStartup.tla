----------------------------- MODULE MCStartup ------------------------------
(* Configuration files for Startup.                                        *)
EXTENDS Startup

CONSTANTS Ipv6, h1, h2, ips, text

Nb(ip, families, max) ==
    [ip |-> ip, families |-> families, hold_time |-> None, max_retry_count |-> max,
     connect_retry |-> 5, exponential_backoff |-> FALSE]
Retry(base, backoff) ==
    [Nb(h1, None, None) EXCEPT !.connect_retry = base, !.exponential_backoff = backoff]
File(localips, families, nbs) ==
    [localips |-> localips, families |-> families, hold_time |-> None, neighbors |-> nbs]

Good ==
    {File(ips, families, nbs) :
        families \in {None, {Ipv4}, {Ipv4, Ipv6}},
        nbs \in {None, {Nb(h1, None, None)}, {Nb(h1, None, 1), Nb(h2, {Ipv4}, 3)}}}
    \cup {File(ips, {Ipv6}, {Nb(h1, {Ipv6}, 2), Nb(h2, None, None)})}

\* A neighbour with a family the speaker does not have, alone and beside one that takes
\* the speaker's.
Wide == {File(ips, {Ipv4}, {Nb(h1, {Ipv4, Ipv6}, None)}),
         File(ips, None, {Nb(h1, {Ipv6}, 1), Nb(h2, None, 2)})}

\* The example of the README: no localips.
Sample == {File(None, {Ipv4}, {Nb(h1, None, None)})}

\* A neighbour whose address is none.
Invalid == {File(ips, {Ipv4}, {Nb(h1, None, None), Nb(text, None, None)})}

\* With backoff zero, the tests' values, and both sides of the cap; without it the
\* default and a jitter of at most zero and of one.
Timed ==
    {File(ips, None, {Retry(base, TRUE)}) :
        base \in {0, 1, 5, 9, 10, 60, 120, 600, 3599, 3601, 65535}}
    \cup {File(ips, None, {Retry(base, FALSE)}) : base \in {None, 0, 9, 10}}

Every == Good \cup Wide \cup Sample \cup Invalid \cup Timed

Passive == {File(ips, {Ipv4}, None)}
Retried == {File(ips, {Ipv4}, {Nb(h1, None, None)})}
=============================================================================

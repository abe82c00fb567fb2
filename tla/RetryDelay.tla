----------------------------- MODULE RetryDelay -----------------------------
(***************************************************************************)
(* calculate_retry_delay (neighbor/fsm.rs): how long connect() sleeps after *)
(* a failed attempt, in seconds, a pure function of the configured         *)
(* connect_retry, the number of failures and exponential_backoff.  The     *)
(* jitter is random, so the result is a set.  65535 * 2^10 is far below    *)
(* the end of a u64: nothing wraps.                                        *)
(***************************************************************************)
EXTENDS Naturals, FiniteSetsExt

\* Mutant: the delay grows by the same amount each time.
MultiplierLinear(counter) == Min({counter, 10}) + 1

Multiplier(counter) == 2 ^ Min({counter, 10})

BaseDelay(base, counter, backoff) ==
    IF backoff THEN Min({base * Multiplier(counter), 3600}) ELSE base

\* Mutant: the cap is applied before the jitter only.
CappedOnce(delay, backoff) == delay

Capped(delay, backoff) == IF backoff THEN Min({delay, 3600}) ELSE delay

calculate_retry_delay(base, counter, backoff) ==
    LET delay == BaseDelay(base, counter, backoff)
    IN {Capped(delay + jitter, backoff) : jitter \in 0..(delay \div 10)}
=============================================================================

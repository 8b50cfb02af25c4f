------------------------------- MODULE MCVerifier -------------------------------
(* Settings of a worker: the defaults scaled to small numbers, and the corners. *)
EXTENDS Verifier

CONSTANTS a1, a2, a3

TwoActions == <<a1, a2>>
ThreeActions == <<a1, a2, a3>>

Setting(max_attempts, timeout, backoff_factor) ==
    [max_attempts |-> max_attempts, timeout |-> timeout, initial_interval |-> 1,
     backoff_factor |-> backoff_factor, max_interval |-> 3]

Typical == {Setting(3, 5, 2)}

\* No attempts, no time, more attempts than time, no backoff.
Corners == Typical \cup {Setting(0, 5, 2), Setting(2, 0, 2), Setting(9, 3, 1)}
=============================================================================

----------------------------- MODULE MCUpstream ----------------------------
(***************************************************************************)
(* An instance of UpstreamRetry and one of Cooldown, what the server does  *)
(* when upstream fails and when it is rate-limited.  They share no state,  *)
(* so one of them moves and the other stays as it is.                      *)
(*                                                                         *)
(* Of UpstreamRetry: a Zen conversation next to a call that has no key,    *)
(* hence no failover and no cache.  Of Cooldown: a second of four units    *)
(* and durations of seven bits, so that 16 seconds wrap around as 2^63     *)
(* nanoseconds do in the code.                                             *)
(***************************************************************************)
EXTENDS UpstreamRetry, Cooldown, TLC

CONSTANTS c1, c2, k1, k2

MCCalls == {c1, c2}
MCKeys == {k1, k2}
MCKeyOf == (c1 :> k1) @@ (c2 :> NoKey)

MCLadder == <<2, 3, 5, 6, 8>>

MCHeaders ==
    [kind : {"none"}, secs : {0}]
    \cup [kind : {"number"}, secs : {-5, 0, 1, 4, 9, 12, 17, 33, 95, 107}]
    \cup [kind : {"date"}, secs : {-2, 7}]

VARIABLE moves  \* which of the two

UpstreamInit == Init /\ TrackerInit /\ moves \in {"calls", "tracker"}

UpstreamNext ==
    \/ moves = "calls" /\ Next /\ UNCHANGED <<trackerVars, moves>>
    \/ moves = "tracker" /\ TrackerNext /\ UNCHANGED <<vars, moves>>

UpstreamSpec ==
    UpstreamInit /\ [][UpstreamNext]_<<vars, trackerVars, moves>> /\ Fairness
============================================================================

----------------------------- MODULE MCLearnLog -----------------------------
(* LearnLog on a small instance: two sessions, two ids, and the shipped   *)
(* dials, except a helped_delta large enough to reach the ceiling.          *)
EXTENDS LearnLog

MCCfg == [key \in Keys |->
    CASE key = "base_observed" -> 50 [] key = "base_told" -> 40 [] key = "base_inferred" -> 25
      [] key = "helped_delta" -> 30  [] key = "noise_delta" -> -15
      [] key = "floor" -> 5          [] key = "ceiling" -> 95
      [] key = "min_evidence" -> 2   [] key = "min_evidence_verified" -> 1
      [] key = "min_sessions" -> 2]

Blank == [kind |-> "session", session |-> "s1", ref |-> 0, verified |-> FALSE,
          evidence |-> "observed", outcome |-> "helped", key |-> "floor", value |-> 0]

MCBodies ==
    {[Blank EXCEPT !.kind = "learn", !.ref = 1, !.verified = v, !.evidence = e] :
        v \in BOOLEAN, e \in {"observed", "inferred"}}
    \cup {[Blank EXCEPT !.kind = "learn", !.ref = 2]}
    \cup {[Blank EXCEPT !.kind = "use", !.ref = 1, !.session = s, !.outcome = o] :
        s \in Sessions, o \in Outcomes}
    \cup {[Blank EXCEPT !.kind = "use", !.ref = 2]}
    \cup {[Blank EXCEPT !.kind = k, !.ref = 1] : k \in {"refute", "promote"}}
    \cup {[Blank EXCEPT !.kind = "supersede", !.ref = 2]}
    \cup {Blank, [Blank EXCEPT !.kind = "calibrate"]}
=============================================================================

---------------------------- MODULE MCLearnStore ----------------------------
(* Command menus and dials for the runs of LearnStore.                      *)
EXTENDS LearnStore

MCConfig == [key \in Keys |->
    CASE key = "base_observed" -> 50 [] key = "base_told" -> 40 [] key = "base_inferred" -> 25
      [] key = "helped_delta" -> 10  [] key = "noise_delta" -> -15
      [] key = "floor" -> 5          [] key = "ceiling" -> 95
      [] key = "min_evidence" -> 2   [] key = "min_evidence_verified" -> 1
      [] key = "min_sessions" -> 2]

Blank == [kind |-> "session", session |-> "s1", ref |-> 0, verified |-> FALSE,
          evidence |-> "observed", outcome |-> "helped", key |-> "floor", value |-> 0]

Cmd(op, body)      == [op |-> op, body |-> body]
RecordCmd(v)       == Cmd("record", [Blank EXCEPT !.kind = "learn", !.verified = v])
UseCmd(id, s, o)   == Cmd("outcome", [Blank EXCEPT !.kind = "use", !.ref = id,
                                                  !.session = s, !.outcome = o])
RetireCmd(k, id)   == Cmd("outcome", [Blank EXCEPT !.kind = k, !.ref = id])
SetCmd(key, value) == Cmd("calibrate_set", [Blank EXCEPT !.kind = "calibrate",
                                                        !.key = key, !.value = value])
VerifyCmd  == Cmd("verify", Blank)
QueryCmd   == Cmd("query", Blank)
SyncCmd    == Cmd("sync", Blank)
\* One command at a time: entries recorded, used, retired and refuted by verify.
SerialCommands ==
    {RecordCmd(TRUE), UseCmd(1, "s1", "helped"), RetireCmd("supersede", 1), VerifyCmd}

\* Two commands at a time.
ConcurrentCommands ==
    {RecordCmd(TRUE), UseCmd(1, "s1", "helped"), VerifyCmd}

\* One command, dials that move, and lines that arrive from another clone.
PullCommands ==
    {RecordCmd(FALSE), UseCmd(1, "s1", "noise"), RetireCmd("promote", 1),
     SetCmd("base_observed", 60), QueryCmd, SyncCmd}

RecordOnly == {RecordCmd(FALSE)}

NoPulls == {}
OtherSide == {[Blank EXCEPT !.kind = "use", !.ref = 1, !.session = "s2"],
              [Blank EXCEPT !.kind = "learn", !.ref = 1]}
BothPulls == OtherSide \cup {[Blank EXCEPT !.kind = "newer"]}
=============================================================================

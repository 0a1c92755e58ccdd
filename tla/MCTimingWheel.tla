--------------------------- MODULE MCTimingWheel ----------------------------
(* Wheels of 3 seconds, 3 minutes, 2 hours and 1 day.                      *)
EXTENDS TimingWheel, TLC

\* A recurring timer beyond a minute and one of exactly a minute that fires once,
\* both with a condition; an idle entry within a minute; a timer of an hour.
MCKind == "long" :> "recurring" @@ "cond" :> "once" @@ "idle" :> "idle"
          @@ "hour" :> "once"
MCConditional == {"long", "cond"}
MCDelay == "long" :> 5 @@ "cond" :> 3 @@ "idle" :> 2 @@ "hour" :> 9
MCTimers == DOMAIN MCKind
=============================================================================

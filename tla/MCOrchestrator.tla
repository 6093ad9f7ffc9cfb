--------------------------- MODULE MCOrchestrator ---------------------------
(***************************************************************************)
(* Small task graphs for checking the runtime loop.                        *)
(***************************************************************************)
EXTENDS RunProperties, TLC

CONSTANTS T001, T002, T003, T004, T005

\* create_default_graph without its architecture task: a chain.
ShortTask == {T002, T003, T004, T005}
ShortDeps == T002 :> {} @@ T003 :> {T002} @@ T004 :> {T003} @@ T005 :> {T004}
ShortKind == T002 :> "work" @@ T003 :> "test" @@ T004 :> "review" @@ T005 :> "release"
ShortPriority == [t \in ShortTask |-> 50]
ShortRank == T002 :> 2 @@ T003 :> 3 @@ T004 :> 4 @@ T005 :> 5

\* Two independent tasks and an inspection beside them, one review, one release.
ForkTask == {T001, T002, T003, T004, T005}
ForkRank == T001 :> 1 @@ T002 :> 2 @@ T003 :> 3 @@ T004 :> 4 @@ T005 :> 5
ForkDeps == T001 :> {} @@ T002 :> {} @@ T003 :> {T001}
              @@ T004 :> {T001, T002, T003} @@ T005 :> {T004}
ForkKind == T001 :> "work" @@ T002 :> "work" @@ T003 :> "inspection"
              @@ T004 :> "review" @@ T005 :> "release"
ForkPriority == T001 :> 80 @@ T002 :> 95 @@ T003 :> 95
              @@ T004 :> 60 @@ T005 :> 50

\* A boundary violation and a failed final gate take the branch of a time-out, a
\* partial answer that of a failure.
MostOutcomes == {"passed", "failed", "blocked_env", "timed_out"}
FewOutcomes == {"passed", "failed", "blocked"}
DebugOutcomes == {"passed", "weak", "handoff", "failed", "blocked"}
AllReleases == {"recorded", "unhealthy", "failed"}
FewReleases == {"recorded", "failed"}
AnyTask == {{}}
AnyOrOne == {{}} \cup {{n} : n \in Node}
=============================================================================

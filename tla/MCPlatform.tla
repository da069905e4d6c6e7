----------------------------- MODULE MCPlatform -----------------------------
(***************************************************************************)
(* Company c1 registers, c2 is approved from the start; two possible       *)
(* employees; one tool of each category, one preset, a limit of one        *)
(* vehicle; two requests at a time; one attempt per window of two ticks,   *)
(* tokens of two and three ticks; c2 writes three messages that c1 reads,  *)
(* one per answer.  One thing opens in each list; its tool, and that of    *)
(* the vehicles, are the same.  Each scope is a set of operations that     *)
(* interleave.                                                             *)
(***************************************************************************)
EXTENDS Platform, TLC

CONSTANTS c1, c2, e1, e2, emp, fleet, s1, q1, q2, a1, a2, k1, g1, h1, d1,
          f1, f2, f3, f4

Symmetric == Permutations(Req) \cup Permutations(Employee)
AllChoices == {{}, {fleet}, {emp}, {emp, fleet}}
OneSender == [m \in 1..3 |-> c2]
Families ==
    {{"review", "status", "staff", "employees"},
     {"status", "own", "staff", "sets", "fleet"},
     {"status", "own", "catalogue", "fleet"},
     {"status", "own", "cargo"}, {"status", "catalogue", "haul"},
     {"status", "own", "group"}, {"review", "own", "customs"},
     {"status", "uploads"}, {"status", "session"}, {"status", "chat"}}

\* Points of one meridian: China, Kazakhstan 0.5 degrees away, a third point at
\* the edge of the Chinese radius, a fourth beyond it.
MCLatitude == [p \in {1, 2, 3, 4} |-> <<10, 15, 19, 20>>[p]]
MCCountry == [p \in {1, 2, 3, 4} |-> <<"cn", "kz", "", "cn">>[p]]
From(p, q) == [origin |-> p, destination |-> q]
MCRoutes == {From(3, 4), From(4, 2)}
MCKind == [e \in {k1, g1, h1, d1} |-> CASE e = k1 -> "cargo" [] e = g1 -> "group"
                                     [] e = h1 -> "haul" [] e = d1 -> "customs"]
MCDirection == [e \in {k1, g1, h1, d1} |-> IF e = k1 THEN From(1, 2) ELSE From(3, 4)]

\* Two documents of the same name, a photo, and a document of a deal.
MCUploader == [d \in Upload |-> c1]
MCFileKind == [d \in Upload |-> CASE d = f3 -> "fill-reports" [] d = f4 -> "deal-docs"
                                  [] OTHER -> "documents"]
MCFileName == [d \in Upload |-> "scan"]
MCContent == [d \in Upload |-> "image/jpeg"]

\* Both write.
TwoSenders == [m \in 1..3 |-> IF m = 3 THEN c1 ELSE c2]
ChatOnly == {{"chat"}}
=============================================================================

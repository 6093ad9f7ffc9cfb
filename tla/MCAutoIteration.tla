---------------------------- MODULE MCAutoIteration ----------------------------
EXTENDS AutoIterationProperties

\* Every way a first run can end with at most two gaps.
MCFirst == Evidence(2)

\* One good and one bad end of each kind of repair run.
EndOf(m, gaps) == [mode |-> m, profile |-> "other", looked |-> FALSE, gaps |-> gaps]

MCLater ==
  {EndOf("document", {}), EndOf("document", {"missing"}),
   EndOf("one_line", {}), EndOf("one_line", {"failed"}),
   EndOf("roadmap", {}), EndOf("roadmap", {"stopped"})}
=============================================================================

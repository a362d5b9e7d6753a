\* Properties TLC refutes, each in place of those below: INVARIANT
\* OneActiveSprint, PROPERTY StatusFollowsFlow, PROPERTY UnfinishedItemsMoved.
SPECIFICATION MCSpec
CONSTANTS
  Sprints = {s1, s2, s3}
  Items = {i1}
  Clients = {c1, c2}
  Backlog = Backlog
SYMMETRY Symmetry
INVARIANT ActiveBounded
PROPERTY StraysAreOvertaken

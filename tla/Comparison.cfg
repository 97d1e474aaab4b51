\* Every pair of JSON values of up to four levels under every kind of rule.
CONSTANTS Pairs <- MCPairs
          Policies <- MCPolicies
SPECIFICATION Spec
INVARIANTS WalkIsExact PassIsEarned
PROPERTY ComparisonEnds
\* A comparison ends.
CHECK_DEADLOCK FALSE

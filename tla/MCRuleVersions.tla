--------------------------- MODULE MCRuleVersions ---------------------------
\* Instances of RuleVersions for TLC.
EXTENDS RuleVersions, TLC

\* The overlaps under which the rule sets are sound: not an edit or another
\* publication while a version is published, and not two decisions on drafts.
HarmlessPairs ==
  (Ops \X Ops) \ (({"publish"} \X (Edits \cup {"accept", "publish"}))
                    \cup ((Edits \cup {"accept"}) \X {"publish"})
                    \cup (Settles \X Settles))

AllPairs == Ops \X Ops

\* Workers, and what the rules say, are interchangeable.
Symmetry == Permutations(Workers) \cup Permutations(Values)

=============================================================================

------------------------------ MODULE MCDeploy ------------------------------
EXTENDS Deploy

CONSTANTS v1, v2, v3

\* v2 brings a migration; v3 does not, and its api never becomes healthy.
MCTags == {v1, v2, v3}
MCGood == {v1, v2}
MCHead == [t \in MCTags |-> IF t = v1 THEN 1 ELSE 2]

\* The listener is rolled out as the worker is: after migrate, and nothing
\* depends on it.
MCServices == {"worker", "api", "bot"}

\* Two images with the same schema, both good.
MCSameSchema == {v2, v3}
MCSameGood   == {v2, v3}
MCSameHead   == [t \in MCSameSchema |-> 2]
=============================================================================

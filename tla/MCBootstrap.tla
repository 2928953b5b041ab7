---------------------------- MODULE MCBootstrap -----------------------------
EXTENDS Bootstrap

\* b is a published again with another content; c has a new schema.
MCReleases == {"a", "b", "c"}
MCVersion == [r \in MCReleases |-> IF r = "c" THEN "2.0.0" ELSE "1.0.0"]
MCCode == [r \in MCReleases |-> r]
MCNative == [r \in MCReleases |-> IF r = "c" THEN "n2" ELSE "n1"]
MCSchema == [r \in MCReleases |-> IF r = "c" THEN 2 ELSE 1]
MCQueries == <<"local", "other">>
MCHasRecord == {"local"}
=============================================================================

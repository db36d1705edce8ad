---------------------------- MODULE MCPageStyles ----------------------------
EXTENDS PageStyles, TLC

\* Everything at the last bucket, and one value at the next, so that runs of
\* buckets wrap around and overlap.
MCHashes == {("s1" :> 7 @@ "s2" :> 7 @@ "s3" :> 7 @@ "s4" :> h) : h \in {0, 7}}

\* One value out of the way of the others.
MCCloneHashes ==
    {("s1" :> 7 @@ "s2" :> 7 @@ "s3" :> 7 @@ "s4" :> 1 @@ "s5" :> 1)}
=============================================================================

----------------------------- MODULE MCFthForth -----------------------------
EXTENDS FthForth, TLC
CONSTANTS a, f, g, s, w
\* A word and a symbol share one of two buckets.
MCBucketOf == f :> 0 @@ g :> 1 @@ s :> 0
=============================================================================

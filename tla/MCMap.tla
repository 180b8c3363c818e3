------------------------------- MODULE MCMap -------------------------------
(* ab begins with a; a and c share a hash, and a bucket with ab up to 4    *)
(* buckets; b is in bucket 0 until there are 8                             *)
EXTENDS Map
MCHash == [k \in Keys |-> CASE k = "a" -> 1 [] k = "c" -> 1
                            [] k = "ab" -> 5 [] k = "b" -> 4 [] k = "d" -> 3]
MCBegins == {<<"a", "ab">>}
=============================================================================

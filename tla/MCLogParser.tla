---------------------------- MODULE MCLogParser ----------------------------
(* Instances of LogParser for TLC: five files with lines that share *)
(* keys and buckets; two keys hash to the same bucket.                     *)
EXTENDS LogStatistics, TLC

L(u, b, r) == [quotes |-> TRUE, url |-> u, bytes |-> b, referer |-> r]
Broken == [quotes |-> FALSE, url |-> Nothing, bytes |-> 0, referer |-> Nothing]

MCFiles == <<"f1", "f2", "f3", "f4", "f5">>
MCContent == ("f1" :> <<L("u", 5, "v"), L("v", 0, Dash)>>)
          @@ ("f2" :> <<L("u", 3, "v"), L(Nothing, 2, "u")>>)
          @@ ("f3" :> <<Broken, L("v", -4, Nothing), L("u", 1, "x")>>)
          @@ ("f4" :> <<L("x", 9, "x")>>)
          @@ ("f5" :> <<L("x", 2, "v")>>)
MCHash == ("u" :> 0) @@ ("v" :> 0) @@ ("x" :> 1)
=============================================================================

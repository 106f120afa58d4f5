------------------------------ MODULE MCEngine ------------------------------
(* A chart with two files at the top and one in a subchart, and two templates *)
(* that they all define, with something in them or not.                       *)
EXTENDS Engine, TLC

MCFiles == {"top/a", "top/b", "sub/c"}
MCNames == MCFiles \cup {"d", "e", "gotpl"}
MCSlashes == ("top/a" :> 1) @@ ("top/b" :> 1) @@ ("sub/c" :> 3)
MCRank == ("top/a" :> 2) @@ ("top/b" :> 3) @@ ("sub/c" :> 1)
MCTrees == {"empty", "a", "b", "c", "t"}
MCDefines ==
    ("top/a" :> (("top/a" :> "a") @@ ("d" :> "empty") @@ ("e" :> "a"))) @@
    ("top/b" :> (("top/b" :> "b") @@ ("d" :> "b") @@ ("e" :> "b"))) @@
    ("sub/c" :> (("sub/c" :> "empty") @@ ("d" :> "c") @@ ("e" :> "empty")))
MCTplTexts == {"gotpl" :> "t", ("gotpl" :> "empty") @@ ("d" :> "t"), ("gotpl" :> "t") @@ ("d" :> "empty") @@ ("e" :> "t")}
=============================================================================

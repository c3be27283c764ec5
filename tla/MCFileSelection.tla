---------------------------- MODULE MCFileSelection ----------------------------
(***************************************************************************)
(* A small tree for FileSelection: directories d and d/e; files a, d/f,    *)
(* d/e/g and the hidden h; the rules of the root and of d, of which some   *)
(* ignore, some negate, some name a directory and some are wildcards.      *)
(***************************************************************************)
EXTENDS FileSelection

Hit(t) == [hits |-> {t}, negated |-> FALSE, dirOnly |-> FALSE]
HitDir(t) == [hits |-> {t}, negated |-> FALSE, dirOnly |-> TRUE]
Not(t) == [hits |-> {t}, negated |-> TRUE, dirOnly |-> FALSE]
NotDir(t) == [hits |-> {t}, negated |-> TRUE, dirOnly |-> TRUE]
Everything == [hits |-> {"/", "d", "e", "a", "f", "g", "h"}, negated |-> FALSE, dirOnly |-> FALSE]
EverythingOfD == [hits |-> {"d", "e", "f", "g"}, negated |-> FALSE, dirOnly |-> FALSE]

Lists(root, d) == [x \in {"/", "d", "e"} |-> CASE x = "/" -> root [] x = "d" -> d [] OTHER -> <<>>]
TreeAbove == [n \in {"/", "d", "e", "a", "f", "g", "h"} |->
    CASE n = "/" -> {} [] n \in {"d", "a", "h"} -> {"/"}
      [] n \in {"e", "f"} -> {"/", "d"} [] OTHER -> {"/", "d", "e"}]
TreeRules ==
    [git : {Lists(r, d) : r \in {<<>>, <<Hit("d")>>, <<HitDir("e")>>, <<Everything>>},
                          d \in {<<>>, <<Hit("f")>>, <<EverythingOfD>>}},
     grepai : {Lists(r, d) : r \in {<<>>, <<Not("f")>>, <<Hit("d"), Not("f")>>,
                                    <<HitDir("d"), NotDir("e")>>},
                             d \in {<<>>, <<Not("g")>>, <<Hit("e")>>, <<EverythingOfD, Not("f")>>}},
     extra : {{}, {"e"}}]
NoRules == [git |-> Lists(<<>>, <<>>), grepai |-> Lists(<<>>, <<>>), extra |-> {}]
================================================================================

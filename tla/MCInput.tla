-------------------------------- MODULE MCInput --------------------------------
(***************************************************************************)
(* The inputs of InputCheck for TLC.  The key "a " is cleaned to "a", and a  *)
(* key of backquotes to nothing; two fields and two claims are the most.     *)
(***************************************************************************)
EXTENDS InputCheck, TLC

Keys == {"claims", "stance", "a", "a ", "b", "fence"}

MCClean == [k \in Keys |-> IF k = "a " THEN "a" ELSE IF k = "fence" THEN Blank ELSE k]

MCSchema == {<<>>, <<"a">>, <<"a", "b">>, <<"claims">>, <<"fence">>}

Member(key, kind, items) == [key |-> key, kind |-> kind, items |-> items]

Item(form, blank, core) == [form |-> form, blank |-> blank, core |-> core]

Items == {Item("text", FALSE, TRUE), Item("object", FALSE, TRUE), Item("object", FALSE, FALSE),
          Item("object", TRUE, TRUE), Item("other", FALSE, FALSE)}

\* At most one member that lists claims; one list is too long.
ClaimsMembers ==
    {<<>>, <<Member("claims", "null", <<>>)>>, <<Member("claims", "text", <<>>)>>}
        \cup {<<Member("claims", "list", items)>> : items \in BoundedSeq(Items, 2)}
        \cup {<<Member("claims", "list", [i \in 1..3 |-> Item("other", FALSE, FALSE)])>>}

Fields ==
    {Member(k, kind, <<>>) : k \in Keys \ {"claims", "stance"},
        kind \in {"text", "blank", "object", "object of blanks"}}

FieldSequences ==
    {f \in BoundedSeq(Fields, 2) : \A i, j \in DOMAIN f : f[i].key = f[j].key => i = j}
        \cup {<<Member("a", "text", <<>>), Member("a ", "text", <<>>), Member("b", "text", <<>>)>>}

Stances == {<<>>, <<Member("stance", "refutation", <<>>)>>}

MCObject == {c \o f \o s : c \in ClaimsMembers, f \in FieldSequences, s \in Stances}

Tails(mark, chars) == {<<>>} \cup {<<mark>> \o s : s \in BoundedSeq(chars, 2)}

MCUrl ==
    [before : {<<>>, <<" ">>}, after : {<<>>, <<" ">>},
     scheme : {<<"HTTPS://">>, <<"http://">>},
     host : {<<"a">>, <<"A", "b">>},
     path : Tails("/", {"A", "/", " "}),
     query : Tails("?", {"A", "/", "?", " "}),
     fragment : {<<>>, <<"#">>, <<"#", " ">>, <<"#", "/", "?">>}]

=============================================================================

------------------------------ MODULE InputCheck -------------------------------
(***************************************************************************)
(* The parsing of a caller's input (module InputParsing) against what it     *)
(* promises, over every input built from small sets.  The reference looks at *)
(* the input only: at the members of an object that say something, at the    *)
(* parts a URL was put together from.                                       *)
(***************************************************************************)
EXTENDS InputParsing

CONSTANTS
    Schema,             \* schemas, as sequences of keys
    Object,             \* objects, as sequences of members
    Url                 \* URLs, as records of their parts

\* A JSON object has a key once.
WellFormedObject(object) ==
    /\ object \in Seq([key : STRING, kind : STRING,
                       items : Seq([form : {"text", "object", "other"},
                                    blank : BOOLEAN, core : BOOLEAN])])
    /\ \A i, j \in DOMAIN object : object[i].key = object[j].key => i = j

Without(text, marks) == \A i \in DOMAIN text : text[i] \notin marks

\* The parts of a URL are told apart by their marks; the host has no blank, the
\* other parts may.
WellFormedUrl(u) ==
    /\ {u.before, u.host, u.path, u.query, u.fragment, u.after} \subseteq Seq(STRING)
    /\ \A i \in DOMAIN u.before : u.before[i] = " "
    /\ \A i \in DOMAIN u.after : u.after[i] = " "
    /\ u.scheme \in {<<"https://">>, <<"HTTPS://">>, <<"http://">>, <<"HTTP://">>}
    /\ u.host # <<>> /\ Without(u.host, {" ", "/", "?", "#"})
    /\ Without(u.path, {"?", "#"}) /\ (u.path # <<>> => u.path[1] = "/")
    /\ Without(u.query, {"#"}) /\ (u.query # <<>> => u.query[1] = "?")
    /\ u.fragment # <<>> => u.fragment[1] = "#"

ASSUME InputAssumption ==
    /\ ClaimLimit \in Nat \ {0} /\ MaxJsonItems \in Nat
    /\ \A object \in Object : WellFormedObject(object)
    /\ \A u \in Url : WellFormedUrl(u)

VARIABLES
    input,              \* what is parsed, a schema with an object or a URL
    parsed

inputVars == <<input, parsed>>

NoInput == [kind |-> "none"]

InputInit == input = NoInput /\ parsed = <<>>

Text(u) == u.before \o u.scheme \o u.host \o u.path \o u.query \o u.fragment \o u.after

Submit ==
    /\ input = NoInput
    /\ \E schema \in {s \in Schema : SchemaAccepted(s)}, object \in Object :
           /\ input' = [kind |-> "claims", schema |-> schema, object |-> object]
           /\ parsed' = <<ParseClaims(object, ParseSchema(schema))>>

Register ==
    /\ input = NoInput
    /\ \E u \in Url :
           /\ input' = [kind |-> "url", parts |-> u]
           /\ parsed' = NormalizeUrl(Text(u))

InputNext == Submit \/ Register

InputSpec == InputInit /\ [][InputNext]_inputVars

-----------------------------------------------------------------------------
(* The reference                                                           *)

Says(m) == m.kind \notin {"null", "blank", "empty", "object of blanks"}

Named(name) == {m \in ToSet(input.object) : Clean[m.key] = name /\ m.key \notin {"claims", "stance"}}

\* The places of the claims that a caller lists and that say something.
Listed ==
    UNION {{i \in DOMAIN m.items : ~m.items[i].blank /\ m.items[i].form \in {"text", "object"}} :
              m \in ClaimsMember(input.object)}

CalledCore ==
    UNION {{i \in Listed : m.items[i].form = "object" /\ m.items[i].core} :
              m \in ClaimsMember(input.object)}

-----------------------------------------------------------------------------
(* Properties                                                              *)

\* An accepted interpretation has claims the adjudicator can tell apart, numbered
\* from 0 without a gap, of which one at least can disqualify it; they are
\* exactly the ones the caller listed and called core, or else a field each; and
\* every field the schema asks for says something.
ClaimsAsSubmitted ==
    input.kind = "claims" /\ parsed[1].ok =>
        LET claims == parsed[1].claims
            core == {i \in DOMAIN claims : claims[i].core}
        IN  /\ Len(claims) \in 1..ClaimLimit
            /\ \A i \in DOMAIN claims : claims[i].id = i - 1
            /\ IF Listed # {}
               THEN /\ {claims[i].item : i \in DOMAIN claims} = Listed
                    /\ \A i, j \in DOMAIN claims : i < j => claims[i].item < claims[j].item
                    /\ IF CalledCore # {} THEN {claims[i].item : i \in core} = CalledCore
                       ELSE core = {1}
               ELSE /\ core = {1}
                    /\ \A i, j \in DOMAIN claims : claims[i].field = claims[j].field => i = j
                    /\ \A i \in DOMAIN claims :
                           claims[i].field # Blank => \E m \in Named(claims[i].field) : Says(m)
            /\ \A name \in ParseSchema(input.schema) : \E m \in Named(name) : Says(m)

\* The text without the blanks at its end.
WithoutBlanks(text) ==
    LET last == SelectLastInSeq(text, LAMBDA c : c # " ") IN SubSeq(text, 1, last)

\* A source is named by what its URL is put together from: scheme and host in
\* lower case, path and query in theirs, without the last slashes of a path and
\* without the blanks around the URL; blanks before a fragment stay.  A name that
\* does not end in a blank is the one the source is looked up by, cited by and
\* shown under: normalizing it again changes nothing (_normalize_url).
UrlNamed ==
    input.kind = "url" =>
        LET u == input.parts
            tail == IF u.fragment = <<>> THEN WithoutBlanks(u.path \o u.query)
                    ELSE u.path \o u.query
        IN  /\ parsed = Lower(u.scheme) \o Lower(u.host)
                            \o (IF u.query = <<>> THEN WithoutSlashes(tail) ELSE tail)
            /\ parsed[Len(parsed)] # " " => NormalizeUrl(parsed) = parsed

\* "Canonical URL for uniqueness checks: trimmed, scheme and host lowercased,
\* fragment dropped, trailing slash removed from the path": the name of a source
\* is the name of that name.
UrlCanonical == input.kind = "url" => NormalizeUrl(parsed) = parsed

=============================================================================

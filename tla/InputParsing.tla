----------------------------- MODULE InputParsing ------------------------------
(***************************************************************************)
(* What a caller's text becomes before it is stored (src/contracts/          *)
(* Monocle.py): the schema of a MONOCLE, the structured claims of an          *)
(* interpretation and the URL of a source.  JSON is read already; the size   *)
(* limits of the raw text, the entities and the polarity of a claim and the  *)
(* phrases that are masked in a text are left out.                           *)
(***************************************************************************)
EXTENDS Integers, Sequences, FiniteSets, SequencesExt

CONSTANTS
    Clean,              \* per key of a JSON object: what _sanitize_input leaves of it
    MaxSchemaKeys,      \* MAX_SCHEMA_KEYS
    MaxJsonItems,       \* MAX_JSON_ITEMS
    ClaimLimit          \* MAX_CLAIMS_PER_INTERPRETATION

\* Nothing is left of a key.
Blank == ""

\* The first n of a sequence, or all of it.
First(s, n) == SubSeq(s, 1, IF Len(s) < n THEN Len(s) ELSE n)

\* The numbers of a finite set in order, and what a sequence has in such places.
InOrder(S) ==
    CHOOSE p \in [1..Cardinality(S) -> S] : \A m, n \in DOMAIN p : m < n => p[m] < p[n]

Selection(s, places) == LET p == InOrder(places) IN [n \in DOMAIN p |-> s[p[n]]]

-----------------------------------------------------------------------------
(* Schemas.  One is the sequence of its keys.                               *)

SchemaAccepted(schema) ==
    /\ Len(schema) <= MaxSchemaKeys
    /\ \A i \in DOMAIN schema : Clean[schema[i]] # Blank

\* _parse_schema
ParseSchema(schema) == {Clean[schema[i]] : i \in DOMAIN schema}

-----------------------------------------------------------------------------
(* Fields.  An object is the sequence of its members: a key, the kind of its *)
(* value and, for a list, its items.                                        *)

\* A value that counts as missing, and one that is no scalar.
Hollow == {"null", "blank", "empty"}
Container == {"object", "list", "empty"}

\* What sanitizing leaves of a value.
CleanKind(kind) == IF kind = "object of blanks" THEN "empty" ELSE kind

\* The members that become fields.
FieldMembers(object) ==
    LET raw == Selection(object, {i \in DOMAIN object : object[i].key \notin {"claims", "stance"}})
        kept == First(raw, MaxJsonItems)
    IN  Selection(kept, {i \in DOMAIN kept : Clean[kept[i].key] # Blank})

\* The names of the fields: keys that clean to one name make one field, in the
\* place of the first.
FieldNames(object) ==
    LET members == FieldMembers(object)
        new == {i \in DOMAIN members :
                   \A j \in 1..i - 1 : Clean[members[j].key] # Clean[members[i].key]}
        first == Selection(members, new)
    IN  [n \in DOMAIN first |-> Clean[first[n].key]]

\* The value of such a field is that of the last.
FieldKind(object, name) ==
    LET members == FieldMembers(object)
        i == SelectLastInSeq(members, LAMBDA m : Clean[m.key] = name)
    IN  IF i = 0 THEN "null" ELSE CleanKind(members[i].kind)

-----------------------------------------------------------------------------
(* Claims                                                                  *)

\* _normalize_claim makes a claim of this item.
Usable(item) == item.form # "other" /\ ~item.blank

\* Mutant: a claim is numbered by its place in the list.
NumberedByPlace(items) ==
    LET places == InOrder({i \in DOMAIN items : Usable(items[i])}) IN
    [n \in DOMAIN places |->
        [id |-> places[n] - 1, item |-> places[n], field |-> Blank,
         core |-> items[places[n]].form = "object" /\ items[places[n]].core]]

ListedClaims(items) ==
    LET places == InOrder({i \in DOMAIN items : Usable(items[i])}) IN
    [n \in DOMAIN places |->
        [id |-> n - 1, item |-> places[n], field |-> Blank,
         core |-> items[places[n]].form = "object" /\ items[places[n]].core]]

\* Every scalar field is a claim, "<name> = <value>".
FlatClaims(object) ==
    LET fields == FieldNames(object)
        scalar == {i \in DOMAIN fields : FieldKind(object, fields[i]) \notin Container \cup Hollow}
        names == First(Selection(fields, scalar), ClaimLimit)
    IN  [n \in DOMAIN names |-> [id |-> n - 1, item |-> 0, field |-> names[n], core |-> FALSE]]

ContentClaim == <<[id |-> 0, item |-> 0, field |-> Blank, core |-> FALSE]>>

\* Without a core claim the first is one.
WithCore(claims) ==
    IF claims = <<>> \/ \E i \in DOMAIN claims : claims[i].core THEN claims
    ELSE [claims EXCEPT ![1].core = TRUE]

Refused == [ok |-> FALSE, claims |-> <<>>, stance |-> "assertion"]

\* The member that lists the claims, unless there is none or it is null.
ClaimsMember(object) == {m \in ToSet(object) : m.key = "claims" /\ m.kind # "null"}

Stance(object) ==
    IF \E m \in ToSet(object) : m.key = "stance" /\ m.kind = "refutation" THEN "refutation"
    ELSE "assertion"

\* _parse_claims; content is what the claim is when nothing else is one.
ParseClaims(object, schema) ==
    LET listed == UNION {{ListedClaims(m.items)} : m \in ClaimsMember(object)}
        flat == FlatClaims(object)
        claims == IF listed # {} THEN CHOOSE c \in listed : TRUE
                  ELSE IF flat = <<>> THEN ContentClaim ELSE flat
        badList == \E m \in ClaimsMember(object) : m.kind # "list" \/ Len(m.items) > ClaimLimit
        missing == {name \in schema : FieldKind(object, name) \in Hollow}
    IN  IF badList \/ claims = <<>> \/ missing # {} THEN Refused
        ELSE [ok |-> TRUE, claims |-> WithCore(claims), stance |-> Stance(object)]

-----------------------------------------------------------------------------
(* URLs.  A text is a sequence of characters; the scheme, in any case, is    *)
(* one, and a letter stands for any text without a mark of a URL.            *)

Lower(text) ==
    [i \in DOMAIN text |->
        CASE text[i] = "HTTPS://" -> "https://"
          [] text[i] = "HTTP://" -> "http://"
          [] text[i] = "A" -> "a"
          [] OTHER -> text[i]]

Strip(text) ==
    LET solid == {i \in DOMAIN text : text[i] # " "} IN
    IF solid = {} THEN <<>> ELSE SubSeq(text, Min(solid), Max(solid))

\* The part before the first of some marks, and the rest.
UpTo(text, marks) ==
    LET i == SelectInSeq(text, LAMBDA c : c \in marks) IN
    IF i = 0 THEN text ELSE SubSeq(text, 1, i - 1)

From(text, marks) == SubSeq(text, Len(UpTo(text, marks)) + 1, Len(text))

WithoutSlashes(text) ==
    LET last == SelectLastInSeq(text, LAMBDA c : c # "/") IN SubSeq(text, 1, last)

\* Mutant: only a path ends the host.
EndsHostPathOnly == {"/"}

EndsHost == {"/", "?"}

\* _normalize_url; nothing when it is none.
NormalizeUrl(text) ==
    LET url == Strip(text)
        scheme == Lower(First(url, 1))
        rest == UpTo(SubSeq(url, 2, Len(url)), {"#"})
        host == Lower(UpTo(rest, EndsHost))
        tail == From(rest, EndsHost)
    IN  IF scheme \notin {<<"https://">>, <<"http://">>} \/ host = <<>> \/ Contains(host, " ")
        THEN <<>>
        ELSE scheme \o host \o (IF Contains(tail, "?") THEN tail ELSE WithoutSlashes(tail))

=============================================================================

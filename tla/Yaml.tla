-------------------------------- MODULE Yaml --------------------------------
(***************************************************************************)
(* libyaml's scanner (external), as config.c uses it: the tokens of a file *)
(* of block mappings and block sequences with scalars as keys.             *)
(***************************************************************************)
EXTENDS Sequences, SequencesExt

CONSTANTS
    NamesIn(_),   \* the keys a file has below a key, "" for the file itself
    TextsOf(_),   \* the texts it has below a key
    MaxItems,     \* bound: keys and entries of a file
    MaxOpen       \* bound: nested collections

ASSUME YamlAssumption == MaxItems \in Nat /\ MaxOpen \in Nat

VARIABLES
    open,     \* the collections the scanner is in, the innermost last
    items,    \* keys and entries so far
    token     \* the last token scanned

yamlVars == <<open, items, token>>

NoText == [word |-> "", int |-> 0, num |-> 0]
Token(type) == [type |-> type, text |-> NoText]
Scalar(text) == [type |-> "SCALAR", text |-> text]

\* A collection, what comes next in it, and the key it belongs to
Collection(coll, at, name) == [coll |-> coll, at |-> at, name |-> name]

YamlInit ==
    /\ open = <<Collection("stream", "start", "")>>
    /\ items = 0
    /\ token = Token("NO")

Inner == Last(open)
Goes(at) == open' = Front(open) \o <<[Inner EXCEPT !.at = at]>>

\* Where a collection goes on after a node
AfterNode(coll) ==
    CASE coll = "stream" -> "end" [] coll = "mapping" -> "key"
      [] coll = "sequence" -> "entry"

\* A node may be missing: then the token after it comes at once
Behind(at) == Inner.at \in {at, "node"}

StreamStart ==
    /\ Inner.at = "start" /\ Goes("node")
    /\ token' = Token("STREAM_START") /\ UNCHANGED items

Key ==
    /\ Inner.coll = "mapping" /\ (Behind("key") \/ Inner.at = "first")
    /\ items < MaxItems /\ items' = items + 1
    /\ Goes("name") /\ token' = Token("KEY")

Name ==
    /\ Inner.at = "name"
    /\ \E name \in NamesIn(open[Len(open) - 1].name) :
           /\ token' = Scalar([word |-> name, int |-> 0, num |-> 0])
           /\ open' = Front(open) \o <<Collection("mapping", "value", name)>>
    /\ UNCHANGED items

Value ==
    /\ Inner.at = "value" /\ Goes("node")
    /\ token' = Token("VALUE") /\ UNCHANGED items

Entry ==
    /\ Inner.coll = "sequence" /\ (Behind("entry") \/ Inner.at = "first")
    /\ items < MaxItems /\ items' = items + 1
    /\ Goes("node") /\ token' = Token("BLOCK_ENTRY")

ScalarNode ==
    /\ Inner.at = "node" /\ Goes(AfterNode(Inner.coll))
    /\ \E text \in TextsOf(Inner.name) : token' = Scalar(text)
    /\ UNCHANGED items

Starts(coll, type) ==
    /\ Inner.at = "node" /\ Len(open) <= MaxOpen /\ items < MaxItems
    /\ open' = Front(open) \o <<[Inner EXCEPT !.at = AfterNode(Inner.coll)],
                                Collection(coll, "first", Inner.name)>>
    /\ token' = Token(type) /\ UNCHANGED items

BlockEnd ==
    /\ \/ Inner.coll = "mapping" /\ Behind("key")
       \/ Inner.coll = "sequence" /\ Behind("entry")
    /\ open' = Front(open)
    /\ token' = Token("BLOCK_END") /\ UNCHANGED items

StreamEnd ==
    /\ Inner.coll = "stream" /\ Behind("end") /\ Goes("over")
    /\ token' = Token("STREAM_END") /\ UNCHANGED items

\* yaml_parser_scan() after the end of the file
NoToken ==
    Inner.at = "over" /\ token' = Token("NO") /\ UNCHANGED <<open, items>>

Scan ==
    \/ StreamStart \/ Key \/ Name \/ Value
    \/ Entry \/ ScalarNode
    \/ Starts("mapping", "BLOCK_MAPPING_START")
    \/ Starts("sequence", "BLOCK_SEQUENCE_START")
    \/ BlockEnd \/ StreamEnd \/ NoToken
=============================================================================

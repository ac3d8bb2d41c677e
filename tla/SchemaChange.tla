---------------------------- MODULE SchemaChange ----------------------------
(* What the GraphQL and the Protobuf engine of radar-core share: changes,  *)
(* and the maps by name they compare.  Changes are a set: the engines walk *)
(* hash maps, in no order.                                                 *)
EXTENDS Integers, SequencesExt

Change(path, kind, severity) == [path |-> path, kind |-> kind, severity |-> severity]

Breaking(changes) == {c \in changes : c.severity = "breaking"}

\* The map by name the code collects: the last of a name stays.
ByName(seq) ==
    [n \in {seq[i].name : i \in DOMAIN seq} |->
        seq[CHOOSE i \in DOMAIN seq : seq[i].name = n /\ \A j \in i + 1 .. Len(seq) : seq[j].name # n]]
=============================================================================

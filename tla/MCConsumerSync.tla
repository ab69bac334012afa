--------------------------- MODULE MCConsumerSync ---------------------------
(* Small instances of ConsumerSync for TLC.                                *)
EXTENDS ConsumerSync

Leo == [ns |-> "ns1", name |-> "leo"]
Amy == [ns |-> "ns1", name |-> "amy"]
LeoElsewhere == [ns |-> "ns2", name |-> "leo"]

Wants(name, creds, valid, loads) ==
  [name |-> name, creds |-> creds, valid |-> valid, loads |-> loads]
K1 == Wants("", {"k1"}, TRUE, TRUE)
K2 == Wants("", {"k2"}, TRUE, TRUE)
Unloadable == Wants("", {"k2"}, TRUE, FALSE)
AsLeo == Wants("leo", {"k1"}, TRUE, TRUE)
Both == Wants("", {"k1", "k2"}, TRUE, TRUE)
Refused == Wants("", {"k2"}, FALSE, TRUE)

MCConsumers == {Leo, Amy, LeoElsewhere}
MCSpecsOf == [r \in MCConsumers |-> CASE r = Leo -> {K1, Unloadable}
                                      [] r = Amy -> {AsLeo, Both, Refused}
                                      [] r = LeoElsewhere -> {K1, K2}]

(* One resource made anew or changed; two that may claim one name; a        *)
(* namesake in another namespace.                                          *)
Budget(leo, amy, elsewhere) ==
  [r \in MCConsumers |-> CASE r = Leo -> leo [] r = Amy -> amy [] r = LeoElsewhere -> elsewhere]
MCBudgets == {Budget(3, 0, 0), Budget(2, 1, 0), Budget(1, 2, 0), Budget(1, 0, 2)}
=============================================================================

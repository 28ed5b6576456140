--------------------------- MODULE BundleRegistry ----------------------------
(***************************************************************************)
(* What docs/FWB_FORMAT.md (sections 7 and 8) and docs/API.md promise of   *)
(* the registry of firmware bundles and its audit trail: the seed is       *)
(* loaded once, into an empty registry; after that a bundle is published   *)
(* only when it is newer than every published bundle of its name, nothing  *)
(* is ever withdrawn, and a PUBLISH record is written once, for a bundle   *)
(* that is published.                                                      *)
(***************************************************************************)
EXTENDS Integers, Sequences

CONSTANTS
    Seed,       \* the rows of registry_seed.sql
    Offered     \* the rows that uploads may add

VARIABLES
    bundles,    \* published rows: name, version, blob
    audit       \* keys of the PUBLISH records, in the order written

KeyOf(row) == <<row.name, row.version>>

Init == bundles = {} /\ audit = <<>>

LoadSeed ==
    /\ bundles = {}
    /\ bundles' = Seed
    /\ UNCHANGED audit

Publish(row) ==
    /\ \A other \in bundles : other.name = row.name => other.version < row.version
    /\ bundles' = bundles \cup {row}
    /\ UNCHANGED audit

Record(row) ==
    /\ row \in bundles
    /\ \A k \in DOMAIN audit : audit[k] # KeyOf(row)
    /\ audit' = Append(audit, KeyOf(row))
    /\ UNCHANGED bundles

Next == LoadSeed \/ \E row \in Offered : Publish(row) \/ Record(row)

Spec == Init /\ [][Next]_<<bundles, audit>>

=============================================================================

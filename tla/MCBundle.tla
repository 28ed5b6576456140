------------------------------ MODULE MCBundle -------------------------------
(***************************************************************************)
(* Two names.  Of "gw" version 3 comes with the seed, version 4 in two     *)
(* builds with different files, 5 is revoked, 6 is newer and 2 is older.   *)
(* Of "relay" there is a bundle whose signature is wrong and two genuine   *)
(* ones.                                                                   *)
(***************************************************************************)
EXTENDS BundleProperties, TLC

CONSTANTS r1, r2, seeded

B(n, v, fs, ok) == [name |-> n, version |-> v, files |-> fs, genuine |-> ok]

MCBundle ==
    [gw2 |-> B("gw", 2, {1}, TRUE),
     gw4 |-> B("gw", 4, {1, 2}, TRUE), gw4b |-> B("gw", 4, {2, 3}, TRUE),
     gw5 |-> B("gw", 5, {1}, TRUE), gw6 |-> B("gw", 6, {1}, TRUE),
     relay1 |-> B("relay", 1, {1}, TRUE), relay2 |-> B("relay", 2, {1}, FALSE)]

MCSeedRows == {[name |-> "gw", version |-> 3, blob |-> seeded]}

MCRevoked == {<<"gw", 5>>}

(* Each thread handles the uploads of one name. *)
MCUploads ==
    (r1 :> {"gw2", "gw4", "gw4b", "gw5"}) @@ (r2 :> {"relay1", "relay2"})

(* Two threads handle uploads of one name. *)
MCOverlapUploads == (r1 :> {"gw4"}) @@ (r2 :> {"gw6"})

=============================================================================

----------------------------- MODULE AddressGap -----------------------------
(***************************************************************************)
(* What generateAddresses (src/db/index.ts) computes from the used indexes *)
(* of a wallet: the addresses are looked up in blocks of Gap indexes until *)
(* the blocks cover Gap indexes after the last used one.  Module GapScan   *)
(* is the loop; these are its results.                                     *)
(***************************************************************************)
EXTENDS Integers, FiniteSets, FiniteSetsExt

CONSTANT Gap   \* max_gap of the wallet

ASSUME GapAssumption == Gap \in Nat \ {0}

\* The last used index among those up to h, -1 when none is used.
LastUsedUpTo(used, h) == Max({i \in used : i <= h} \cup {-1})

\* No further block is looked up once Gap indexes follow the last used one.
Covered(used, h) == LastUsedUpTo(used, h) + Gap <= h

Checked(used) ==
    LET bounds == {k * Gap - 1 : k \in 1..(Cardinality(used) + 2)}
    IN Min({h \in bounds : Covered(used, h)})

LastUsedIndex(used) == LastUsedUpTo(used, Checked(used))

\* "addresses": all the wallet needs, Gap of them after the last used one.
Addresses(used) == 0..(LastUsedIndex(used) + Gap)

\* Mutant: the filter of the addresses past the gap is dropped.
UnfilteredAddresses(used, rows) == (0..Checked(used)) \ rows

\* "newAddresses": the needed ones without a row in the address table.
NewAddresses(used, rows) == Addresses(used) \ rows

\* "existingAddresses": every row met in the blocks looked up.
ExistingAddresses(used, rows) == rows \cap (0..Checked(used))
=============================================================================

--------------------------- MODULE MCCratesStatic ---------------------------
(* Small instances of CratesStatic for TLC. *)
EXTENDS CratesStatic, TLC

CONSTANTS r1, r2

Name    == Text("serde")
Version == Text("1")
Crate   == CrateFile(Name, Version)

\* A download in its old and new spelling, and URLs without an object.
AllUrls == {<< Text("crates"), Name, Version, Text("download") >>, Crate}
AllKeys == {Crate}

\* The file carries the tag of the crate.
CrateTag == [k \in AllKeys |-> {"crate"}]

=============================================================================

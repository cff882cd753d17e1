-------------------------- MODULE MCH26xFragments --------------------------
EXTENDS H26xFragments

\* With a payload of 8 bytes: two fragments (one byte too many for one packet), three
\* fragments, an aggregation packet, and a packet that is just full.
Nal(size) == [size |-> size, type |-> "inter"]
FourUnits == << <<Nal(9)>>, <<Nal(14)>>, <<Nal(1), Nal(1)>>, <<Nal(8)>> >>
=============================================================================

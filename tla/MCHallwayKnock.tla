--------------------------- MODULE MCHallwayKnock ---------------------------
EXTENDS HallwayKnock

CONSTANTS A, B, a, b1, b2, m1, m2, m3

\* Two rooms, one session in A and two in B, and a thread of messages between
\* them that alternate.
MCRoomOf    == [c \in Caller |-> IF c = a THEN A ELSE B]
MCSessionOf == [c \in Caller |-> c]
\* b2's session sits in both rooms.
MCShared    == [c \in Caller |-> IF c = b1 THEN b1 ELSE a]
MCAuthor    == [m \in Message |-> IF m = m2 THEN b1 ELSE a]
MCAddressed == [m \in Message |-> IF m = m2 THEN {A} ELSE {B}]
MCContinues == [m \in Message |-> IF m = m1 THEN None ELSE IF m = m2 THEN m1 ELSE m2]

Listing(r, n) == [mode |-> "allow_list", rooms |-> r, max |-> n]
Open       == {Listing({A, B}, 2)}
OpenOrShut == {[mode |-> "manual", rooms |-> {}, max |-> 1], Listing({A, B}, 1)}
AnyPolicy == Open \cup OpenOrShut
Ceilings   == {Listing({A, B}, 1), Listing({A, B}, 2)}
=============================================================================

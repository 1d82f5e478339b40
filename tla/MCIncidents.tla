---------------------------- MODULE MCIncidents ----------------------------
(***************************************************************************)
(* Incidents for TLC: bodies that differ in what validation, the statement *)
(* and the scan tell apart.  One degree of latitude and two of longitude   *)
(* are the whole Earth; 3 is too large for an INTEGER.                     *)
(***************************************************************************)
EXTENDS Incidents, TLC

SomeTitles == {"", " ", "a", "b", "nul"}
WithNul == {"nul"}
SomeUsers == {"", " ", "u", "nul"}
SomeDescriptions == {"", "d", "nul"}
AnyPages == {[limit |-> -1, offset |-> 0], [limit |-> 1, offset |-> -1]}
TwoIds == {1, 2}

AllPoints == [lat : -2..2, lon : -3..3]
AllRadii == -1..3

At(lat, lon) == [lat |-> lat, lon |-> lon]
CreateWith(title, description, center, radius) ==
  [title |-> title, description |-> description, center |-> center, radius |-> radius]
UpdateWith(title, description, center, radius) ==
  [title |-> title, description |-> description, center |-> center, radius |-> radius]
CheckWith(user, location, limit) == [user |-> user, location |-> location, limit |-> limit]

(* Bodies that pass validation. *)
GoodCreates == {CreateWith("a", "", At(1, 2), 1)}
GoodChecks == {CheckWith("u", At(1, 2), 2)}
GoodIds == {1, 2}

(* Bodies of all kinds. *)
AllCreates ==
  {CreateWith("a", "d", At(1, 2), 2), CreateWith("b", "", At(1, 1), 1),
   CreateWith(" ", "d", At(1, 2), 1), CreateWith("a", "d", At(2, 2), 1),
   CreateWith("a", "d", At(1, 2), -1), CreateWith("a", "d", At(1, 2), 3),
   CreateWith("nul", "d", At(1, 2), 1)}
AllUpdates ==
  {UpdateWith({}, {}, {}, {}), UpdateWith({"b"}, {}, {At(-1, 1)}, {}), UpdateWith({}, {"d"}, {}, {2}),
   UpdateWith({}, {""}, {At(1, 2)}, {1}),
   UpdateWith({" "}, {}, {}, {}), UpdateWith({}, {}, {At(1, 3)}, {}),
   UpdateWith({}, {}, {}, {0}), UpdateWith({}, {}, {}, {3}), UpdateWith({}, {"nul"}, {}, {})}
AllChecks ==
  {CheckWith("u", At(1, 2), 1), CheckWith("u", At(1, 2), 0), CheckWith(" ", At(1, 2), 1),
   CheckWith("u", At(1, 2), 9), CheckWith("u", At(-2, 2), 1),
   CheckWith("nul", At(1, 2), 1)}
AllIds == {0, 1, 3}

(* The place where the equator meets the Greenwich meridian. *)
ZeroCreates == {CreateWith("a", "d", At(0, 0), 1)} \cup GoodCreates

RequestSymmetry == Permutations(Requests)
=============================================================================

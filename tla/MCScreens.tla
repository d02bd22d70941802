------------------------------ MODULE MCScreens ------------------------------
(* Every page of the web client and every screen of the mobile app modelled. *)
EXTENDS Screens

\* The statuses of rows are cut down to one for each set of buttons offered,
\* and for the administrators' actions, which are alike, to two.
Few(p, statuses) == [p EXCEPT !.statuses = statuses]

AllPages ==
  ((UserPages \cup StaffOnlyPages \cup MobileScreens)
     \ {UsersPage, ConfirmedUsersPage, AdsAdminPage})
    \cup {Few(UsersPage, {"FREE", "ACTIVATED"}), Few(ConfirmedUsersPage, {"FREE"}),
          Few(AdsAdminPage, {"PENDING", "ACTIVE"})}

Symmetry == Permutations(Item) \cup Permutations(Query)
=============================================================================

------------------------------ MODULE Accounts ------------------------------
(***************************************************************************)
(* The users of the apps (table `users`).                                  *)
(***************************************************************************)

CONSTANTS
    Users,
    Nobody          \* no user: null where a user could be

ASSUME UsersAssumption == Nobody \notin Users
=============================================================================

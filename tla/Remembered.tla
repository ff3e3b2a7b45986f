----------------------------- MODULE Remembered -----------------------------
(***************************************************************************)
(* What a session promises, however many copies of the user it keeps: one  *)
(* decision, to be signed in or not, that is written to disk some time     *)
(* later and that a death puts back to what the disk has.  It is taken     *)
(* back before it is taken again.                                          *)
(***************************************************************************)
VARIABLES
    signedIn,   \* what the app goes by
    stored      \* what the next launch will go by

Init == signedIn = FALSE /\ stored = FALSE

SignIn == ~signedIn /\ signedIn' = TRUE /\ stored' = stored

LogOut == signedIn /\ signedIn' = FALSE /\ stored' = stored

WriteBack == stored' = signedIn /\ signedIn' = signedIn

Restart == signedIn' = stored /\ stored' = stored

Next == SignIn \/ LogOut \/ WriteBack \/ Restart

Spec == Init /\ [][Next]_<<signedIn, stored>>

=============================================================================

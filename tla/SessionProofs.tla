--------------------------- MODULE SessionProofs ---------------------------
(***************************************************************************)
(* Theorems about Session for every set of accounts and every number of    *)
(* relaunches.  The three properties lean on how the three copies of the   *)
(* identity and the two screens that depend on it go together.             *)
(***************************************************************************)
EXTENDS Session, TLAPS

\* The sign-in screen is only up while nobody is signed in.
AuthWhileSignedOut == presented = "auth" => currentUser = Nil

\* While the delegate call is outstanding the sign-in screen is up, and Auth
\* has not moved on to another account.
CallPending ==
    signingIn # Nil => presented = "auth" /\ authUser \in {signingIn, Nil}

\* User.currentUser exists exactly when its archive does.
CachedAgrees == (currentUser # Nil) = (defaults # Nil)

\* The inductive invariant.
SessionInv ==
    /\ TypeOK
    /\ AuthWhileSignedOut
    /\ CallPending
    /\ CachedAgrees
    /\ SettingsNeedsUser
    /\ IdentityNeverMixed
    /\ DecisionSurvives

\* What an archive holds is a user, and a user is not nil.
LEMMA ArchivedTyped ==
    ASSUME NEW user PROVE Archived(user) \in User /\ Archived(user) # Nil
BY SessionAssumption DEF Archived, User

\* Every step keeps the types.
LEMMA TypeOKStep == TypeOK /\ [Next]_vars => TypeOK'
<1> SUFFICES ASSUME TypeOK, [Next]_vars PROVE TypeOK'
  OBVIOUS
<1> USE DEF TypeOK
<1>1. ASSUME ToSettings PROVE TypeOK'
  BY <1>1 DEF ToSettings
<1>2. ASSUME ToCreatePost PROVE TypeOK'
  BY <1>2 DEF ToCreatePost
<1>3. ASSUME ToPostDetails \/ DismissAlert \/ Back \/ Post PROVE TypeOK'
  BY <1>3 DEF ToPostDetails, DismissAlert, Back, Post
<1>4. ASSUME NEW uid \in Uids, AuthSignsIn(uid) PROVE TypeOK'
  BY <1>4 DEF AuthSignsIn
<1>5. ASSUME NEW email \in Uids \cup {Nil}, DidSignIn(email) PROVE TypeOK'
  <2>1. currentUser' \in User
    BY <1>5 DEF DidSignIn, ArchiveCurrentUser, User
  <2>2. defaults' \in User /\ users' \in Uids
    BY <1>5, ArchivedTyped DEF DidSignIn, ArchiveCurrentUser
  <2> QED
    BY <1>5, <2>1, <2>2 DEF DidSignIn, ArchiveCurrentUser
<1>6. ASSUME DidNotSignIn \/ LogOutFails \/ LogOut \/ AuthRevokes \/ Flush PROVE TypeOK'
  BY <1>6 DEF DidNotSignIn, LogOutFails, LogOut, LogOutCurrentUser,
              AuthRevokes, Flush, vars
<1>7. ASSUME Relaunch PROVE TypeOK'
  BY <1>7, ArchivedTyped, SessionAssumption DEF Relaunch, UnarchiveCurrentUser
<1>8. ASSUME UNCHANGED vars PROVE TypeOK'
  BY <1>8 DEF vars
<1> QED
  BY <1>1, <1>2, <1>3, <1>4, <1>5, <1>6, <1>7, <1>8 DEF Next

\* Every step keeps the inductive invariant.
LEMMA SessionInvStep == SessionInv /\ [Next]_vars => SessionInv'
<1> SUFFICES ASSUME SessionInv, [Next]_vars PROVE SessionInv'
  OBVIOUS
<1> DEFINE Rest == /\ AuthWhileSignedOut /\ CallPending /\ CachedAgrees
                   /\ SettingsNeedsUser /\ IdentityNeverMixed /\ DecisionSurvives
<1>0. TypeOK'
  BY TypeOKStep DEF SessionInv
<1> USE DEF SessionInv, AuthWhileSignedOut, CallPending, CachedAgrees,
            SettingsNeedsUser, IdentityNeverMixed, DecisionSurvives
<1>1. ASSUME ToSettings PROVE Rest'
  BY <1>1 DEF ToSettings, OnFeed
<1>2. ASSUME ToCreatePost PROVE Rest'
  BY <1>2 DEF ToCreatePost, OnFeed
<1>3. ASSUME ToPostDetails PROVE Rest'
  BY <1>3 DEF ToPostDetails, OnFeed
<1>4. ASSUME DismissAlert PROVE Rest'
  BY <1>4 DEF DismissAlert
<1>5. ASSUME Back PROVE Rest'
  BY <1>5 DEF Back
<1>6. ASSUME Post PROVE Rest'
  BY <1>6 DEF Post
<1>7. ASSUME NEW uid \in Uids, AuthSignsIn(uid) PROVE Rest'
  BY <1>7 DEF AuthSignsIn
<1>8. ASSUME NEW email \in Uids \cup {Nil}, DidSignIn(email) PROVE Rest'
  <2>1. currentUser' \in User /\ currentUser' # Nil /\ currentUser'.uid = signingIn
    BY <1>8, SessionAssumption DEF DidSignIn, ArchiveCurrentUser, TypeOK, User
  <2>2. defaults' # Nil
    BY <1>8, ArchivedTyped DEF DidSignIn, ArchiveCurrentUser
  <2>3. authUser' \in {currentUser'.uid, Nil}
    BY <1>8, <2>1 DEF DidSignIn, ArchiveCurrentUser
  <2> QED
    BY <1>8, <2>1, <2>2, <2>3 DEF DidSignIn, ArchiveCurrentUser
<1>9. ASSUME DidNotSignIn PROVE Rest'
  BY <1>9 DEF DidNotSignIn
<1>10. ASSUME LogOutFails PROVE Rest'
  BY <1>10 DEF LogOutFails, vars
<1>11. ASSUME LogOut PROVE Rest'
  BY <1>11 DEF LogOut, LogOutCurrentUser
<1>12. ASSUME AuthRevokes PROVE Rest'
  BY <1>12 DEF AuthRevokes
<1>13. ASSUME Flush PROVE Rest'
  BY <1>13 DEF Flush
<1>14. ASSUME Relaunch PROVE Rest'
  <2>1. (currentUser' # Nil) = (disk # Nil)
    BY <1>14, ArchivedTyped DEF Relaunch, UnarchiveCurrentUser
  <2>2. currentUser' # Nil => currentUser'.uid = Nil
    BY <1>14 DEF Relaunch, UnarchiveCurrentUser, Archived
  <2> QED
    BY <1>14, <2>1, <2>2 DEF Relaunch, UnarchiveCurrentUser, TypeOK
<1>15. ASSUME UNCHANGED vars PROVE Rest'
  BY <1>15 DEF vars
<1>16. Rest'
  BY <1>1, <1>2, <1>3, <1>4, <1>5, <1>6, <1>7, <1>8, <1>9, <1>10, <1>11, <1>12,
     <1>13, <1>14, <1>15 DEF Next
<1> QED
  BY <1>0, <1>16

\* The inductive invariant holds in every behaviour, crashes included.
THEOREM SessionSafety == Spec => []SessionInv
<1>1. ASSUME Init PROVE SessionInv
  <2>1. TypeOK
    <3>1. deaths \in 0..MaxDeaths
      BY <1>1, SessionAssumption DEF Init
    <3> QED
      BY <1>1, <3>1 DEF Init, TypeOK
  <2>2. AuthWhileSignedOut /\ CallPending /\ SettingsNeedsUser /\ IdentityNeverMixed
    BY <1>1 DEF Init, AuthWhileSignedOut, CallPending, SettingsNeedsUser, IdentityNeverMixed
  <2>3. CachedAgrees /\ DecisionSurvives
    BY <1>1, Zenon DEF Init, CachedAgrees, DecisionSurvives
  <2> QED
    BY <2>1, <2>2, <2>3 DEF SessionInv
<1> QED
  BY <1>1, SessionInvStep, PTL DEF Spec

\* The settings are never on screen without a user.
THEOREM SettingsOnlySignedIn == Spec => []SettingsNeedsUser
<1>1. SessionInv => SettingsNeedsUser
  BY DEF SessionInv
<1> QED
  BY <1>1, SessionSafety, PTL

\* The app and Auth never stand for two different accounts.
THEOREM OneIdentity == Spec => []IdentityNeverMixed
<1>1. SessionInv => IdentityNeverMixed
  BY DEF SessionInv
<1> QED
  BY <1>1, SessionSafety, PTL

\* A sign-in or a log-out that reached the disk is what every launch goes by.
THEOREM DecisionsSurvive == Spec => []DecisionSurvives
<1>1. SessionInv => DecisionSurvives
  BY DEF SessionInv
<1> QED
  BY <1>1, SessionSafety, PTL

\* The copies of the identity and the screens are well typed, whichever of them a
\* death restores.
THEOREM SessionTyping == Spec => []TypeOK
<1>1. SessionInv => TypeOK
  BY DEF SessionInv
<1> QED
  BY <1>1, SessionSafety, PTL

\* Every event is one move of the remembered decision, or none at all.
LEMMA StepDecides ==
    ASSUME SessionInv, [Next]_vars
    PROVE  [Decision!Next]_<<currentUser # Nil, disk # Nil>>
<1> DEFINE S == currentUser # Nil
<1> DEFINE D == disk # Nil
<1> SUFFICES [Decision!Next]_<<S, D>>
  OBVIOUS
<1>1. CASE /\ UNCHANGED <<currentUser, disk>>
  BY <1>1
<1>2. ASSUME NEW email \in Uids \cup {Nil}, DidSignIn(email) PROVE Decision!SignIn
  <2>1. ~S
    BY <1>2 DEF DidSignIn, SessionInv, AuthWhileSignedOut
  <2>2. currentUser' \in User /\ disk' = disk
    BY <1>2 DEF DidSignIn, SessionInv, TypeOK, User
  <2>3. S' = TRUE
    BY <2>2, SessionAssumption
  <2>4. D' = D
    BY <2>2
  <2> QED
    BY <2>1, <2>3, <2>4, Zenon DEF Decision!SignIn
<1>3. ASSUME LogOut PROVE Decision!LogOut
  <2>1. S
    BY <1>3 DEF LogOut, SessionInv, SettingsNeedsUser
  <2>2. S' = FALSE /\ D' = D
    BY <1>3 DEF LogOut, LogOutCurrentUser
  <2> QED
    BY <2>1, <2>2, Zenon DEF Decision!LogOut
<1>4. ASSUME Flush PROVE Decision!WriteBack
  <2>1. D' = (defaults # Nil) /\ S' = S
    BY <1>4 DEF Flush
  <2>2. D' = S
    BY <2>1 DEF SessionInv, CachedAgrees
  <2> QED
    BY <2>1, <2>2, Zenon DEF Decision!WriteBack
<1>5. ASSUME Relaunch PROVE Decision!Restart
  <2>1. S' = D
    BY <1>5, ArchivedTyped DEF Relaunch, UnarchiveCurrentUser
  <2>2. D' = D
    BY <1>5 DEF Relaunch
  <2> QED
    BY <2>1, <2>2, Zenon DEF Decision!Restart
<1>6. ASSUME ToSettings \/ ToCreatePost \/ ToPostDetails \/ DismissAlert \/ Back \/ Post
      PROVE  UNCHANGED <<currentUser, disk>>
  BY <1>6 DEF ToSettings, ToCreatePost, ToPostDetails, DismissAlert, Back, Post
<1>7. ASSUME DidNotSignIn \/ LogOutFails \/ AuthRevokes
      PROVE  UNCHANGED <<currentUser, disk>>
  BY <1>7 DEF DidNotSignIn, LogOutFails, AuthRevokes, vars
<1>8. ASSUME NEW uid \in Uids, AuthSignsIn(uid) PROVE UNCHANGED <<currentUser, disk>>
  BY <1>8 DEF AuthSignsIn
<1>9. ASSUME UNCHANGED vars PROVE UNCHANGED <<currentUser, disk>>
  BY <1>9 DEF vars
<1> QED
  BY <1>1, <1>2, <1>3, <1>4, <1>5, <1>6, <1>7, <1>8, <1>9, Zenon
     DEF Next, Decision!Next

\* The four copies of the identity are one remembered decision.
THEOREM SessionIsRemembered == Spec => IsRemembered
<1>1. ASSUME Init PROVE Decision!Init
  BY <1>1 DEF Init, Decision!Init
<1>2. SessionInv /\ [Next]_vars => [Decision!Next]_<<currentUser # Nil, disk # Nil>>
  BY StepDecides
<1> QED
  BY <1>1, <1>2, SessionSafety, PTL DEF Spec, IsRemembered, Decision!Spec


=============================================================================

------------------------------ MODULE Session ------------------------------
(***************************************************************************)
(* Who is signed in, and which screen that lets the user reach.            *)
(*                                                                         *)
(* Identity is kept in three places the app updates one after the other:   *)
(* Firebase Auth's keychain, the static User.currentUser, and an archive   *)
(* in UserDefaults that a later launch restores currentUser from.  The     *)
(* process can die between any two events, and UserDefaults reaches the    *)
(* disk some time after the call that changed it.                          *)
(*                                                                         *)
(* The feed is always at the bottom of the navigation stack and every      *)
(* other screen is only pushed from it, so the stack is its top screen.    *)
(***************************************************************************)
EXTENDS Naturals

CONSTANTS
    Uids,       \* the accounts
    Nil,        \* an optional without a value
    MaxDeaths   \* bound: how often the process dies

\* The properties of a User object that anything but loadUser assigns; the
\* e-mail address of an account is named by the account.
User == [uid : Uids \cup {Nil}, email : Uids \cup {Nil}]

ASSUME SessionAssumption == Nil \notin Uids \cup User /\ MaxDeaths \in Nat

VARIABLES
    authUser,       \* Auth.auth().currentUser, kept in the keychain
    signingIn,      \* the account whose delegate call is still to come
    currentUser,    \* User.currentUser
    defaults,       \* UserDefaults "currentUser", as this process sees it
    disk,           \* UserDefaults "currentUser", as the next process finds it
    users,          \* the "users" node of the database, as this device sees it
    screen,         \* the top of the navigation stack
    presented,      \* what is presented over it
    posters,        \* history: who was signed in at each post
    wantsUser,      \* history: the last sign-in or log-out was a sign-in
    lostWrite,      \* history: its UserDefaults change died with the process
    deaths          \* history: how often the process has died

vars == << authUser, signingIn, currentUser, defaults, disk, users, screen,
           presented, posters, wantsUser, lostWrite, deaths >>

TypeOK ==
    /\ authUser \in Uids \cup {Nil}
    /\ signingIn \in Uids \cup {Nil}
    /\ currentUser \in User \cup {Nil}
    /\ defaults \in User \cup {Nil}
    /\ disk \in User \cup {Nil}
    /\ users \in Uids \cup {Nil}
    /\ screen \in {"feed", "details", "composer", "settings"}
    /\ presented \in {"nothing", "auth", "alert"}
    /\ posters \subseteq User \cup {Nil}
    /\ wantsUser \in BOOLEAN /\ lostWrite \in BOOLEAN
    /\ deaths \in 0..MaxDeaths

----------------------------------------------------------------------------
\* Mutant: the archive keeps the uid, which no launch compares with Auth's.
ArchivedWithUid(user) == [uid |-> user.uid, email |-> Nil]

\* Mutant: what is archived is the uid itself, which unarchiving cannot cast.
ArchivedAsUid(user) == user.uid

\* encode(with:) and init?(coder:) are empty: an archive brings back a User
\* object, without any of its properties.
Archived(user) == [uid |-> Nil, email |-> Nil]

\* User.archiveCurrentUser(), logOutCurrentUser() and unarchiveCurrentUser(),
\* the last in a process whose currentUser is still nil.
ArchiveCurrentUser == defaults' = Archived(currentUser')

\* Mutant: the archive is left.
LogOutLeavesArchive == currentUser' = Nil /\ UNCHANGED defaults

LogOutCurrentUser == defaults' = Nil /\ currentUser' = Nil

UnarchiveCurrentUser ==
    /\ defaults' = disk
    /\ currentUser' = IF disk = Nil THEN Nil ELSE Archived(disk)

\* The first launch after the installation.
Init ==
    /\ authUser = Nil /\ signingIn = Nil
    /\ currentUser = Nil /\ defaults = Nil /\ disk = Nil
    /\ users = Nil
    /\ screen = "feed" /\ presented = "nothing"
    /\ posters = {}
    /\ wantsUser = FALSE /\ lostWrite = FALSE /\ deaths = 0

OnFeed == screen = "feed" /\ presented = "nothing"

\* toSettings(): the sign-in screen, or the settings of a user that exists.
ToSettings ==
    /\ OnFeed
    /\ \/ currentUser = Nil /\ presented' = "auth" /\ screen' = screen
       \/ currentUser # Nil /\ screen' = "settings" /\ presented' = presented
    /\ UNCHANGED <<authUser, signingIn, currentUser, defaults, disk, users,
                   posters, wantsUser, lostWrite, deaths>>

\* toCreatePost(): the alert does not keep the composer from being pushed.
ToCreatePost ==
    /\ OnFeed
    /\ presented' = IF currentUser = Nil THEN "alert" ELSE presented
    /\ screen' = "composer"
    /\ UNCHANGED <<authUser, signingIn, currentUser, defaults, disk, users,
                   posters, wantsUser, lostWrite, deaths>>

\* toPostDetails(post:).
ToPostDetails ==
    /\ OnFeed
    /\ screen' = "details"
    /\ UNCHANGED <<authUser, signingIn, currentUser, defaults, disk, users,
                   presented, posters, wantsUser, lostWrite, deaths>>

\* The alert's only action has no handler.
DismissAlert ==
    /\ presented = "alert"
    /\ presented' = "nothing"
    /\ UNCHANGED <<authUser, signingIn, currentUser, defaults, disk, users,
                   screen, posters, wantsUser, lostWrite, deaths>>

\* The navigation bar's back button.
Back ==
    /\ screen # "feed" /\ presented = "nothing"
    /\ screen' = "feed"
    /\ UNCHANGED <<authUser, signingIn, currentUser, defaults, disk, users,
                   presented, posters, wantsUser, lostWrite, deaths>>

\* buttonPushed in the composer; what is written is the composer's matter.
Post ==
    /\ screen = "composer" /\ presented = "nothing"
    /\ posters' = posters \cup {currentUser}
    /\ UNCHANGED <<authUser, signingIn, currentUser, defaults, disk, users,
                   screen, presented, wantsUser, lostWrite, deaths>>

\* FirebaseAuthUI signs an account in with Auth; the delegate hears of it later.
AuthSignsIn(uid) ==
    /\ presented = "auth" /\ signingIn = Nil
    /\ authUser' = uid /\ signingIn' = uid
    /\ UNCHANGED <<currentUser, defaults, disk, users, screen, presented,
                   posters, wantsUser, lostWrite, deaths>>

\* Mutant: the archive is forgotten.
DidSignInUnarchived(email) ==
    /\ presented = "auth" /\ signingIn # Nil
    /\ email \in {signingIn, Nil}
    /\ currentUser' = [uid |-> signingIn, email |-> email]
    /\ users' = signingIn
    /\ presented' = "nothing" /\ signingIn' = Nil
    /\ wantsUser' = TRUE /\ lostWrite' = FALSE
    /\ UNCHANGED <<authUser, defaults, disk, screen, posters, deaths>>

\* authUI(_:didSignInWith:error:) with a user; the user may have no e-mail
\* address.  The write replaces the whole node.
DidSignIn(email) ==
    /\ presented = "auth" /\ signingIn # Nil
    /\ email \in {signingIn, Nil}
    /\ currentUser' = [uid |-> signingIn, email |-> email]
    /\ ArchiveCurrentUser
    /\ users' = signingIn
    /\ presented' = "nothing" /\ signingIn' = Nil
    /\ wantsUser' = TRUE /\ lostWrite' = FALSE
    /\ UNCHANGED <<authUser, disk, screen, posters, deaths>>

\* ... and with an error or no user, which it ignores: cancelled or failed.
DidNotSignIn ==
    /\ presented = "auth"
    /\ presented' = "nothing" /\ signingIn' = Nil
    /\ UNCHANGED <<authUser, currentUser, defaults, disk, users, screen,
                   posters, wantsUser, lostWrite, deaths>>

\* Mutant: the user is removed before signOut, which then throws.
LogOutFailsLate ==
    /\ screen = "settings" /\ presented = "nothing"
    /\ LogOutCurrentUser
    /\ UNCHANGED <<authUser, signingIn, disk, users, screen, presented, posters,
                   wantsUser, lostWrite, deaths>>

\* logOut(): when signOut throws nothing else happens.
LogOutFails ==
    /\ screen = "settings" /\ presented = "nothing"
    /\ UNCHANGED vars

LogOut ==
    /\ screen = "settings" /\ presented = "nothing"
    /\ authUser' = Nil
    /\ LogOutCurrentUser
    /\ screen' = "feed"
    /\ wantsUser' = FALSE /\ lostWrite' = FALSE
    /\ UNCHANGED <<signingIn, disk, users, presented, posters, deaths>>

\* Auth drops an account whose token the server no longer renews; the app does
\* not listen for that.
AuthRevokes ==
    /\ authUser # Nil
    /\ authUser' = Nil
    /\ UNCHANGED <<signingIn, currentUser, defaults, disk, users, screen,
                   presented, posters, wantsUser, lostWrite, deaths>>

\* The system writes the changed defaults to the disk.
Flush ==
    /\ disk' = defaults
    /\ UNCHANGED <<authUser, signingIn, currentUser, defaults, users, screen,
                   presented, posters, wantsUser, lostWrite, deaths>>

\* The process dies and didFinishLaunchingWithOptions calls
\* unarchiveCurrentUser in the next one.
Relaunch ==
    /\ deaths < MaxDeaths
    /\ deaths' = deaths + 1
    /\ UnarchiveCurrentUser
    /\ signingIn' = Nil
    /\ screen' = "feed" /\ presented' = "nothing"
    /\ lostWrite' = (lostWrite \/ disk # defaults)
    /\ UNCHANGED <<authUser, disk, users, posters, wantsUser>>

Next ==
    \/ ToSettings
    \/ ToCreatePost
    \/ ToPostDetails
    \/ DismissAlert
    \/ Back
    \/ Post
    \/ \E uid \in Uids : AuthSignsIn(uid)
    \/ \E email \in Uids \cup {Nil} : DidSignIn(email)
    \/ DidNotSignIn
    \/ LogOutFails
    \/ LogOut
    \/ AuthRevokes
    \/ Flush
    \/ Relaunch

Spec == Init /\ [][Next]_vars

----------------------------------------------------------------------------
\* The settings, which print the user's name and address and offer to log out,
\* are only ever on screen while somebody is signed in: not after a log-out that
\* failed half way, and not after a relaunch.
SettingsNeedsUser == screen = "settings" => currentUser # Nil

\* The app never takes the user for one account while Auth acts for another.
IdentityNeverMixed ==
    (currentUser # Nil /\ currentUser.uid # Nil) =>
        authUser \in {currentUser.uid, Nil}

\* What the user last decided, to be signed in or not, is what the app goes by,
\* across any number of relaunches, unless the process died before the change
\* to UserDefaults reached the disk.
DecisionSurvives == ~lostWrite => (currentUser # Nil) = wantsUser

\* User.currentUser, its archive and the two places the archive is kept are one
\* decision with a delayed write: a sign-in only ever replaces nobody, a log-out
\* somebody, and a launch brings back nothing but what was written.
Decision == INSTANCE Remembered
    WITH signedIn <- currentUser # Nil, stored <- disk # Nil

IsRemembered == Decision!Spec

\* The comment at User.swift:50 says archiveCurrentUser saves the "user
\* properties".  A restored user has none, not even its uid.
RestoredUserHasUid == currentUser # Nil => currentUser.uid # Nil

\* The alert at line 413 of PartnerPostsController says "You need to log in in
\* order to post".
LoggedInToPost == Nil \notin posters

============================================================================

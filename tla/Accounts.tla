------------------------------ MODULE Accounts ------------------------------
(***************************************************************************)
(* The tables user and tutor_profile: register, which inserts a user and   *)
(* then, in a second statement, the profile of a tutor; upsertOwn, by      *)
(* which a tutor saves that profile; and listDirectory, read page by page  *)
(* while all this goes on.                                                 *)
(*                                                                         *)
(* An account is named by its e-mail, which is unique and never changes.   *)
(* Of a profile only the display name is kept, the column the directory is *)
(* sorted by; names are numbers in the order of the collation.             *)
(***************************************************************************)
EXTENDS Naturals, Sequences, FiniteSets

CONSTANTS
  Emails,    \* bounds the number of accounts
  Names,     \* display names
  Reqs,      \* slots for registrations in flight; bounds the concurrency
  PageSize,
  Null       \* no row

ASSUME AccountConstants ==
  /\ Names \subseteq Nat
  /\ Null \notin Names /\ Null \notin {"PARENT", "TUTOR"}
  /\ PageSize \in Nat \ {0}
  /\ IsFiniteSet(Emails)

VARIABLES
  role,      \* user rows, by e-mail
  profile,   \* tutor_profile rows, by the e-mail of their user
  reg,       \* registrations in flight
  tour,      \* a client that reads the directory from its first page on
  created,   \* ghost: the roles answered 201, by e-mail
  saved      \* ghost: what the tutor saved last

tables == <<role, profile>>
vars   == <<tables, reg, tour, created, saved>>

Roles == {"PARENT", "TUTOR"}

Idle == [at |-> "idle"]
Registrations == [at : {"insertUser", "insertProfile"}, email : Emails,
                  role : Roles, name : Names]

(* at: the statement the page's request is at.  owed: the profiles that     *)
(* were there at the beginning and have kept their name.  steady: nothing   *)
(* has happened that excuses a page from showing them.                      *)
NoTour == [at |-> "idle", page |-> 1, total |-> 0,
           owed |-> {}, seen |-> {}, steady |-> TRUE]
Tours  == [at : {"idle", "count", "read", "done"}, page : Nat \ {0}, total : Nat,
           owed : SUBSET Emails, seen : SUBSET Emails, steady : BOOLEAN]

Init ==
  /\ role    = [e \in Emails |-> Null]
  /\ profile = [e \in Emails |-> Null]
  /\ reg     = [r \in Reqs |-> Idle]
  /\ tour    = NoTour
  /\ created = [e \in Emails |-> <<>>]
  /\ saved   = [e \in Emails |-> Null]

-----------------------------------------------------------------------------
(* The directory. *)
Rows == {e \in Emails : profile[e] # Null}

NoTies == \A e, f \in Rows : profile[e] = profile[f] => e = f

(* A bug the properties must notice: the page is taken to count from zero.  *)
SkipZeroBased(page) == page * PageSize

PageSkip(page) == (page - 1) * PageSize

(* paginate: Math.ceil, and no page when there is no row.                   *)
TotalPages(total) == (total + PageSize - 1) \div PageSize

(* The orders in which findMany may return the rows: by display name, those *)
(* with the same name in any order.                                         *)
Orders ==
  {place \in [Rows -> 1 .. Cardinality(Rows)] :
     \A e, f \in Rows : e # f =>
       /\ place[e] # place[f]
       /\ profile[e] < profile[f] => place[e] < place[f]}

PageOf(page, place) ==
  {e \in Rows : place[e] \in PageSkip(page) + 1 .. PageSkip(page) + PageSize}

(* What a profile written as n does to a tour: a move towards the front may *)
(* hide that profile, a move towards the back any other; so may a row that  *)
(* comes between the count and the rows, or one whose name is not unique.   *)
TourSees(e, n) ==
  [tour EXCEPT
     !.owed   = IF profile[e] # Null /\ n < profile[e] THEN @ \ {e} ELSE @,
     !.steady = /\ @
                /\ \A f \in Rows \ {e} : profile[f] # n
                /\ IF profile[e] = Null THEN tour.at # "read" ELSE n <= profile[e]]

WriteProfile(e, n) ==
  /\ profile' = [profile EXCEPT ![e] = n]
  /\ tour'    = IF tour.at \in {"count", "read"} THEN TourSees(e, n) ELSE tour

-----------------------------------------------------------------------------
Done(r) == reg' = [reg EXCEPT ![r] = Idle]

Answer201(r) ==
  created' = [created EXCEPT ![reg[r].email] = Append(@, reg[r].role)]

(* register up to the hash of the password: an e-mail that is taken is      *)
(* answered 409 without a write and has no action.                          *)
Register(r, e, ro, n) ==
  /\ reg[r] = Idle
  /\ role[e] = Null
  /\ reg' = [reg EXCEPT ![r] =
       [at |-> "insertUser", email |-> e, role |-> ro, name |-> n]]
  /\ UNCHANGED <<tables, tour, created, saved>>

(* A bug the properties must notice: a parent gets a profile as well.       *)
InsertUserAsTutor(r) ==
  /\ reg[r].at = "insertUser"
  /\ role[reg[r].email] = Null
  /\ role' = [role EXCEPT ![reg[r].email] = reg[r].role]
  /\ reg' = [reg EXCEPT ![r].at = "insertProfile"]
  /\ UNCHANGED <<profile, tour, created, saved>>

(* A bug the properties must notice: upsert in place of create, relying on  *)
(* the look-up that precedes the hash.                                      *)
UpsertUser(r) ==
  /\ reg[r].at = "insertUser"
  /\ role' = [role EXCEPT ![reg[r].email] = reg[r].role]
  /\ IF reg[r].role = "TUTOR"
       THEN reg' = [reg EXCEPT ![r].at = "insertProfile"] /\ UNCHANGED created
       ELSE Done(r) /\ Answer201(r)
  /\ UNCHANGED <<profile, tour, saved>>

(* user.create. *)
InsertUser(r) ==
  /\ reg[r].at = "insertUser"
  /\ role[reg[r].email] = Null
  /\ role' = [role EXCEPT ![reg[r].email] = reg[r].role]
  /\ IF reg[r].role = "TUTOR"
       THEN reg' = [reg EXCEPT ![r].at = "insertProfile"] /\ UNCHANGED created
       ELSE Done(r) /\ Answer201(r)
  /\ UNCHANGED <<profile, tour, saved>>

(* A bug the properties must notice: upsert in place of create.             *)
UpsertProfile(r) ==
  /\ reg[r].at = "insertProfile"
  /\ WriteProfile(reg[r].email, reg[r].name)
  /\ Done(r) /\ Answer201(r)
  /\ UNCHANGED <<role, saved>>

(* tutorProfile.create. *)
InsertProfile(r) ==
  /\ reg[r].at = "insertProfile"
  /\ profile[reg[r].email] = Null
  /\ WriteProfile(reg[r].email, reg[r].name)
  /\ Done(r) /\ Answer201(r)
  /\ UNCHANGED <<role, saved>>

(* The unique index refuses the row, the query throws, or the process goes  *)
(* down: there is no transaction, so a user row stays without its profile.  *)
Fail(r) ==
  /\ reg[r] # Idle
  /\ Done(r)
  /\ UNCHANGED <<tables, tour, created, saved>>

(* upsertOwn: one INSERT ... ON CONFLICT, for a signed-in tutor.  The tutor *)
(* may have signed in before register has returned, or after it failed.     *)
UpsertOwn(e, n) ==
  /\ role[e] = "TUTOR"
  /\ WriteProfile(e, n)
  /\ saved' = [saved EXCEPT ![e] = n]
  /\ UNCHANGED <<role, reg, created>>

(* A client asks for page 1 and then for the pages after it, up to the      *)
(* totalPages of the page it has.                                           *)
OpenDirectory ==
  /\ tour.at = "idle"
  /\ tour' = [NoTour EXCEPT !.at = "count", !.owed = Rows, !.steady = NoTies]
  /\ UNCHANGED <<tables, reg, created, saved>>

(* listDirectory: under READ COMMITTED the two statements of the            *)
(* transaction see the table at two different times.                        *)
CountRows ==
  /\ tour.at = "count"
  /\ tour' = [tour EXCEPT !.at = "read", !.total = Cardinality(Rows)]
  /\ UNCHANGED <<tables, reg, created, saved>>

ReadPage ==
  /\ tour.at = "read"
  /\ \E place \in Orders :
       LET last == tour.page >= TotalPages(tour.total)
       IN  tour' = [tour EXCEPT
                      !.at   = IF last THEN "done" ELSE "count",
                      !.page = IF last THEN @ ELSE @ + 1,
                      !.seen = @ \union PageOf(tour.page, place)]
  /\ UNCHANGED <<tables, reg, created, saved>>

LeaveDirectory ==
  /\ tour.at = "done"
  /\ tour' = NoTour
  /\ UNCHANGED <<tables, reg, created, saved>>

Next ==
  \/ \E r \in Reqs :
       \/ \E e \in Emails, ro \in Roles, n \in Names : Register(r, e, ro, n)
       \/ InsertUser(r)
       \/ InsertProfile(r)
       \/ Fail(r)
  \/ \E e \in Emails, n \in Names : UpsertOwn(e, n)
  \/ OpenDirectory
  \/ CountRows
  \/ ReadPage
  \/ LeaveDirectory

Spec == Init /\ [][Next]_vars

-----------------------------------------------------------------------------
(* Every variable has its type, and only tutors have a profile.             *)
AccountsTypeOK ==
  /\ role    \in [Emails -> Roles \union {Null}]
  /\ profile \in [Emails -> Names \union {Null}]
  /\ reg     \in [Reqs -> Registrations \union {Idle}]
  /\ tour    \in Tours
  /\ created \in [Emails -> Seq(Roles)]
  /\ saved   \in [Emails -> Names \union {Null}]
  /\ \A e \in Rows : role[e] = "TUTOR"

(* However registrations for one e-mail overlap, at most one is answered    *)
(* 201, and what it was told is what is stored: the account has that role,  *)
(* and a tutor's account its profile.                                       *)
CreatedMeansStored ==
  \A e \in Emails :
    /\ Len(created[e]) <= 1
    /\ created[e] # <<>> =>
         /\ role[e] = created[e][1]
         /\ role[e] = "TUTOR" => profile[e] # Null

(* A tutor who saves a profile while register has yet to insert the empty   *)
(* one, or after it failed to, keeps what was saved.                        *)
SavedProfileKept ==
  \A e \in Emails : saved[e] # Null => profile[e] = saved[e]

(* The inductive invariant: a registration about to insert a profile is the *)
(* only one for its e-mail that has inserted a user, and has not answered;  *)
(* an e-mail without a user has left no trace.                              *)
BootstrapInv ==
  \A r \in Reqs : reg[r].at = "insertProfile" =>
    /\ reg[r].role = "TUTOR" /\ role[reg[r].email] = "TUTOR"
    /\ created[reg[r].email] = <<>>
    /\ \A q \in Reqs \ {r} :
         reg[q].at = "insertProfile" => reg[q].email # reg[r].email

FreshInv ==
  \A e \in Emails : role[e] = Null => created[e] = <<>> /\ saved[e] = Null

(* Whatever is registered and renamed meanwhile, a client that pages        *)
(* through the directory has been shown every tutor who was there when it   *)
(* began and has not moved towards the front, unless another moved towards  *)
(* the back, a name was not unique, or a row fell between a page's count    *)
(* and its rows.                                                            *)
PagingMissesNobody ==
  tour.at = "done" /\ tour.steady => tour.owed \subseteq tour.seen

(* What an undisturbed tour still owes is not before the page to come.      *)
Below(e) == {f \in Rows : profile[f] < profile[e]}

PagingInv ==
  tour.at \in {"count", "read"} /\ tour.steady =>
    /\ NoTies /\ tour.owed \subseteq Rows
    /\ tour.at = "read" => tour.total = Cardinality(Rows)
    /\ \A e \in tour.owed \ tour.seen : PageSkip(tour.page) <= Cardinality(Below(e))

AccountsInv ==
  /\ AccountsTypeOK /\ BootstrapInv /\ FreshInv /\ CreatedMeansStored /\ SavedProfileKept
  /\ PagingInv /\ PagingMissesNobody

=============================================================================

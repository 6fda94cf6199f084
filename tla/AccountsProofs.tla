--------------------------- MODULE AccountsProofs ---------------------------
(***************************************************************************)
(* Results about registration and profiles, for every set of e-mails and   *)
(* names, every page size and any number of overlapping registrations.     *)
(***************************************************************************)
EXTENDS Accounts, Functions, FunctionTheorems, FiniteSetTheorems, TLAPS

(* The directory is as large as a natural number. *)
LEMMA RowsFinite == Cardinality(Rows) \in Nat
<1>1. Rows \in SUBSET Emails
  BY DEF Rows
<1>2. IsFiniteSet(Rows)
  BY <1>1, AccountConstants, FS_Subset
<1> QED
  BY <1>2, FS_CardinalityType

(* A written profile leaves profiles and tour well typed. *)
LEMMA WriteTypes ==
  ASSUME AccountsTypeOK, NEW e \in Emails, NEW n \in Names, WriteProfile(e, n)
  PROVE  /\ profile' = [profile EXCEPT ![e] = n]
         /\ profile' \in [Emails -> Names \union {Null}]
         /\ tour' \in Tours
<1>1. profile' = [profile EXCEPT ![e] = n] /\ profile' \in [Emails -> Names \union {Null}]
  BY DEF WriteProfile, AccountsTypeOK
<1>2. TourSees(e, n) \in Tours
  BY DEF TourSees, Tours, AccountsTypeOK
<1> QED
  BY <1>1, <1>2 DEF WriteProfile, AccountsTypeOK

(* Every step respects the types. *)
LEMMA TypeStep == AccountsTypeOK /\ BootstrapInv /\ [Next]_vars => AccountsTypeOK'
<1> SUFFICES ASSUME AccountsTypeOK, BootstrapInv, [Next]_vars PROVE AccountsTypeOK'
  OBVIOUS
<1> USE AccountConstants DEF AccountsTypeOK, tables, Rows, Done, Idle, Registrations, Roles
<1>1. ASSUME NEW r \in Reqs, NEW e \in Emails, NEW ro \in Roles, NEW n \in Names,
          Register(r, e, ro, n)
     PROVE AccountsTypeOK'
  BY <1>1 DEF Register
<1>2. ASSUME NEW r \in Reqs, InsertUser(r) PROVE AccountsTypeOK'
  <2> DEFINE e == reg[r].email
  <2>1. reg[r] \in Registrations /\ e \in Emails /\ reg[r].role \in Roles
    BY <1>2 DEF InsertUser
  <2>2. role' \in [Emails -> Roles \union {Null}]
    BY <1>2, <2>1 DEF InsertUser
  <2>3. \A f \in Rows' : role'[f] = "TUTOR"
    <3>1. \A f \in Emails : profile'[f] # Null => role[f] = "TUTOR"
      BY <1>2 DEF InsertUser
    <3>2. \A f \in Emails : role[f] = "TUTOR" => f # e
      BY <1>2 DEF InsertUser
    <3>3. role' = [role EXCEPT ![e] = reg[r].role]
      BY <1>2 DEF InsertUser
    <3>4. ASSUME NEW f \in Emails, profile'[f] # Null PROVE role'[f] = "TUTOR"
      BY <3>1, <3>2, <3>3, <3>4
    <3> QED
      BY <3>4
  <2>4. reg' \in [Reqs -> Registrations \union {Idle}]
    <3>1. CASE reg[r].role = "TUTOR"
      <4>1. [reg[r] EXCEPT !.at = "insertProfile"] \in Registrations
        BY <2>1
      <4>2. reg' = [reg EXCEPT ![r] = [reg[r] EXCEPT !.at = "insertProfile"]]
        BY <1>2, <3>1 DEF InsertUser
      <4> QED
        BY <4>1, <4>2
    <3>2. CASE reg[r].role # "TUTOR"
      BY <1>2, <2>1, <3>2 DEF InsertUser
    <3> QED
      BY <3>1, <3>2
  <2>5. created' \in [Emails -> Seq(Roles)]
    <3>1. Append(created[e], reg[r].role) \in Seq(Roles)
      BY <2>1
    <3>2. created' = [created EXCEPT ![e] = Append(created[e], reg[r].role)]
            \/ created' = created
      BY <1>2 DEF InsertUser, Answer201
    <3> QED
      BY <2>1, <3>1, <3>2
  <2> QED
    BY <1>2, <2>2, <2>3, <2>4, <2>5 DEF InsertUser
<1>3. ASSUME NEW r \in Reqs, InsertProfile(r) PROVE AccountsTypeOK'
  <2> DEFINE e == reg[r].email
             n == reg[r].name
  <2>1. /\ e \in Emails /\ n \in Names /\ reg[r].role \in Roles
        /\ role[e] = "TUTOR" /\ WriteProfile(e, n)
        /\ Done(r) /\ Answer201(r) /\ UNCHANGED <<role, saved>>
    BY <1>3 DEF InsertProfile, BootstrapInv
  <2>2. profile' = [profile EXCEPT ![e] = n] /\ tour' \in Tours
    BY <2>1, WriteTypes
  <2>3. Append(created[e], reg[r].role) \in Seq(Roles)
    BY <2>1
  <2>4. created' \in [Emails -> Seq(Roles)]
    BY <2>1, <2>3 DEF Answer201
  <2>5. profile' \in [Emails -> Names \union {Null}]
    BY <2>1, <2>2
  <2>6. \A f \in Rows' : role'[f] = "TUTOR"
    BY <2>1, <2>2
  <2>7. reg' \in [Reqs -> Registrations \union {Idle}]
    BY <2>1
  <2> QED
    BY <2>1, <2>2, <2>4, <2>5, <2>6, <2>7
<1>4. ASSUME NEW r \in Reqs, Fail(r) PROVE AccountsTypeOK'
  BY <1>4 DEF Fail
<1>5. ASSUME NEW e \in Emails, NEW n \in Names, UpsertOwn(e, n) PROVE AccountsTypeOK'
  <2>1. profile' = [profile EXCEPT ![e] = n] /\ tour' \in Tours
    BY <1>5, WriteTypes DEF UpsertOwn
  <2> QED
    BY <1>5, <2>1 DEF UpsertOwn
<1>6. CASE OpenDirectory
  <2>1. Rows \in SUBSET Emails /\ NoTies \in BOOLEAN
    BY DEF NoTies
  <2>2. NoTour \in Tours
    BY DEF NoTour, Tours
  <2>3. tour' \in Tours
    BY <1>6, <2>1, <2>2 DEF OpenDirectory, Tours
  <2> QED
    BY <1>6, <2>3 DEF OpenDirectory
<1>7. CASE CountRows
  BY <1>7, RowsFinite DEF CountRows, Tours
<1>8. CASE ReadPage
  <2>1. PICK place \in Orders :
          LET last == tour.page >= TotalPages(tour.total)
          IN  tour' = [tour EXCEPT
                         !.at   = IF last THEN "done" ELSE "count",
                         !.page = IF last THEN @ ELSE @ + 1,
                         !.seen = @ \union PageOf(tour.page, place)]
    BY <1>8 DEF ReadPage
  <2>2. PageOf(tour.page, place) \in SUBSET Emails
    BY DEF PageOf
  <2>3. /\ tour.page \in Nat \ {0} /\ tour.page + 1 \in Nat \ {0}
        /\ tour.seen \in SUBSET Emails
    BY DEF Tours
  <2>4. tour' \in Tours
    <3>1. CASE tour.page >= TotalPages(tour.total)
      BY <2>1, <2>2, <2>3, <3>1 DEF Tours
    <3>2. CASE ~(tour.page >= TotalPages(tour.total))
      BY <2>1, <2>2, <2>3, <3>2 DEF Tours
    <3> QED
      BY <3>1, <3>2
  <2> QED
    BY <1>8, <2>4 DEF ReadPage
<1>9. CASE LeaveDirectory
  BY <1>9 DEF LeaveDirectory, Tours, NoTour
<1>10. CASE UNCHANGED vars
  BY <1>10 DEF vars
<1> QED
  BY <1>1, <1>2, <1>3, <1>4, <1>5, <1>6, <1>7, <1>8, <1>9, <1>10 DEF Next

(* The first answer for an e-mail. *)
LEMMA EmptyAppend == \A x \in Roles : Append(<<>>, x) = <<x>>
  BY DEF Roles

(* A registration between its two inserts is alone with its e-mail. *)
LEMMA BootstrapStep ==
  ASSUME AccountsTypeOK, BootstrapInv, FreshInv, [Next]_vars
  PROVE  BootstrapInv' /\ FreshInv'
<1> USE AccountConstants
    DEF AccountsTypeOK, BootstrapInv, FreshInv, tables, Done, Idle, Registrations, Roles
<1>1. ASSUME NEW r \in Reqs, NEW e \in Emails, NEW ro \in Roles, NEW n \in Names,
          Register(r, e, ro, n)
     PROVE BootstrapInv' /\ FreshInv'
  BY <1>1 DEF Register
<1>2. ASSUME NEW r \in Reqs, InsertUser(r) PROVE BootstrapInv' /\ FreshInv'
  <2>1. reg[r] \in Registrations
    BY <1>2 DEF InsertUser
  <2>2. created[reg[r].email] = <<>> /\ role[reg[r].email] = Null
    BY <1>2, <2>1 DEF InsertUser
  <2>3. \A q \in Reqs : reg[q].at = "insertProfile" => reg[q].email # reg[r].email
    BY <2>2
  <2>4. /\ role' = [role EXCEPT ![reg[r].email] = reg[r].role]
        /\ saved' = saved
    BY <1>2 DEF InsertUser
  <2>5. CASE reg[r].role = "TUTOR"
    <3>1. /\ reg' = [reg EXCEPT ![r] = [reg[r] EXCEPT !.at = "insertProfile"]]
          /\ created' = created
      BY <1>2, <2>5 DEF InsertUser
    <3>2. [reg[r] EXCEPT !.at = "insertProfile"] =
            [at |-> "insertProfile", email |-> reg[r].email,
             role |-> "TUTOR", name |-> reg[r].name]
      BY <2>1, <2>5
    <3>3. BootstrapInv'
      BY <2>1, <2>2, <2>3, <2>4, <2>5, <3>1, <3>2
    <3> QED
      BY <2>1, <2>4, <3>1, <3>3
  <2>6. CASE reg[r].role # "TUTOR"
    <3>1. /\ reg' = [reg EXCEPT ![r] = Idle]
          /\ created' = [created EXCEPT ![reg[r].email] = Append(created[reg[r].email], reg[r].role)]
      BY <1>2, <2>6 DEF InsertUser, Answer201
    <3>2. BootstrapInv'
      BY <2>1, <2>2, <2>3, <2>4, <3>1
    <3>3. FreshInv'
      BY <2>1, <2>4, <3>1
    <3> QED
      BY <3>2, <3>3
  <2> QED
    BY <2>5, <2>6
<1>3. ASSUME NEW r \in Reqs, InsertProfile(r) PROVE BootstrapInv' /\ FreshInv'
  BY <1>3 DEF InsertProfile, Answer201
<1>4. ASSUME NEW r \in Reqs, Fail(r) PROVE BootstrapInv' /\ FreshInv'
  BY <1>4 DEF Fail
<1>5. ASSUME NEW e \in Emails, NEW n \in Names, UpsertOwn(e, n)
     PROVE BootstrapInv' /\ FreshInv'
  BY <1>5 DEF UpsertOwn
<1>6. ASSUME UNCHANGED <<role, reg, created, saved>> PROVE BootstrapInv' /\ FreshInv'
  BY <1>6
<1>7. CASE OpenDirectory \/ CountRows \/ ReadPage \/ LeaveDirectory \/ UNCHANGED vars
  <2>1. UNCHANGED <<role, reg, created, saved>>
    BY <1>7 DEF vars, OpenDirectory, CountRows, ReadPage, LeaveDirectory
  <2> QED
    BY <1>6, <2>1
<1> QED
  BY <1>1, <1>2, <1>3, <1>4, <1>5, <1>7 DEF Next

(* Answers and stored accounts agree. *)
LEMMA CreatedStep ==
  ASSUME AccountsInv, [Next]_vars
  PROVE  CreatedMeansStored'
<1> USE AccountConstants
    DEF AccountsInv, AccountsTypeOK, BootstrapInv, FreshInv, CreatedMeansStored,
        tables, Done, Idle, Registrations, Roles
<1>1. ASSUME NEW r \in Reqs, NEW e \in Emails, NEW ro \in Roles, NEW n \in Names,
          Register(r, e, ro, n)
     PROVE CreatedMeansStored'
  BY <1>1 DEF Register
<1>2. ASSUME NEW r \in Reqs, InsertUser(r) PROVE CreatedMeansStored'
  <2>1. reg[r] \in Registrations
    BY <1>2 DEF InsertUser
  <2>2. created[reg[r].email] = <<>> /\ role[reg[r].email] = Null
    BY <1>2, <2>1 DEF InsertUser
  <2>3. CASE reg[r].role = "TUTOR"
    BY <1>2, <2>1, <2>2, <2>3 DEF InsertUser
  <2>4. CASE reg[r].role # "TUTOR"
    <3>1. created' = [created EXCEPT ![reg[r].email] = <<reg[r].role>>]
      BY <1>2, <2>1, <2>2, <2>4, EmptyAppend DEF InsertUser, Answer201
    <3>2. role' = [role EXCEPT ![reg[r].email] = reg[r].role] /\ profile' = profile
      BY <1>2 DEF InsertUser
    <3> QED
      BY <2>1, <2>2, <2>4, <3>1, <3>2
  <2> QED
    BY <2>3, <2>4
<1>3. ASSUME NEW r \in Reqs, InsertProfile(r) PROVE CreatedMeansStored'
  <2>1. reg[r] \in Registrations
    BY <1>3 DEF InsertProfile
  <2>2. created' = [created EXCEPT ![reg[r].email] = <<"TUTOR">>]
    <3>1. created[reg[r].email] = <<>> /\ reg[r].role = "TUTOR"
      BY <1>3, <2>1 DEF InsertProfile
    <3> QED
      BY <1>3, <3>1, EmptyAppend DEF InsertProfile, Answer201
  <2>3. profile' = [profile EXCEPT ![reg[r].email] = reg[r].name]
    BY <1>3 DEF InsertProfile, WriteProfile
  <2>4. role[reg[r].email] = "TUTOR" /\ role' = role
    BY <1>3 DEF InsertProfile
  <2> QED
    BY <2>1, <2>2, <2>3, <2>4
<1>4. ASSUME NEW r \in Reqs, Fail(r) PROVE CreatedMeansStored'
  BY <1>4 DEF Fail
<1>5. ASSUME NEW e \in Emails, NEW n \in Names, UpsertOwn(e, n)
     PROVE CreatedMeansStored'
  BY <1>5 DEF UpsertOwn, WriteProfile
<1>6. CASE OpenDirectory \/ CountRows \/ ReadPage \/ LeaveDirectory
  BY <1>6 DEF OpenDirectory, CountRows, ReadPage, LeaveDirectory
<1>7. CASE UNCHANGED vars
  BY <1>7 DEF vars
<1> QED
  BY <1>1, <1>2, <1>3, <1>4, <1>5, <1>6, <1>7 DEF Next

(* A profile that was saved is not inserted again. *)
LEMMA SavedStep ==
  ASSUME AccountsInv, [Next]_vars
  PROVE  SavedProfileKept'
<1> USE AccountConstants
    DEF AccountsInv, AccountsTypeOK, SavedProfileKept, tables, Done, Idle, Registrations
<1>1. ASSUME NEW r \in Reqs, InsertProfile(r) PROVE SavedProfileKept'
  <2>1. reg[r] \in Registrations /\ saved' = saved /\ profile[reg[r].email] = Null
    BY <1>1 DEF InsertProfile
  <2>2. profile' = [profile EXCEPT ![reg[r].email] = reg[r].name]
    BY <1>1 DEF InsertProfile, WriteProfile
  <2> QED
    BY <2>1, <2>2
<1>2. ASSUME NEW e \in Emails, NEW n \in Names, UpsertOwn(e, n)
     PROVE SavedProfileKept'
  BY <1>2 DEF UpsertOwn, WriteProfile
<1>3. ASSUME UNCHANGED <<profile, saved>> PROVE SavedProfileKept'
  BY <1>3
<1> QED
  BY <1>1, <1>2, <1>3
  DEF Next, vars, Register, InsertUser, Fail, OpenDirectory, CountRows, ReadPage, LeaveDirectory

-----------------------------------------------------------------------------
(* The directory. *)

(* The rows before a row are finitely many, and as many as the places       *)
(* before its place when no two names are the same.                         *)
LEMMA BelowFinite ==
  ASSUME NEW e
  PROVE  IsFiniteSet(Below(e)) /\ Cardinality(Below(e)) \in Nat
<1>1. Below(e) \in SUBSET Emails
  BY DEF Below, Rows
<1> QED
  BY <1>1, AccountConstants, FS_Subset, FS_CardinalityType

LEMMA PlaceIsRank ==
  ASSUME AccountsTypeOK, NoTies, NEW place \in Orders, NEW e \in Rows
  PROVE  /\ place[e] \in 1 .. Cardinality(Rows)
         /\ Cardinality(Below(e)) = place[e] - 1
<1> DEFINE N == Cardinality(Rows)
<1>1. N \in Nat /\ IsFiniteSet(Rows)
  <2>1. Rows \in SUBSET Emails
    BY DEF Rows
  <2> QED
    BY <2>1, RowsFinite, AccountConstants, FS_Subset
<1>2. /\ place \in [Rows -> 1 .. N]
      /\ \A f, g \in Rows : f # g =>
           /\ place[f] # place[g]
           /\ profile[f] < profile[g] => place[f] < place[g]
  BY DEF Orders
<1>3. place[e] \in 1 .. N
  BY <1>2
<1>4. place \in Surjection(Rows, 1 .. N)
  <2>1. place \in Injection(Rows, 1 .. N)
    BY <1>2 DEF Injection, IsInjective
  <2>2. IsFiniteSet(1 .. N) /\ Cardinality(1 .. N) = N
    BY <1>1, FS_Interval
  <2> QED
    BY <2>1, <2>2, FS_Injection
<1>5. \A f \in Rows : f \in Below(e) <=> place[f] < place[e]
  <2> SUFFICES ASSUME NEW f \in Rows PROVE f \in Below(e) <=> place[f] < place[e]
    OBVIOUS
  <2>1. profile[f] \in Nat /\ profile[e] \in Nat /\ place[f] \in Nat /\ place[e] \in Nat
    <3>1. place[f] \in 1 .. N
      BY <1>2
    <3>2. profile[f] \in Names /\ profile[e] \in Names
      BY DEF Rows, AccountsTypeOK
    <3>3. place[f] \in Nat /\ place[e] \in Nat
      BY <1>1, <1>3, <3>1
    <3>4. profile[f] \in Nat /\ profile[e] \in Nat
      BY <3>2, AccountConstants
    <3> QED
      BY <3>3, <3>4
  <2>2. CASE f = e
    BY <2>1, <2>2 DEF Below
  <2>3. CASE f # e
    <3>1. profile[f] # profile[e]
      BY <2>3 DEF NoTies
    <3> QED
      BY <1>2, <2>1, <2>3, <3>1 DEF Below
  <2> QED
    BY <2>2, <2>3
<1> DEFINE before == [f \in Below(e) |-> place[f]]
<1>6. before \in Bijection(Below(e), 1 .. place[e] - 1)
  <2>1. Below(e) \subseteq Rows
    BY DEF Below
  <2>2. before \in [Below(e) -> 1 .. place[e] - 1]
    <3> SUFFICES ASSUME NEW f \in Below(e) PROVE place[f] \in 1 .. place[e] - 1
      OBVIOUS
    <3> QED
      BY <1>1, <1>2, <1>3, <1>5, <2>1
  <2>3. \A f, g \in Below(e) : before[f] = before[g] => f = g
    BY <1>2, <2>1
  <2>4. ASSUME NEW k \in 1 .. place[e] - 1 PROVE \E f \in Below(e) : before[f] = k
    <3>1. k \in 1 .. N /\ k < place[e]
      BY <1>1, <1>3
    <3>2. PICK f \in Rows : place[f] = k
      BY <1>4, <3>1 DEF Surjection
    <3> QED
      BY <1>5, <3>1, <3>2
  <2> QED
    BY <2>2, <2>3, <2>4 DEF Bijection, Injection, Surjection, IsInjective
<1>7. Cardinality(1 .. place[e] - 1) = Cardinality(Below(e))
  BY <1>6, BelowFinite, FS_Bijection DEF ExistsBijection
<1>8. Cardinality(1 .. place[e] - 1) = place[e] - 1
  <2>1. place[e] \in Nat /\ place[e] >= 1
    BY <1>1, <1>3
  <2> QED
    BY <2>1, FS_Interval
<1> QED
  BY <1>3, <1>7, <1>8

(* The last page is the one that reaches the last row. *)
LEMMA LastPage ==
  ASSUME NEW page \in Nat \ {0}, NEW total \in Nat, page >= TotalPages(total)
  PROVE  total <= PageSkip(page) + PageSize
<1> DEFINE q == TotalPages(total)
<1>1. PageSize \in Nat \ {0}
  BY AccountConstants
<1>2. q \in Nat /\ total + PageSize - 1 < q * PageSize + PageSize
  BY <1>1 DEF TotalPages
<1>3. total <= q * PageSize
  BY <1>1, <1>2
<1>4. q * PageSize <= page * PageSize
  BY <1>1, <1>2
<1>5. PageSkip(page) + PageSize = page * PageSize
  BY <1>1 DEF PageSkip
<1> QED
  BY <1>1, <1>2, <1>3, <1>4, <1>5

(* Writing a profile keeps what an undisturbed tour relies on.              *)
LEMMA WriteStep ==
  ASSUME AccountsTypeOK, PagingInv, PagingMissesNobody,
         NEW e \in Emails, NEW n \in Names, WriteProfile(e, n)
  PROVE  PagingInv' /\ PagingMissesNobody'
<1>1. CASE tour.at \notin {"count", "read"}
  <2>1. tour' = tour
    BY <1>1 DEF WriteProfile
  <2> QED
    BY <1>1, <2>1 DEF PagingInv, PagingMissesNobody
<1>2. CASE tour.at \in {"count", "read"}
  <2>1. /\ tour' = TourSees(e, n)
        /\ profile' = [profile EXCEPT ![e] = n]
    BY <1>2 DEF WriteProfile
  <2>2. /\ tour'.at = tour.at /\ tour'.page = tour.page
        /\ tour'.total = tour.total /\ tour'.seen = tour.seen
        /\ tour'.owed = IF profile[e] # Null /\ n < profile[e]
                          THEN tour.owed \ {e} ELSE tour.owed
        /\ tour'.steady =>
             /\ tour.steady
             /\ \A f \in Rows \ {e} : profile[f] # n
             /\ IF profile[e] = Null THEN tour.at # "read" ELSE n <= profile[e]
    BY <2>1 DEF TourSees, AccountsTypeOK, Tours
  <2>3. PagingMissesNobody'
    BY <1>2, <2>2 DEF PagingMissesNobody
  <2> SUFFICES ASSUME tour'.steady
               PROVE  /\ NoTies' /\ tour'.owed \subseteq Rows'
                      /\ tour.at = "read" => tour.total = Cardinality(Rows')
                      /\ \A g \in tour'.owed \ tour.seen :
                           PageSkip(tour.page) <= Cardinality(Below(g)')
    BY <2>2, <2>3 DEF PagingInv, PageSkip
  <2>4. /\ NoTies /\ tour.owed \subseteq Rows
        /\ tour.at = "read" => tour.total = Cardinality(Rows)
        /\ \A g \in tour.owed \ tour.seen : PageSkip(tour.page) <= Cardinality(Below(g))
    BY <1>2, <2>2 DEF PagingInv
  <2>5. /\ Rows' = Rows \union {e} /\ profile'[e] = n
        /\ \A f \in Emails \ {e} : profile'[f] = profile[f]
    BY <2>1, AccountConstants DEF Rows, AccountsTypeOK
  <2>6. NoTies'
    <3> SUFFICES ASSUME NEW f \in Rows', NEW g \in Rows', profile'[f] = profile'[g]
                 PROVE  f = g
      BY DEF NoTies
    <3>1. Rows \subseteq Emails
      BY DEF Rows
    <3>2. CASE f # e /\ g # e
      BY <2>4, <2>5, <3>1, <3>2 DEF NoTies
    <3>3. CASE f = e \/ g = e
      BY <2>2, <2>5, <3>1, <3>3
    <3> QED
      BY <3>2, <3>3
  <2>7. tour'.owed \subseteq Rows'
    BY <2>2, <2>4, <2>5
  <2>8. tour.at = "read" => Rows' = Rows
    BY <2>2, <2>5 DEF Rows
  <2>9. ASSUME NEW g \in tour'.owed \ tour.seen
        PROVE  PageSkip(tour.page) <= Cardinality(Below(g)')
    <3>1. g \in tour.owed \ tour.seen /\ g \in Rows
      BY <2>2, <2>4
    <3>2. PageSkip(tour.page) <= Cardinality(Below(g))
      BY <2>4, <3>1
    <3>3. Below(g) \subseteq Below(g)'
      <4> SUFFICES ASSUME NEW f \in Rows, profile[f] < profile[g]
                   PROVE  f \in Rows' /\ profile'[f] < profile'[g]
        BY DEF Below
      <4>1. /\ f \in Emails /\ g \in Emails
            /\ profile[f] \in Names /\ profile[g] \in Names /\ n \in Names
        BY <3>1 DEF Rows, AccountsTypeOK
      <4>2. profile[f] \in Nat /\ profile[g] \in Nat /\ n \in Nat
        BY <4>1, AccountConstants
      <4>3. profile'[g] = profile[g]
        <5>1. CASE g # e
          BY <2>5, <4>1, <5>1
        <5>2. CASE g = e
          <6>1. profile[e] # Null /\ ~(n < profile[e])
            BY <2>2, <3>1, <5>2 DEF Rows
          <6>2. n <= profile[e]
            BY <2>2, <6>1
          <6> QED
            BY <2>5, <4>2, <5>2, <6>1, <6>2
        <5> QED
          BY <5>1, <5>2
      <4>4. profile'[f] <= profile[f] /\ profile'[f] \in Nat
        <5>1. CASE f # e
          BY <2>5, <4>1, <4>2, <5>1
        <5>2. CASE f = e
          BY <2>2, <2>5, <4>2, <5>2 DEF Rows
        <5> QED
          BY <5>1, <5>2
      <4> QED
        BY <2>5, <4>2, <4>3, <4>4
    <3>4. IsFiniteSet(Below(g)')
      <4>1. Below(g)' \in SUBSET Emails
        BY DEF Below, Rows
      <4> QED
        BY <4>1, AccountConstants, FS_Subset
    <3>5. Cardinality(Below(g)) <= Cardinality(Below(g)')
      BY <3>3, <3>4, FS_Subset
    <3>6. /\ PageSkip(tour.page) \in Int /\ Cardinality(Below(g)) \in Nat
          /\ Cardinality(Below(g)') \in Nat
      <4>1. tour.page \in Nat /\ PageSize \in Nat
        BY AccountConstants DEF AccountsTypeOK, Tours
      <4> QED
        BY <4>1, <3>4, BelowFinite, FS_CardinalityType DEF PageSkip
    <3> QED
      BY <3>2, <3>5, <3>6
  <2> QED
    BY <2>4, <2>6, <2>7, <2>8, <2>9
<1> QED
  BY <1>1, <1>2

(* Reading a page keeps it too: what the page has not shown is behind it.   *)
LEMMA ReadStep ==
  ASSUME AccountsTypeOK, PagingInv, ReadPage
  PROVE  PagingInv' /\ PagingMissesNobody'
<1>1. PICK place \in Orders :
        LET last == tour.page >= TotalPages(tour.total)
        IN  tour' = [tour EXCEPT
                       !.at   = IF last THEN "done" ELSE "count",
                       !.page = IF last THEN @ ELSE @ + 1,
                       !.seen = @ \union PageOf(tour.page, place)]
  BY DEF ReadPage
<1> DEFINE last == tour.page >= TotalPages(tour.total)
<1>2. /\ tour.at = "read" /\ profile' = profile
      /\ tour.page \in Nat \ {0} /\ tour.total \in Nat
  BY DEF ReadPage, tables, AccountsTypeOK, Tours
<1>3. /\ tour'.at = IF last THEN "done" ELSE "count"
      /\ tour'.page = IF last THEN tour.page ELSE tour.page + 1
      /\ tour'.seen = tour.seen \union PageOf(tour.page, place)
      /\ tour'.owed = tour.owed /\ tour'.steady = tour.steady
  BY <1>1 DEF AccountsTypeOK, Tours
<1>4. CASE ~tour.steady
  BY <1>3, <1>4 DEF PagingInv, PagingMissesNobody
<1>5. CASE tour.steady
  <2>1. /\ NoTies /\ tour.owed \subseteq Rows /\ tour.total = Cardinality(Rows)
        /\ \A e \in tour.owed \ tour.seen : PageSkip(tour.page) <= Cardinality(Below(e))
    BY <1>2, <1>5 DEF PagingInv
  <2>2. PageSkip(tour.page) \in Int /\ PageSize \in Nat \ {0}
    BY <1>2, AccountConstants DEF PageSkip
  <2>3. ASSUME NEW e \in tour.owed \ tour'.seen
        PROVE  /\ ~last
               /\ PageSkip(tour.page) + PageSize <= Cardinality(Below(e))
    <3>1. e \in Rows /\ e \notin PageOf(tour.page, place)
          /\ PageSkip(tour.page) <= Cardinality(Below(e))
      BY <1>3, <2>1
    <3>2. /\ place[e] \in 1 .. tour.total
          /\ Cardinality(Below(e)) = place[e] - 1
      BY <2>1, <3>1, PlaceIsRank
    <3>3. place[e] \notin PageSkip(tour.page) + 1 .. PageSkip(tour.page) + PageSize
      BY <3>1 DEF PageOf
    <3>4. place[e] > PageSkip(tour.page) + PageSize
      BY <1>2, <2>2, <3>1, <3>2, <3>3
    <3>5. last => tour.total <= PageSkip(tour.page) + PageSize
      BY <1>2, LastPage
    <3> QED
      BY <1>2, <2>2, <3>2, <3>4, <3>5
  <2>4. CASE last
    BY <1>3, <2>1, <2>3, <2>4 DEF PagingInv, PagingMissesNobody
  <2>5. CASE ~last
    <3>1. Rows' = Rows /\ \A e : Below(e)' = Below(e)
      BY <1>2 DEF Rows, Below
    <3>2. NoTies'
      BY <1>2, <2>1, <3>1 DEF NoTies
    <3>3. PageSkip(tour'.page) = PageSkip(tour.page) + PageSize
      BY <1>2, <1>3, <2>2, <2>5 DEF PageSkip
    <3> QED
      BY <1>3, <2>1, <2>3, <2>5, <3>1, <3>2, <3>3 DEF PagingInv, PagingMissesNobody, PageSkip
  <2> QED
    BY <2>4, <2>5
<1> QED
  BY <1>4, <1>5

(* Every step keeps what a tour relies on.                                  *)
LEMMA PagingStep ==
  ASSUME AccountsInv, [Next]_vars
  PROVE  PagingInv' /\ PagingMissesNobody'
<1>1. AccountsTypeOK /\ PagingInv /\ PagingMissesNobody
  BY DEF AccountsInv
<1>2. ASSUME NEW r \in Reqs, InsertProfile(r) PROVE PagingInv' /\ PagingMissesNobody'
  <2>1. reg[r].email \in Emails /\ reg[r].name \in Names
    BY <1>1, <1>2 DEF InsertProfile, AccountsTypeOK, Registrations, Idle
  <2> QED
    BY <1>1, <1>2, <2>1, WriteStep DEF InsertProfile
<1>3. ASSUME NEW e \in Emails, NEW n \in Names, UpsertOwn(e, n)
      PROVE  PagingInv' /\ PagingMissesNobody'
  BY <1>1, <1>3, WriteStep DEF UpsertOwn
<1>4. CASE OpenDirectory
  <2>1. tour' = [NoTour EXCEPT !.at = "count", !.owed = Rows, !.steady = NoTies] /\ profile' = profile
    BY <1>4 DEF OpenDirectory, tables
  <2>2. /\ tour'.at = "count" /\ tour'.owed = Rows /\ tour'.steady = NoTies
        /\ tour'.page = 1
    BY <2>1 DEF NoTour
  <2>3. PageSkip(1) = 0
    BY AccountConstants DEF PageSkip
  <2>4. Rows' = Rows /\ \A e : Below(e)' = Below(e)
    BY <2>1 DEF Rows, Below
  <2>5. NoTies' <=> NoTies
    BY <2>1, <2>4 DEF NoTies
  <2>6. \A e : 0 <= Cardinality(Below(e))
    BY BelowFinite
  <2> QED
    BY <2>2, <2>3, <2>4, <2>5, <2>6 DEF PagingInv, PagingMissesNobody, PageSkip
<1>5. CASE CountRows
  <2>1. /\ tour' = [tour EXCEPT !.at = "read", !.total = Cardinality(Rows)]
        /\ profile' = profile /\ tour.at = "count"
    BY <1>5 DEF CountRows, tables
  <2>2. /\ tour'.at = "read" /\ tour'.total = Cardinality(Rows)
        /\ tour'.owed = tour.owed /\ tour'.seen = tour.seen
        /\ tour'.page = tour.page /\ tour'.steady = tour.steady
    BY <1>1, <2>1 DEF AccountsTypeOK, Tours
  <2>3. Rows' = Rows /\ \A e : Below(e)' = Below(e)
    BY <2>1 DEF Rows, Below
  <2>4. NoTies' <=> NoTies
    BY <2>1, <2>3 DEF NoTies
  <2> QED
    BY <1>1, <2>1, <2>2, <2>3, <2>4 DEF PagingInv, PagingMissesNobody, PageSkip
<1>6. CASE ReadPage
  BY <1>1, <1>6, ReadStep
<1>7. CASE LeaveDirectory
  BY <1>7 DEF LeaveDirectory, NoTour, PagingInv, PagingMissesNobody
<1>8. ASSUME UNCHANGED <<profile, tour>> PROVE PagingInv' /\ PagingMissesNobody'
  BY <1>1, <1>8 DEF PagingInv, PagingMissesNobody, NoTies, Rows, Below, PageSkip
<1>9. ASSUME NEW r \in Reqs, NEW e \in Emails, NEW ro \in Roles, NEW n \in Names,
           Register(r, e, ro, n) \/ InsertUser(r) \/ Fail(r) \/ UNCHANGED vars
      PROVE  PagingInv' /\ PagingMissesNobody'
  BY <1>8, <1>9 DEF Register, InsertUser, Fail, tables, vars
<1> QED
  BY <1>2, <1>3, <1>4, <1>5, <1>6, <1>7, <1>8, <1>9
  DEF Next, vars, tables, Register, InsertUser, Fail

-----------------------------------------------------------------------------
(* The conjunction of what is stored, what was answered and what requests   *)
(* in flight may rely on is inductive.                                      *)
THEOREM Invariance == Spec => []AccountsInv
<1>1. Init => AccountsInv
  <2> SUFFICES ASSUME Init PROVE AccountsInv
    OBVIOUS
  <2>1. AccountsTypeOK
    BY AccountConstants DEF Init, AccountsTypeOK, Rows, NoTour, Tours
  <2>2. BootstrapInv /\ FreshInv /\ CreatedMeansStored /\ SavedProfileKept
    BY AccountConstants
    DEF Init, BootstrapInv, FreshInv, CreatedMeansStored, SavedProfileKept, Idle
  <2>3. PagingInv /\ PagingMissesNobody
    BY DEF Init, NoTour, PagingInv, PagingMissesNobody
  <2> QED
    BY <2>1, <2>2, <2>3 DEF AccountsInv
<1>2. AccountsInv /\ [Next]_vars => AccountsInv'
  BY TypeStep, BootstrapStep, CreatedStep, SavedStep, PagingStep DEF AccountsInv
<1> QED
  BY <1>1, <1>2, PTL DEF Spec

(* Every table has the type of the schema, and only tutors have a profile,  *)
(* for every set of e-mails and any number of overlapping registrations.    *)
THEOREM TypeCorrect == Spec => []AccountsTypeOK
<1>1. AccountsInv => AccountsTypeOK
  BY DEF AccountsInv
<1> QED
  BY <1>1, Invariance, PTL

(* At most one of the registrations that overlap is answered 201, and the   *)
(* account has the role it was told, a tutor's with its profile.            *)
THEOREM OneWinner == Spec => []CreatedMeansStored
<1>1. AccountsInv => CreatedMeansStored
  BY DEF AccountsInv
<1> QED
  BY <1>1, Invariance, PTL

(* The insert of the empty profile never replaces what a tutor has saved.   *)
THEOREM SavedIsKept == Spec => []SavedProfileKept
<1>1. AccountsInv => SavedProfileKept
  BY DEF AccountsInv
<1> QED
  BY <1>1, Invariance, PTL

(* However many tutors register and rename themselves meanwhile, and        *)
(* whatever the page size, a client that pages through the directory is     *)
(* shown every tutor it may expect to see.                                  *)
THEOREM NobodyIsMissed == Spec => []PagingMissesNobody
<1>1. AccountsInv => PagingMissesNobody
  BY DEF AccountsInv
<1> QED
  BY <1>1, Invariance, PTL

=============================================================================

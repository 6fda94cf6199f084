-------------------------------- MODULE Seed --------------------------------
(***************************************************************************)
(* prisma/seed.ts: the rows of its file, the wipe, and the upserts one     *)
(* after the other, by several processes that may die and be run again,    *)
(* next to each other and to the running application.                      *)
(*                                                                         *)
(* A user is the last digits of his id.  Of a row the database says        *)
(* whether it is absent, as in the file, or changed by the application.    *)
(* The objects of the documents are left out: a failed put is logged.      *)
(***************************************************************************)
EXTENDS Naturals, Sequences, SequencesExt, FiniteSets

CONSTANTS
  Seeders,       \* processes that run the seed
  Nobody,        \* no seeder; no matched tutor
  Touched,       \* rows the application writes to
  MaxRuns,       \* bound: starts of a seed
  MaxWrites      \* bound: writes of the application

SeedConstants ==
  /\ Nobody \notin Seeders
  /\ MaxRuns \in Nat /\ MaxWrites \in Nat

VARIABLES
  guarded,    \* seeders with NODE_ENV "production" and no SEED_FORCE
  rows,       \* state of each row of the file
  others,     \* there are rows that are not in the file
  next,       \* seeder -> index of the row it writes next
  plan,       \* seeder -> what its upsert of that row has decided on
  lastWiper,  \* ghost: the seeder that has wiped last
  joined,     \* ghost: another seeder has written since
  written,    \* ghost: the application has written since
  runs, writes

seedVars == <<guarded, rows, others, next, plan, lastWiper, joined, written, runs, writes>>

-----------------------------------------------------------------------------
(* The file. *)
parents == <<1, 2, 3>>
tutors  == <<101, 102, 103, 104, 105, 106, 107, 108, 109, 110>>

Case(id, status, owner, matched) ==
  [id |-> id, status |-> status, owner |-> owner, matched |-> matched]

cases == <<
  Case(201, "OPEN", 1, Nobody),    Case(203, "OPEN", 1, Nobody),
  Case(205, "OPEN", 2, Nobody),    Case(208, "OPEN", 2, Nobody),
  Case(209, "OPEN", 3, Nobody),    Case(202, "MATCHED", 1, 102),
  Case(207, "MATCHED", 2, 105),    Case(210, "MATCHED", 3, 107),
  Case(204, "CLOSED", 1, Nobody),  Case(211, "CLOSED", 2, Nobody),
  Case(213, "CLOSED", 3, Nobody),  Case(212, "OPEN", 3, Nobody) >>

invites == <<
  <<202, 102>>, <<202, 110>>, <<207, 105>>, <<207, 103>>, <<210, 107>>, <<210, 101>>,
  <<201, 101>>, <<201, 107>>, <<203, 103>>, <<203, 108>>, <<205, 105>>,
  <<208, 101>>, <<208, 107>>, <<209, 102>> >>

Document(id, uploader, table, place, deleted) ==
  [id |-> id, uploader |-> uploader, place |-> <<table, place>>, deleted |-> deleted]

documents == <<
  Document(301, 1, "case", 201, FALSE),      Document(305, 1, "case", 203, FALSE),
  Document(306, 103, "case", 203, FALSE),    Document(307, 102, "case", 202, FALSE),
  Document(308, 105, "case", 207, FALSE),    Document(309, 2, "case", 205, TRUE),
  Document(302, 101, "profile", 101, FALSE), Document(303, 102, "profile", 102, FALSE),
  Document(304, 103, "profile", 103, FALSE) >>

(* What is inserted, in the order of main, with the rows it refers to.      *)
Row(table, id, refs) == [key |-> <<table, id>>, refs |-> refs]

Users   == [i \in 1..Len(parents \o tutors) |-> Row("user", (parents \o tutors)[i], {})]
Profiles == [i \in DOMAIN tutors |-> Row("profile", tutors[i], {<<"user", tutors[i]>>})]
Cases   == [i \in DOMAIN cases |->
  LET c == cases[i]
  IN  Row("case", c.id, {<<"user", u>> : u \in {c.owner, c.matched} \ {Nobody}})]
Invites == [i \in DOMAIN invites |->
  LET v == invites[i] IN Row("invite", v, {<<"case", v[1]>>, <<"user", v[2]>>})]
Documents == [i \in DOMAIN documents |->
  LET d == documents[i] IN Row("document", d.id, {<<"user", d.uploader>>, d.place})]

File == Users \o Profiles \o Cases \o Invites \o Documents
Refs == [i \in DOMAIN File |-> {j \in DOMAIN File : File[j].key \in File[i].refs}]
Table(i) == File[i].key[1]
Done     == Len(File) + 1

(* The file obeys the endpoints: parents own cases, "matched tutor MUST     *)
(* have an invite row", a document is on a profile of its uploader, or on a *)
(* case he owns or is invited to.                                           *)
FileIsPlausible ==
  /\ \A i \in DOMAIN cases :
       LET c == cases[i] IN
       /\ Contains(parents, c.owner)
       /\ c.status = "MATCHED" <=> c.matched # Nobody
       /\ c.matched # Nobody => Contains(invites, <<c.id, c.matched>>)
  /\ \A i \in DOMAIN documents :
       LET d == documents[i] IN
       IF d.place[1] = "profile" THEN d.place[2] = d.uploader
       ELSE \E c \in ToSet(cases) : c.id = d.place[2] /\
              (c.owner = d.uploader \/ Contains(invites, <<c.id, d.uploader>>))

-----------------------------------------------------------------------------
SeedInit ==
  /\ guarded \in SUBSET Seeders
  /\ rows = [i \in DOMAIN File |-> "none"] /\ others \in BOOLEAN
  /\ next = [s \in Seeders |-> 0] /\ plan = [s \in Seeders |-> "none"]
  /\ lastWiper = Nobody /\ joined = FALSE /\ written = FALSE
  /\ runs = 0 /\ writes = 0

(* How a run ends, besides Done: killed or turned away, with a row whose    *)
(* references, or which itself, are gone, or with one that is there already. *)
Dead      == Done + 1
Missing   == Done + 2
Duplicate == Done + 3

(* A bug the properties must notice: the accounts are kept. *)
WipeKeepsUsers(s) ==
  /\ next[s] = 0
  /\ rows' = [i \in DOMAIN File |-> IF Table(i) = "user" THEN rows[i] ELSE "none"]
  /\ lastWiper' = s /\ joined' = FALSE /\ written' = FALSE
  /\ next' = [next EXCEPT ![s] = 1]
  /\ UNCHANGED <<guarded, others, plan, runs, writes>>

(* One transaction; the guard against production exits before it.           *)
Wipe(s) ==
  /\ next[s] = 0
  /\ IF s \in guarded
     THEN next' = [next EXCEPT ![s] = Dead]
          /\ UNCHANGED <<rows, others, lastWiper, joined, written>>
     ELSE /\ rows' = [i \in DOMAIN File |-> "none"] /\ others' = FALSE
          /\ lastWiper' = s /\ joined' = FALSE /\ written' = FALSE
          /\ next' = [next EXCEPT ![s] = 1]
  /\ UNCHANGED <<guarded, plan, runs, writes>>

Present(i) == rows[i] # "none"

(* An upsert first looks for the row by the key of its where: with a read   *)
(* of its own when there is nothing to update, as for an invite, and inside *)
(* the INSERT ... ON CONFLICT of the other tables.                          *)
Look(s) ==
  /\ next[s] \in DOMAIN File /\ plan[s] = "none"
  /\ plan' = [plan EXCEPT ![s] = IF Present(next[s]) THEN "update" ELSE "create"]
  /\ UNCHANGED <<guarded, rows, others, next, lastWiper, joined, written, runs, writes>>

(* What another seeder did in between: a row that he created is refused     *)
(* when it is created anew, for certain where nothing but the read knows of *)
(* it, and perhaps where another unique key than that of the where is       *)
(* noticed first; a case has only one.  An invite that he wiped is missed.  *)
MayClash(s, i) == plan[s] = "create" /\ rows[i] \in {"file", "changed"} /\ Table(i) # "case"
MustClash(s, i) == plan[s] = "create" /\ Present(i) /\ Table(i) = "invite"
IsMissed(s, i) ==
  \/ plan[s] = "update" /\ ~Present(i) /\ Table(i) = "invite"
  \/ \E j \in Refs[i] : rows[j] \notin {"file", "changed"}

(* And then writes it; an account of that e-mail keeps its id.              *)
Upsert(s) ==
  /\ plan[s] # "none"
  /\ LET i == next[s] IN
     \/ /\ ~IsMissed(s, i) /\ ~MustClash(s, i)
        /\ rows' = [rows EXCEPT ![i] = IF @ = "foreign" THEN @ ELSE "file"]
        /\ joined' = (joined \/ s # lastWiper)
        /\ next' = [next EXCEPT ![s] = i + 1]
     \/ /\ \/ IsMissed(s, i) /\ next' = [next EXCEPT ![s] = Missing]
           \/ MayClash(s, i) /\ next' = [next EXCEPT ![s] = Duplicate]
        /\ UNCHANGED <<rows, joined>>
  /\ plan' = [plan EXCEPT ![s] = "none"]
  /\ UNCHANGED <<guarded, others, lastWiper, written, runs, writes>>

(* The process is killed or loses the database. *)
Die(s) ==
  /\ next[s] < Done
  /\ next' = [next EXCEPT ![s] = Dead]
  /\ plan' = [plan EXCEPT ![s] = "none"]
  /\ UNCHANGED <<guarded, rows, others, lastWiper, joined, written, runs, writes>>

Again(s) ==
  /\ next[s] \in {Done, Dead, Missing, Duplicate} /\ runs < MaxRuns
  /\ next' = [next EXCEPT ![s] = 0]
  /\ runs' = runs + 1
  /\ UNCHANGED <<guarded, rows, others, plan, lastWiper, joined, written, writes>>

(* The application: somebody registers with an e-mail of the file, changes  *)
(* or soft-deletes what is there, revokes an invite, or adds other rows.    *)
AppWrites ==
  /\ writes < MaxWrites /\ writes' = writes + 1
  /\ \/ \E i \in Touched :
          /\ \/ Table(i) = "user" /\ rows[i] = "none" /\ rows' = [rows EXCEPT ![i] = "foreign"]
             \/ Table(i) \in {"profile", "case", "document"} /\ rows[i] = "file"
                  /\ rows' = [rows EXCEPT ![i] = "changed"]
             \/ Table(i) = "invite" /\ rows[i] = "file" /\ rows' = [rows EXCEPT ![i] = "none"]
          /\ UNCHANGED others
     \/ others' = TRUE /\ UNCHANGED rows
  /\ written' = TRUE
  /\ UNCHANGED <<guarded, next, plan, lastWiper, joined, runs>>

SeedNext ==
  \/ \E s \in Seeders : Wipe(s) \/ Look(s) \/ Upsert(s) \/ Die(s) \/ Again(s)
  \/ AppWrites

-----------------------------------------------------------------------------
SeedTypeOK ==
  /\ rows \in [DOMAIN File -> {"none", "file", "changed", "foreign"}]
  /\ others \in BOOLEAN /\ joined \in BOOLEAN /\ written \in BOOLEAN
  /\ next \in [Seeders -> 0..Duplicate] /\ guarded \subseteq Seeders
  /\ plan \in [Seeders -> {"none", "create", "update"}]
  /\ \A s \in Seeders : plan[s] # "none" => next[s] \in DOMAIN File
  /\ lastWiper \in Seeders \union {Nobody}
  /\ runs \in 0..MaxRuns /\ writes \in 0..MaxWrites

(* SeedIsRepeatable: "the DB always reflects exactly this file - re-running *)
(* is safe": when the seeder that wiped last is done, whatever died half    *)
(* way or still runs next to it, the database is the file.  He misses no    *)
(* row on the way, and only a seeder that writes next to him can make the   *)
(* database refuse one of his as a duplicate.  Excused: writes of the       *)
(* application since the wipe.                                              *)
SeedIsRepeatable ==
  \A s \in Seeders : lastWiper = s /\ ~written =>
    /\ next[s] = Done => (\A i \in DOMAIN File : rows[i] = "file") /\ ~others
    /\ next[s] # Missing
    /\ next[s] = Duplicate => joined
=============================================================================

-------------------------- MODULE DeploymentProofs --------------------------
(***************************************************************************)
(* Results about the seed next to the application, for any number of       *)
(* seeders, runs and writes, and about the container, for any limits.      *)
(***************************************************************************)
EXTENDS MCDeployment, SequenceTheorems, TLAPS

-----------------------------------------------------------------------------
(* The tables in the order in which main fills them. *)
Rank(table) ==
  CASE table = "user"    -> 0
    [] table = "profile" -> 1
    [] table = "case"    -> 2
    [] table = "invite"  -> 3
    [] OTHER             -> 4

(* Rows of one table refer to tables filled before it. *)
Block(s, r) ==
  \A i \in DOMAIN s : Rank(s[i].key[1]) = r /\ \A k \in s[i].refs : Rank(k[1]) < r

(* Tables below r, in order, each row after the tables it refers to. *)
Layered(s, r) ==
  /\ \A i \in DOMAIN s : Rank(s[i].key[1]) < r
  /\ \A i \in DOMAIN s : \A k \in s[i].refs : Rank(k[1]) < Rank(s[i].key[1])
  /\ \A i, j \in DOMAIN s : Rank(s[i].key[1]) < Rank(s[j].key[1]) => i < j

(* The tables are numbered. *)
LEMMA RankType == \A table : Rank(table) \in 0..4
BY DEF Rank

(* A further table may be appended to those before it. *)
LEMMA Stacked ==
  ASSUME NEW S, NEW s \in Seq(S), NEW t \in Seq(S), NEW r \in Nat, Layered(s, r), Block(t, r)
  PROVE  s \o t \in Seq(S) /\ Layered(s \o t, r + 1)
<1>1. /\ s \o t \in Seq(S) /\ Len(s \o t) = Len(s) + Len(t)
      /\ \A i \in 1..Len(s) + Len(t) :
           (s \o t)[i] = IF i <= Len(s) THEN s[i] ELSE t[i - Len(s)]
  BY ConcatProperties, Zenon
<1> DEFINE u == s \o t
<1>2. Len(s) \in Nat /\ Len(t) \in Nat /\ DOMAIN s = 1..Len(s) /\ DOMAIN t = 1..Len(t)
      /\ DOMAIN u = 1..Len(s) + Len(t)
  BY <1>1
<1>3. \A i \in DOMAIN s : i \in DOMAIN u /\ u[i] = s[i]
  BY <1>1, <1>2
<1>4. \A i \in DOMAIN u \ DOMAIN s :
        i - Len(s) \in DOMAIN t /\ u[i] = t[i - Len(s)] /\ \A j \in DOMAIN s : j < i
  BY <1>1, <1>2
<1>5. \A i \in DOMAIN u \ DOMAIN s : Rank(u[i].key[1]) = r /\ \A k \in u[i].refs : Rank(k[1]) < r
  BY <1>4 DEF Block
<1>6. \A i \in DOMAIN s : /\ Rank(u[i].key[1]) < r
                          /\ \A k \in u[i].refs : Rank(k[1]) < Rank(u[i].key[1])
  BY <1>3 DEF Layered
<1>7. \A i, j \in DOMAIN s : Rank(u[i].key[1]) < Rank(u[j].key[1]) => i < j
  BY <1>3 DEF Layered
<1> HIDE DEF u
<1>8. \A i \in DOMAIN u : Rank(u[i].key[1]) \in Nat
  BY RankType
<1>9. Layered(u, r + 1)
  <2>1. \A i \in DOMAIN u : Rank(u[i].key[1]) < r + 1
    BY <1>5, <1>6, <1>8
  <2>2. \A i \in DOMAIN u : \A k \in u[i].refs : Rank(k[1]) < Rank(u[i].key[1])
    BY <1>5, <1>6
  <2>3. ASSUME NEW i \in DOMAIN u, NEW j \in DOMAIN u, Rank(u[i].key[1]) < Rank(u[j].key[1])
        PROVE  i < j
    BY <2>3, <1>4, <1>5, <1>6, <1>7, <1>8
  <2> QED
    BY <2>1, <2>2, <2>3 DEF Layered
<1> QED
  BY <1>1, <1>9 DEF u

(* All rows of the file. *)
Entries == UNION {Range(Users), Range(Profiles), Range(Cases), Range(Invites), Range(Documents)}

(* The lists of the file are sequences, and documents have known places. *)
LEMMA Lists ==
  /\ parents \o tutors \in Seq(Int) /\ tutors \in Seq(Int)
  /\ Len(cases) \in Nat /\ DOMAIN cases = 1..Len(cases)
  /\ Len(invites) \in Nat /\ DOMAIN invites = 1..Len(invites)
  /\ Len(documents) \in Nat /\ DOMAIN documents = 1..Len(documents)
  /\ \A i \in DOMAIN documents : documents[i].place[1] \in {"case", "profile"}
<1>1. parents \in Seq(Int) /\ tutors \in Seq(Int)
  BY DEF parents, tutors
<1>2. parents \o tutors \in Seq(Int)
  BY <1>1, ConcatProperties, Zenon
<1>3. Len(cases) = 12 /\ DOMAIN cases = 1..12
  BY DEF cases
<1>4. Len(invites) = 14 /\ DOMAIN invites = 1..14
  BY DEF invites
<1>5. Len(documents) = 9 /\ DOMAIN documents = 1..9
  BY DEF documents
<1>6. \A i \in 1..9 : documents[i].place[1] \in {"case", "profile"}
  BY DEF documents, Document
<1> QED
  BY <1>1, <1>2, <1>3, <1>4, <1>5, <1>6

(* Each table of the file refers to tables before it only. *)
LEMMA Sections ==
  /\ Users \in Seq(Entries) /\ Layered(Users, 1)
  /\ Profiles \in Seq(Entries) /\ Block(Profiles, 1)
  /\ Cases \in Seq(Entries) /\ Block(Cases, 2)
  /\ Invites \in Seq(Entries) /\ Block(Invites, 3)
  /\ Documents \in Seq(Entries) /\ Block(Documents, 4)
<1>1. ASSUME NEW n \in Nat, NEW s, DOMAIN s = 1..n, s = [i \in DOMAIN s |-> s[i]],
             Range(s) \subseteq Entries
      PROVE  s \in Seq(Entries)
  <2>1. s \in [1..n -> Entries]
    BY <1>1 DEF Range
  <2> QED
    BY <2>1
<1>2. Users \in Seq(Entries) /\ Layered(Users, 1)
  <2>1. /\ Users = [i \in DOMAIN Users |-> Users[i]]
        /\ \A i \in DOMAIN Users : Users[i].key[1] = "user" /\ Users[i].refs = {}
    BY DEF Users, Row
  <2>2. Len(parents \o tutors) \in Nat /\ DOMAIN Users = 1..Len(parents \o tutors)
    BY Lists DEF Users
  <2>3. Users \in Seq(Entries)
    BY <1>1, <2>1, <2>2 DEF Entries
  <2> QED
    BY <2>1, <2>3 DEF Layered, Rank
<1>3. Profiles \in Seq(Entries) /\ Block(Profiles, 1)
  <2>1. /\ Profiles = [i \in DOMAIN Profiles |-> Profiles[i]]
        /\ \A i \in DOMAIN Profiles : /\ Profiles[i].key[1] = "profile"
                                     /\ \A k \in Profiles[i].refs : k[1] = "user"
    BY DEF Profiles, Row
  <2>2. Len(tutors) \in Nat /\ DOMAIN Profiles = 1..Len(tutors)
    BY Lists DEF Profiles
  <2>3. Profiles \in Seq(Entries)
    BY <1>1, <2>1, <2>2 DEF Entries
  <2> QED
    BY <2>1, <2>3 DEF Block, Rank
<1>4. Cases \in Seq(Entries) /\ Block(Cases, 2)
  <2>1. /\ Cases = [i \in DOMAIN Cases |-> Cases[i]]
        /\ \A i \in DOMAIN Cases : /\ Cases[i].key[1] = "case"
                                  /\ \A k \in Cases[i].refs : k[1] = "user"
    BY DEF Cases, Row
  <2>2. DOMAIN Cases = 1..Len(cases)
    BY Lists DEF Cases
  <2>3. Cases \in Seq(Entries)
    BY <1>1, <2>1, <2>2, Lists DEF Entries
  <2> QED
    BY <2>1, <2>3 DEF Block, Rank
<1>5. Invites \in Seq(Entries) /\ Block(Invites, 3)
  <2>1. /\ Invites = [i \in DOMAIN Invites |-> Invites[i]]
        /\ \A i \in DOMAIN Invites : /\ Invites[i].key[1] = "invite"
                                    /\ \A k \in Invites[i].refs : k[1] \in {"user", "case"}
    BY DEF Invites, Row
  <2>2. DOMAIN Invites = 1..Len(invites)
    BY Lists DEF Invites
  <2>3. Invites \in Seq(Entries)
    BY <1>1, <2>1, <2>2, Lists DEF Entries
  <2> QED
    BY <2>1, <2>3 DEF Block, Rank
<1>6. Documents \in Seq(Entries) /\ Block(Documents, 4)
  <2>1. /\ Documents = [i \in DOMAIN Documents |-> Documents[i]]
        /\ \A i \in DOMAIN Documents :
             /\ Documents[i].key[1] = "document"
             /\ \A k \in Documents[i].refs : k[1] \in {"user", "case", "profile"}
    BY Lists DEF Documents, Row
  <2>2. DOMAIN Documents = 1..Len(documents)
    BY Lists DEF Documents
  <2>3. Documents \in Seq(Entries)
    BY <1>1, <2>1, <2>2, Lists DEF Entries
  <2> QED
    BY <2>1, <2>3 DEF Block, Rank
<1> QED
  BY <1>2, <1>3, <1>4, <1>5, <1>6

(* A row refers to rows of the file that are written before it: no upsert   *)
(* can miss what the same run has inserted.                                 *)
LEMMA RefsComeFirst ==
  /\ Len(File) \in Nat /\ DOMAIN File = 1..Len(File)
  /\ \A i \in DOMAIN File : Refs[i] \subseteq DOMAIN File /\ \A j \in Refs[i] : j < i
<1> DEFINE A == Users \o Profiles
           B == A \o Cases
           C == B \o Invites
<1>1. A \in Seq(Entries) /\ Layered(A, 2)
  BY Sections, Stacked
<1> HIDE DEF A
<1>2. B \in Seq(Entries) /\ Layered(B, 3)
  BY <1>1, Sections, Stacked
<1> HIDE DEF B
<1>3. C \in Seq(Entries) /\ Layered(C, 4)
  BY <1>2, Sections, Stacked
<1> HIDE DEF C
<1>4. File \in Seq(Entries) /\ Layered(File, 5)
  <2>1. File = C \o Documents
    BY DEF File, A, B, C
  <2>2. C \o Documents \in Seq(Entries) /\ Layered(C \o Documents, 5)
    BY <1>3, Sections, Stacked
  <2> QED
    BY <2>1, <2>2
<1>5. ASSUME NEW i \in DOMAIN File, NEW j \in Refs[i] PROVE j \in DOMAIN File /\ j < i
  <2>1. j \in DOMAIN File /\ File[j].key \in File[i].refs
    BY DEF Refs
  <2>2. Rank(File[j].key[1]) < Rank(File[i].key[1])
    BY <1>4, <2>1 DEF Layered
  <2> QED
    BY <1>4, <2>1, <2>2 DEF Layered
<1> QED
  BY <1>4, <1>5

-----------------------------------------------------------------------------
(* A seeder that wiped last and runs on has a prefix of the file behind     *)
(* him, and in front of him only what other seeders have put there: what he *)
(* found is still there, and what he did not find comes from them.          *)
Ahead(s) ==
  /\ next[s] # Missing
  /\ next[s] = Duplicate => joined
  /\ next[s] \in 1..Done =>
       /\ ~others
       /\ \A i \in DOMAIN File : rows[i] \in {"none", "file"}
       /\ \A i \in DOMAIN File : i < next[s] => rows[i] = "file"
  /\ plan[s] = "update" => Present(next[s])
  /\ plan[s] = "create" => ~Present(next[s]) \/ joined

SeederInv == \A s \in Seeders : lastWiper = s /\ ~written => Ahead(s)

(* Done is behind every row. *)
LEMMA Ends == Done \in Nat \ {0} /\ \A i \in DOMAIN File : i \in Nat \ {0} /\ i < Done
BY RefsComeFirst DEF Done

(* Where a run can be. *)
LEMMA Positions ==
  /\ {0, 1, Dead, Missing, Duplicate} \subseteq 0..Duplicate
  /\ \A i \in DOMAIN File : i \in 1..Done /\ i + 1 \in 1..Done /\ i + 1 \in 0..Duplicate
  /\ 0 \notin 1..Done /\ Dead \notin 1..Done /\ 0 \notin DOMAIN File
  /\ Missing \notin 1..Done /\ Duplicate \notin 1..Done
  /\ 0 \notin {Missing, Duplicate} /\ Dead \notin {Missing, Duplicate} /\ Missing # Duplicate
<1>1. Dead = Done + 1 /\ Missing = Done + 2 /\ Duplicate = Done + 3
  BY DEF Dead, Missing, Duplicate
<1> QED
  BY <1>1, Ends

(* Before the first run. *)
LEMMA SeedInitially ==
  ASSUME SeedInit
  PROVE  SeedTypeOK /\ SeederInv
<1>1. MaxRuns \in Nat /\ MaxWrites \in Nat /\ Nobody \notin Seeders
  BY DeploymentConstants DEF SeedConstants
<1>2. /\ guarded \subseteq Seeders /\ others \in BOOLEAN /\ joined \in BOOLEAN /\ written = FALSE
      /\ lastWiper \in Seeders \union {Nobody} /\ lastWiper = Nobody
      /\ written \in BOOLEAN /\ runs = 0 /\ writes = 0
      /\ rows \in [DOMAIN File -> {"none", "file", "changed", "foreign"}]
  BY DEF SeedInit
<1>3. /\ next \in [Seeders -> 0..Duplicate]
      /\ plan \in [Seeders -> {"none", "create", "update"}] /\ \A s \in Seeders : plan[s] = "none"
  BY Positions DEF SeedInit
<1>4. SeederInv
  BY <1>1, <1>2 DEF SeederInv
<1>5. runs \in 0..MaxRuns /\ writes \in 0..MaxWrites
  BY <1>1, <1>2
<1> QED
  BY <1>2, <1>3, <1>4, <1>5, Zenon DEF SeedTypeOK

(* Every step of a seeder or of the application respects the types. *)
LEMMA SeedTypeStep ==
  ASSUME SeedTypeOK, SeedNext
  PROVE  SeedTypeOK'
<1> DEFINE States == {"none", "file", "changed", "foreign"}
           Plans == {"none", "create", "update"}
           Rows == DOMAIN File
<1>1. MaxRuns \in Nat /\ MaxWrites \in Nat
  BY DeploymentConstants DEF SeedConstants
<1>2. SUFFICES /\ rows' \in [Rows -> States] /\ next' \in [Seeders -> 0..Duplicate]
               /\ plan' \in [Seeders -> Plans]
               /\ \A s \in Seeders : plan'[s] # "none" => next'[s] \in Rows
               /\ others' \in BOOLEAN /\ joined' \in BOOLEAN /\ written' \in BOOLEAN
               /\ guarded' \subseteq Seeders
               /\ lastWiper' \in Seeders \union {Nobody}
               /\ runs' \in 0..MaxRuns /\ writes' \in 0..MaxWrites
  BY DEF SeedTypeOK
<1>3. /\ rows \in [Rows -> States] /\ next \in [Seeders -> 0..Duplicate]
      /\ plan \in [Seeders -> Plans] /\ \A s \in Seeders : plan[s] # "none" => next[s] \in Rows
  BY DEF SeedTypeOK
<1>4. /\ others \in BOOLEAN /\ joined \in BOOLEAN /\ written \in BOOLEAN
      /\ guarded \subseteq Seeders /\ lastWiper \in Seeders \union {Nobody}
      /\ runs \in 0..MaxRuns /\ writes \in 0..MaxWrites
  BY DEF SeedTypeOK
<1>5. rows' \in [Rows -> States]
  BY <1>3 DEF SeedNext, Wipe, Look, Upsert, Die, Again, AppWrites
<1>6. /\ next' \in [Seeders -> 0..Duplicate] /\ plan' \in [Seeders -> Plans]
      /\ \A s \in Seeders : plan'[s] # "none" => next'[s] \in Rows
  <2>1. ASSUME NEW s \in Seeders, Wipe(s) \/ Look(s) \/ Upsert(s) \/ Die(s) \/ Again(s)
        PROVE  \E n \in 0..Duplicate, a \in Plans :
                 /\ next' = [next EXCEPT ![s] = n] /\ plan' = [plan EXCEPT ![s] = a]
                 /\ a # "none" => n \in Rows
    <3>1. plan = [plan EXCEPT ![s] = plan[s]] /\ next = [next EXCEPT ![s] = next[s]]
          /\ plan[s] \in Plans /\ next[s] \in 0..Duplicate
      BY <1>3
    <3>2. CASE Wipe(s)
      <4>1. plan[s] = "none" /\ plan' = plan
        BY <3>2, <1>3, Positions DEF Wipe
      <4> QED
        BY <3>1, <3>2, <4>1, Positions DEF Wipe
    <3>3. CASE Look(s)
      <4>1. next[s] \in Rows /\ next' = next
        BY <3>3 DEF Look
      <4>2. PICK a \in Plans : plan' = [plan EXCEPT ![s] = a]
        BY <3>3 DEF Look
      <4> QED
        BY <3>1, <4>1, <4>2
    <3>4. CASE Upsert(s)
      <4>1. next[s] \in Rows /\ plan' = [plan EXCEPT ![s] = "none"]
        BY <1>3, <3>4 DEF Upsert
      <4>2. PICK n \in 0..Duplicate : next' = [next EXCEPT ![s] = n]
        BY <3>4, <4>1, Positions DEF Upsert
      <4> QED
        BY <4>1, <4>2
    <3>5. CASE Die(s)
      BY <3>5, Positions DEF Die
    <3>6. CASE Again(s)
      <4>1. plan[s] = "none" /\ plan' = plan
        BY <3>6, <1>3, Positions, Ends DEF Again, Dead, Missing, Duplicate
      <4> QED
        BY <3>1, <3>6, <4>1, Positions DEF Again
    <3> QED
      BY <2>1, <3>2, <3>3, <3>4, <3>5, <3>6
  <2>2. ASSUME NEW s \in Seeders, Wipe(s) \/ Look(s) \/ Upsert(s) \/ Die(s) \/ Again(s)
        PROVE  /\ next' \in [Seeders -> 0..Duplicate] /\ plan' \in [Seeders -> Plans]
               /\ \A t \in Seeders : plan'[t] # "none" => next'[t] \in Rows
    <3>1. PICK n \in 0..Duplicate, a \in Plans :
            /\ next' = [next EXCEPT ![s] = n] /\ plan' = [plan EXCEPT ![s] = a]
            /\ a # "none" => n \in Rows
      BY <2>1, <2>2
    <3> QED
      BY <1>3, <3>1
  <2>3. CASE AppWrites
    BY <1>3, <2>3 DEF AppWrites
  <2> QED
    BY <2>2, <2>3 DEF SeedNext
<1>7. /\ others' \in BOOLEAN /\ joined' \in BOOLEAN /\ written' \in BOOLEAN
      /\ guarded' \subseteq Seeders /\ lastWiper' \in Seeders \union {Nobody}
  BY <1>4 DEF SeedNext, Wipe, Look, Upsert, Die, Again, AppWrites
<1>8. runs' \in 0..MaxRuns /\ writes' \in 0..MaxWrites
  BY <1>1, <1>4 DEF SeedNext, Wipe, Look, Upsert, Die, Again, AppWrites
<1> QED
  BY <1>5, <1>6, <1>7, <1>8

(* SeederInv is kept: a row is upserted after the rows it refers to, what   *)
(* was found stays, and what other seeders upsert is of the same file.      *)
LEMMA SeederStep ==
  ASSUME SeedTypeOK, SeederInv, SeedNext
  PROVE  SeederInv'
<1> SUFFICES ASSUME NEW t \in Seeders, lastWiper' = t, ~written' PROVE Ahead(t)'
  BY DEF SeederInv
<1>1. SeedConstants
  BY DeploymentConstants
<1>2. lastWiper = t /\ ~written => Ahead(t)
  BY DEF SeederInv
<1>3. /\ rows \in [DOMAIN File -> {"none", "file", "changed", "foreign"}]
      /\ next \in [Seeders -> 0..Duplicate]
      /\ plan \in [Seeders -> {"none", "create", "update"}]
      /\ \A s \in Seeders : plan[s] # "none" => next[s] \in DOMAIN File
  BY DEF SeedTypeOK
<1>4. ASSUME NEW s \in Seeders, Wipe(s) PROVE Ahead(t)'
  <2>1. CASE s \in guarded
    <3>1. /\ Ahead(t) /\ UNCHANGED <<rows, others, plan, joined>>
          /\ next' = [next EXCEPT ![s] = Dead] /\ plan[s] = "none"
      BY <1>2, <1>3, <1>4, <2>1, Positions DEF Wipe
    <3> QED
      BY <1>3, <3>1, Positions DEF Ahead, Present
  <2>2. CASE s \notin guarded
    <3>1. /\ s = t /\ next' = [next EXCEPT ![t] = 1] /\ plan' = plan /\ plan[t] = "none"
          /\ ~others' /\ rows' = [i \in DOMAIN File |-> "none"]
      BY <1>3, <1>4, <2>2, Positions DEF Wipe
    <3>2. next'[t] = 1 /\ plan'[t] = "none"
      BY <1>3, <3>1
    <3>3. 1 \notin {Missing, Duplicate} /\ \A i \in DOMAIN File : ~(i < 1)
      BY Ends DEF Missing, Duplicate
    <3> QED
      BY <3>1, <3>2, <3>3 DEF Ahead
  <2> QED
    BY <2>1, <2>2
<1>5. ASSUME NEW s \in Seeders, Look(s) PROVE Ahead(t)'
  <2>1. /\ Ahead(t) /\ UNCHANGED <<rows, others, next, joined>>
        /\ plan' = [plan EXCEPT ![s] = IF Present(next[s]) THEN "update" ELSE "create"]
    BY <1>2, <1>5 DEF Look
  <2> QED
    BY <1>3, <2>1 DEF Ahead, Present
<1>6. ASSUME NEW s \in Seeders, Upsert(s) PROVE Ahead(t)'
  <2>1. Ahead(t) /\ others' = others /\ lastWiper = t
    BY <1>2, <1>6 DEF Upsert
  <2>2. next[s] \in DOMAIN File /\ plan' = [plan EXCEPT ![s] = "none"]
    BY <1>3, <1>6 DEF Upsert
  <2> PICK i \in DOMAIN File : i = next[s]
    BY <2>2
  <2>3. CASE s = t
    <3>1. i \in 1..Done /\ i + 1 \in 1..Done
      BY Positions
    <3>2. ~others /\ \A j \in DOMAIN File : rows[j] \in {"none", "file"} /\ (j < i => rows[j] = "file")
      BY <2>1, <2>3, <3>1 DEF Ahead
    <3>3. ~IsMissed(t, i)
      BY <2>1, <2>3, <3>2, RefsComeFirst DEF IsMissed, Ahead
    <3>4. plan'[t] = "none"
      BY <1>3, <2>2, <2>3
    <3>5. CASE /\ rows' = [rows EXCEPT ![i] = IF @ = "foreign" THEN @ ELSE "file"]
               /\ next' = [next EXCEPT ![t] = i + 1]
      <4>1. next'[t] = i + 1 /\ i + 1 \notin {Missing, Duplicate}
        BY <1>3, <3>1, <3>5, Positions
      <4>2. \A j \in DOMAIN File :
              rows'[j] \in {"none", "file"} /\ (j < i \/ j = i => rows'[j] = "file")
        BY <1>3, <3>2, <3>5
      <4>3. \A j \in DOMAIN File : j < i + 1 => j < i \/ j = i
        BY Ends
      <4> QED
        BY <2>1, <3>2, <3>4, <4>1, <4>2, <4>3 DEF Ahead
    <3>6. CASE /\ MayClash(t, i) /\ next' = [next EXCEPT ![t] = Duplicate]
               /\ UNCHANGED <<rows, joined>>
      <4>1. next'[t] = Duplicate
        BY <1>3, <3>6
      <4>2. joined'
        BY <2>1, <2>3, <3>6 DEF Ahead, MayClash, Present
      <4> QED
        BY <3>4, <4>1, <4>2, Positions DEF Ahead
    <3> QED
      BY <1>6, <2>3, <3>3, <3>5, <3>6 DEF Upsert
  <2>4. CASE s # t
    <3>1. next'[t] = next[t] /\ plan'[t] = plan[t]
      BY <1>3, <1>6, <2>2, <2>4 DEF Upsert
    <3>2. /\ \A j \in DOMAIN File : rows'[j] \in {rows[j], "file"}
          /\ joined => joined'
          /\ rows' = rows \/ joined'
      <4>1. \/ /\ rows' = [rows EXCEPT ![i] = IF @ = "foreign" THEN @ ELSE "file"]
               /\ joined' = (joined \/ s # lastWiper)
            \/ rows' = rows /\ joined' = joined
        BY <1>6 DEF Upsert
      <4>2. CASE /\ rows' = [rows EXCEPT ![i] = IF @ = "foreign" THEN @ ELSE "file"]
                 /\ joined' = (joined \/ s # lastWiper)
        <5>1. joined'
          BY <2>1, <2>4, <4>2
        <5>2. \A j \in DOMAIN File : rows'[j] \in {rows[j], "file"}
          BY <1>3, <4>2
        <5> QED
          BY <5>1, <5>2
      <4>3. CASE rows' = rows /\ joined' = joined
        BY <4>3
      <4> QED
        BY <4>1, <4>2, <4>3
    <3>3. plan[t] # "none" => next[t] \in DOMAIN File
      BY <1>3
    <3> QED
      BY <2>1, <3>1, <3>2, <3>3 DEF Ahead, Present
  <2> QED
    BY <2>3, <2>4
<1>7. ASSUME NEW s \in Seeders, Die(s) PROVE Ahead(t)'
  <2>1. /\ Ahead(t) /\ UNCHANGED <<rows, others, joined>>
        /\ next' = [next EXCEPT ![s] = Dead] /\ plan' = [plan EXCEPT ![s] = "none"]
    BY <1>2, <1>7 DEF Die
  <2> QED
    BY <1>3, <2>1, Positions DEF Ahead, Present
<1>8. ASSUME NEW s \in Seeders, Again(s) PROVE Ahead(t)'
  <2>1. /\ Ahead(t) /\ UNCHANGED <<rows, others, plan, joined>>
        /\ next' = [next EXCEPT ![s] = 0]
    BY <1>2, <1>8 DEF Again
  <2>2. plan[s] = "none"
    BY <1>3, <1>8, Positions, Ends DEF Again, Dead, Missing, Duplicate
  <2> QED
    BY <1>3, <2>1, <2>2, Positions DEF Ahead, Present
<1>9. CASE AppWrites
  BY <1>9 DEF AppWrites
<1> QED
  BY <1>4, <1>5, <1>6, <1>7, <1>8, <1>9 DEF SeedNext

-----------------------------------------------------------------------------
(* What start.sh may rely on: nothing was probed, missed or served before   *)
(* it got there.                                                            *)
ScriptInv ==
  /\ step \in {"migrate", "launch"} => probes = 0
  /\ step = "probe" => probes < MaxProbes
  /\ step \notin {"wait", "exited"} => missed = {}

(* Before the script runs. *)
LEMMA BootInitially ==
  ASSUME Boot!BootInit
  PROVE  Boot!BootTypeOK /\ ScriptInv
<1>1. Boot!BootConstants
  BY DeploymentConstants
<1> QED
  BY <1>1 DEF Boot!BootInit, Boot!BootTypeOK, Boot!Steps, Boot!Procs, Boot!Dead, ScriptInv,
     Boot!BootConstants

(* Every step of the script, the processes and the platform keeps the types *)
(* and ScriptInv.                                                           *)
LEMMA BootStep ==
  ASSUME Boot!BootTypeOK, ScriptInv, Boot!BootNext
  PROVE  Boot!BootTypeOK' /\ ScriptInv'
<1>1. Boot!BootConstants
  BY DeploymentConstants
<1> USE <1>1 DEF Boot!BootConstants, Boot!BootTypeOK, Boot!Steps, Boot!Procs, Boot!Dead,
        Boot!Exit, Boot!Outage, ScriptInv
<1>2. CASE Boot!Migrate
  BY <1>2 DEF Boot!Migrate
<1>3. CASE Boot!Launch
  BY <1>3 DEF Boot!Launch
<1>4. CASE Boot!BackendStarts
  BY <1>4 DEF Boot!BackendStarts
<1>5. CASE Boot!Probe
  BY <1>5 DEF Boot!Probe
<1>6. CASE Boot!StartFrontend
  BY <1>6 DEF Boot!StartFrontend
<1>7. CASE Boot!CallWait
  BY <1>7 DEF Boot!CallWait
<1>8. CASE Boot!WaitReturns
  BY <1>8 DEF Boot!WaitReturns
<1>9. CASE Boot!Restart
  BY <1>9 DEF Boot!Restart
<1>10. ASSUME NEW p \in Boot!Procs, Boot!Crash(p) PROVE Boot!BootTypeOK' /\ ScriptInv'
  BY <1>10 DEF Boot!Crash
<1>11. CASE Boot!DatabaseChanges
  BY <1>11 DEF Boot!DatabaseChanges
<1> QED
  BY <1>2, <1>3, <1>4, <1>5, <1>6, <1>7, <1>8, <1>9, <1>10, <1>11 DEF Boot!BootNext

-----------------------------------------------------------------------------
(* Both at once: one of the two rests in every behaviour. *)
DeployInv == DeployTypeOK /\ SeederInv /\ (step = "off" \/ ScriptInv)

(* The invariant holds of every behaviour. *)
THEOREM DeployInvariance == DeploySpec => []DeployInv
<1>1. Init => DeployInv
  BY SeedInitially, BootInitially DEF Init, SeedRests, BootRests, DeployInv, DeployTypeOK
<1>2. DeployInv /\ [Next]_<<bootVars, seedVars>> => DeployInv'
  <2> SUFFICES ASSUME DeployInv, [Next]_<<bootVars, seedVars>> PROVE DeployInv'
    OBVIOUS
  <2>1. CASE step # "off" /\ Boot!BootNext /\ UNCHANGED seedVars
    <3>1. Boot!BootTypeOK' /\ ScriptInv'
      BY <2>1, BootStep DEF DeployInv, DeployTypeOK
    <3>2. SeedTypeOK' /\ SeederInv'
      BY <2>1 DEF DeployInv, DeployTypeOK, SeedTypeOK, SeederInv, Ahead, Present, seedVars
    <3> QED
      BY <3>1, <3>2 DEF DeployInv, DeployTypeOK
  <2>2. CASE step = "off" /\ SeedNext /\ UNCHANGED bootVars
    <3>1. SeedTypeOK' /\ SeederInv' /\ step' = "off"
      BY <2>2, SeedTypeStep, SeederStep DEF DeployInv, DeployTypeOK, bootVars
    <3> QED
      BY <3>1 DEF DeployInv, DeployTypeOK
  <2>3. CASE UNCHANGED <<bootVars, seedVars>>
    BY <2>3 DEF DeployInv, DeployTypeOK, SeedTypeOK, SeederInv, Ahead, Present, ScriptInv,
       bootVars, seedVars, Boot!BootTypeOK, Boot!Dead
  <2> QED
    BY <2>1, <2>2, <2>3 DEF Next
<1> QED
  BY <1>1, <1>2, PTL DEF DeploySpec

(* Every variable has its type, for any limits and any number of seeders. *)
THEOREM DeployTypesCorrect == DeploySpec => []DeployTypeOK
<1>1. DeployInv => DeployTypeOK
  BY DEF DeployInv
<1> QED
  BY <1>1, DeployInvariance, PTL

(* Whatever died half way or still runs next to it, the seeder that wiped   *)
(* last and is done leaves the database as the file says; he misses no row, *)
(* and one that is refused as a duplicate was written by another seeder.    *)
THEOREM SeedingIsRepeatable == DeploySpec => []SeedIsRepeatable
<1>1. DeployInv => SeedIsRepeatable
  <2> SUFFICES ASSUME DeployInv, NEW s \in Seeders, lastWiper = s, ~written
               PROVE  /\ next[s] = Done => (\A i \in DOMAIN File : rows[i] = "file") /\ ~others
                      /\ next[s] # Missing
                      /\ next[s] = Duplicate => joined
    BY DEF SeedIsRepeatable
  <2>1. Done \in 1..Done /\ \A i \in DOMAIN File : i < Done
    BY Ends
  <2> QED
    BY <2>1 DEF DeployInv, SeederInv, Ahead
<1> QED
  BY <1>1, DeployInvariance, PTL

=============================================================================

--------------------------- MODULE Recommendations --------------------------
(***************************************************************************)
(* recommend: the tutors suggested for a case, ranked by the tokens their  *)
(* profile shares with it.  Parents edit the case, tutors their profiles,  *)
(* invites come and go, and the suggestions are asked for in between.      *)
(*                                                                         *)
(* A text is the set of its tokens, a display name its place in the order  *)
(* of names.                                                               *)
(***************************************************************************)
EXTENDS Naturals, Sequences, SequencesExt, FiniteSetsExt

CONSTANTS
  Tutors,
  Tokens,             \* what tokenize finds in a text
  Names,              \* places in the order of display names
  MaxRecommendations  \* MAX_RECOMMENDATIONS

RecommendationsConstants ==
  /\ IsFiniteSet(Tutors) /\ IsFiniteSet(Tokens)
  /\ Names \subseteq Nat /\ MaxRecommendations \in Nat

VARIABLES
  profiles,  \* tutor -> his profile; some have none
  brief,     \* the case: tokens of the subject, tokens of the rest
  invited,
  answer,    \* the suggestions answered last
  edited     \* ghost: the tables have changed since, the answer is no matter

tables == <<profiles, brief, invited>>
vars   == <<tables, answer, edited>>

Profile == [name : Names, tokens : SUBSET Tokens]
SubjectMatchWeight == 5
TokenOverlapWeight == 1

ScoreOverlap(p) ==
  SubjectMatchWeight * Cardinality(brief.subject \intersect p.tokens)
    + TokenOverlapWeight * Cardinality(brief.text \intersect p.tokens)
Score(t) == ScoreOverlap(profiles[t])

(* The comparison of the sort. *)
Before(t, u) ==
  Score(t) > Score(u) \/ (Score(t) = Score(u) /\ profiles[t].name < profiles[u].name)

(* The rows come in no particular order, and the sort keeps the order of    *)
(* rows that compare equal.                                                 *)
Sorted(rows) ==
  LET upTo(i) == {j \in DOMAIN rows : Before(rows[j], rows[i]) \/ (~Before(rows[i], rows[j]) /\ j <= i)}
  IN  [k \in DOMAIN rows |-> rows[CHOOSE i \in DOMAIN rows : Cardinality(upTo(i)) = k]]

Suggestion(t) == [tutor |-> t, score |-> Score(t), alreadyInvited |-> t \in invited]

(* A bug the properties must notice: the rows are cut, then sorted. *)
SuggestionsOfFirst(rows) ==
  LET first == SubSeq(rows, 1, Min({MaxRecommendations, Len(rows)}))
  IN  [i \in DOMAIN first |-> Suggestion(Sorted(first)[i])]

Suggestions(rows) ==
  [i \in 1..Min({MaxRecommendations, Len(rows)}) |-> Suggestion(Sorted(rows)[i])]

Init ==
  /\ profiles \in UNION {[T -> Profile] : T \in SUBSET Tutors}
  /\ brief \in [subject : SUBSET Tokens, text : SUBSET Tokens]
  /\ invited = {}
  /\ answer = <<>> /\ edited = TRUE

-----------------------------------------------------------------------------
Recommend ==
  /\ \E rows \in SetToSeqs(DOMAIN profiles) : answer' = Suggestions(rows)
  /\ edited' = FALSE
  /\ UNCHANGED tables

Edited == edited' = TRUE /\ answer' = <<>>

SaveProfile(t, p) ==
  /\ profiles' = [u \in DOMAIN profiles \union {t} |-> IF u = t THEN p ELSE profiles[u]]
  /\ Edited
  /\ UNCHANGED <<brief, invited>>

EditCase(b) ==
  /\ brief' = b /\ Edited
  /\ UNCHANGED <<profiles, invited>>

(* The parent invites a tutor or revokes his invite. *)
ChangeInvite(t) ==
  /\ invited' = IF t \in invited THEN invited \ {t} ELSE invited \union {t}
  /\ Edited
  /\ UNCHANGED <<profiles, brief>>

Next ==
  \/ Recommend
  \/ \E t \in Tutors, p \in Profile : SaveProfile(t, p)
  \/ \E b \in [subject : SUBSET Tokens, text : SUBSET Tokens] : EditCase(b)
  \/ \E t \in DOMAIN profiles : ChangeInvite(t)

RecommendationsSpec == Init /\ [][Next]_vars

-----------------------------------------------------------------------------
RecommendationsTypeOK ==
  /\ DOMAIN profiles \subseteq Tutors /\ \A t \in DOMAIN profiles : profiles[t] \in Profile
  /\ brief \in [subject : SUBSET Tokens, text : SUBSET Tokens]
  /\ invited \subseteq DOMAIN profiles /\ edited \in BOOLEAN
  /\ Len(answer) <= MaxRecommendations

(* SuggestionsAreBest: as long as nothing was edited, nobody left out       *)
(* should have been in: whoever is missing shares no more with the case,    *)
(* a token of its subject counting as much as five others, than every tutor *)
(* suggested, and fewer than the maximum are suggested only when there are  *)
(* no more.  The one thing left to chance is the order of namesakes.        *)
SuggestionsAreBest ==
  ~edited =>
    LET shown  == {answer[i].tutor : i \in DOMAIN answer}
        Both(t) == Cardinality(profiles[t].tokens \intersect brief.subject) * 5
                     + Cardinality(profiles[t].tokens \intersect brief.text)
    IN
    /\ Cardinality(shown) = Len(answer)
    /\ Len(answer) = MaxRecommendations \/ shown = DOMAIN profiles
    /\ \A t \in shown, u \in DOMAIN profiles \ shown :
         Both(u) <= Both(t) /\ (Both(u) = Both(t) => profiles[t].name <= profiles[u].name)
    /\ \A i \in 2..Len(answer) : Both(answer[i].tutor) <= Both(answer[i - 1].tutor)
    /\ \A i \in DOMAIN answer : answer[i].alreadyInvited <=> answer[i].tutor \in invited
=============================================================================

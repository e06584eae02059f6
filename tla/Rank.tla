------------------------------- MODULE Rank -------------------------------
(***************************************************************************)
(* round/rank.py: the pure decision that turns one bench report into what  *)
(* happens to the crown.  A report gives every non-baseline entry of the   *)
(* round a status and a score; "sound" abstracts the two facts about the   *)
(* baseline that ranking reads (it was scored, and the repeat baseline was *)
(* measured and within the drift ceiling).                                 *)
(*                                                                         *)
(* Scores are integers.  The overtake rule score > leader * (1 + epsilon)  *)
(* is kept exact with epsilon = EpsNum / EpsDen.  A NULL score is 0: every *)
(* reader tests the status before it reads the score.                      *)
(***************************************************************************)
EXTENDS Integers

CONSTANTS
  Sub,      \* submissions of one campaign
  NoSub,    \* SQL NULL where a submission id is expected
  Score,    \* the scores a bench can report
  EpsNum,   \* OVERTAKE_EPSILON = EpsNum / EpsDen
  EpsDen,
  commitPos \* position of a submission in the (commit_block, id) order

ASSUME NoSubAssumption == NoSub \notin Sub
ASSUME ScoreAssumption == Score \subseteq Int /\ 0 \in Score
ASSUME EpsAssumption   == EpsNum \in Nat /\ EpsDen \in Nat \ {0}
ASSUME CommitAssumption ==
  /\ commitPos \in [Sub -> Nat]
  /\ \A s, t \in Sub : commitPos[s] = commitPos[t] => s = t

EntryStatus == {"pending", "running", "scored", "disqualified", "infra_failed"}
Settled     == {"scored", "disqualified"}

\* What a bench may say of a candidate when it ends.
Verdict == {"scored", "disqualified", "infra_failed"}
Report  == [sound : BOOLEAN, status : [Sub -> Verdict], score : [Sub -> Score]]

\* The round measured nothing that can be ranked.
Voids(rep, lead, challengers) ==
  \/ ~rep.sound
  \/ lead # NoSub /\ rep.status[lead] = "infra_failed"
  \/ \A c \in challengers : rep.status[c] \notin Settled

\* The incumbent keeps its moat only with a score strictly above baseline.
Holds(rep, lead) ==
  lead # NoSub /\ rep.status[lead] = "scored" /\ rep.score[lead] > 0

ClearsNoMoat(rep, lead, s) ==  \* mutant: the incumbent is beaten by a tie
  rep.score[s] > 0 /\ (Holds(rep, lead) => rep.score[s] >= rep.score[lead])

Clears(rep, lead, s) ==
  IF Holds(rep, lead)
  THEN rep.score[s] * EpsDen > rep.score[lead] * (EpsDen + EpsNum)
  ELSE rep.score[s] > 0

Contenders(rep, lead, challengers) ==
  {c \in challengers : rep.status[c] = "scored" /\ Clears(rep, lead, c)}

\* max() over the entry order: the highest score, ties to the earlier commit.
FirstMax(sc, S, s) ==
  /\ s \in S
  /\ \A t \in S : \/ sc[t] < sc[s]
                  \/ sc[t] = sc[s] /\ commitPos[s] <= commitPos[t]

\* prev_score on the history row: the in-round score, or the stored one when
\* the incumbent was not scored in this round.
PrevScore(rep, lead, stored) ==
  IF lead # NoSub /\ rep.status[lead] = "scored" THEN rep.score[lead] ELSE stored

=============================================================================

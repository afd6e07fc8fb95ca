------------------------------- MODULE Ranks -------------------------------
(***************************************************************************)
(* Score, rank, tasks, experience and statistics of the player in one slot *)
(* (amul.wholeoriginal.cpp: aadd, asub, afix, newrank, PromoteToTopRank;   *)
(* users.cpp: createCharacter).  They belong to the thread of the slot and *)
(* change only in its own actions: AADD and ASUB of another player's       *)
(* statistics return without effect.                                       *)
(*                                                                         *)
(* asub's loop over the ranks is taken step by step, one for each rank it  *)
(* does not skip; all else is one step.  Strength and dexterity also       *)
(* depend on what the player carries and are left to the inventory.        *)
(*                                                                         *)
(* pc is "idle" between actions, "loss" in asub's loop, "dead" after       *)
(* akillme.  Nothing here depends on the scores of the table ascending.    *)
(***************************************************************************)
EXTENDS Integers, FiniteSetsExt

CONSTANTS MaxRank,      \* GameConfig::MaxRank()
          scoreOf,      \* Rank::score, by rank
          taskOf,       \* Rank::tasks: a task's number, 0 for none
          experienceOf, \* Rank::experience
          statOf,       \* Rank::stamina, wisdom and magicpts, by rank
          SetTasks,     \* the tasks the game's verbs mark as done
          Amounts,      \* how much may be added or subtracted
          MaxScore,     \* bound on the score of the model
          MaxStat       \* bound on the statistics of the model

Ranks     == 0 .. MaxRank
StatNames == {"stamina", "wisdom", "magicpts"}
SignBit   == 32  \* the task whose bit 1 << -1 yields where it yields any
Tasks     == 1 .. SignBit

ASSUME TableAssumption == /\ MaxRank \in Nat
                          /\ scoreOf \in [Ranks -> Nat]
                          /\ taskOf \in [Ranks -> Tasks \cup {0}]
                          /\ experienceOf \in [Ranks -> Nat]
                          /\ statOf \in [Ranks -> [StatNames -> Nat]]
                          /\ SetTasks \subseteq Tasks
                          /\ Amounts \subseteq Nat \ {0}
                          /\ MaxScore \in Nat /\ MaxStat \in Nat

VARIABLES score,       \* Character::score
          rank,        \* Character::rank
          tasks,       \* Character::tasks, the set of its bits
          experience,  \* Character::experience
          stats,       \* Avatar::stamina, wisdom, magicpts
          pc,
          loop         \* the rank asub's loop looks at next

vars == <<score, rank, tasks, experience, stats, pc, loop>>

\* A created character, in a slot nobody has used.
Init == /\ score = 0
        /\ rank = 0
        /\ tasks = {}
        /\ experience = experienceOf[0]
        /\ stats = [n \in StatNames |-> 0]
        /\ pc = "idle"
        /\ loop = 0

Qualified(r, done) == taskOf[r] = 0 \/ taskOf[r] \in done

Least(a, b) == IF a <= b THEN a ELSE b

(***************************************************************************)
(* newrank: refused without the new rank's task, else the statistics move  *)
(* by the difference of the ranks and stop at the new rank's.  Experience, *)
(* kept in the character, moves once more in "Update File Stats".          *)
(***************************************************************************)
newrank(r, done) ==
    IF Qualified(r, done)
      THEN /\ rank' = r
           /\ LET gain == experienceOf[r] - experienceOf[rank]
              IN  experience' = Least(experience + gain, experienceOf[r]) + gain
           /\ stats' = [n \in StatNames |->
                           Least(stats[n] + statOf[r][n] - statOf[rank][n],
                                 statOf[r][n])]
      ELSE UNCHANGED <<rank, experience, stats>>

\* Mutant: a rank is reached only when its score is passed.
SettlePast(s, done) ==
    LET earned == {r \in Ranks : scoreOf[r] < s}
    IN  IF earned = {} \/ rank = Max(earned)
          THEN UNCHANGED <<rank, experience, stats>>
          ELSE newrank(Max(earned), done)

\* aadd's loop, from the top rank down: the first whose score is reached.
Settle(s, done) ==
    LET earned == {r \in Ranks : scoreOf[r] <= s}
    IN  IF earned = {} \/ rank = Max(earned)
          THEN UNCHANGED <<rank, experience, stats>>
          ELSE newrank(Max(earned), done)

Gain(n, done) == /\ score' = score + n
                 /\ score' <= MaxScore
                 /\ Settle(score', done)
                 /\ UNCHANGED <<pc, loop>>

\* Mutant: the score may fall below zero.
LoseBelowZero(n) == /\ score' = score - n
                    /\ pc' = "loss"
                    /\ loop' = 0
                    /\ UNCHANGED <<rank, experience, stats>>

Lose(n) == /\ score' = IF n <= score THEN score - n ELSE 0
           /\ pc' = "loss"
           /\ loop' = 0
           /\ UNCHANGED <<rank, experience, stats>>

-----------------------------------------------------------------------------
aaddScore(n) == /\ pc = "idle"
                /\ Gain(n, tasks)
                /\ UNCHANGED tasks

\* asub, and aadd of a negative amount, which calls it.
asubScore(n) == /\ pc = "idle"
                /\ Lose(n)
                /\ UNCHANGED tasks

\* Mutant: the loop goes on to the top rank.
LossLoopToTop ==
    /\ pc = "loss"
    /\ LET rest == {r \in loop .. MaxRank : r = MaxRank \/ score < scoreOf[r + 1]}
       IN  IF rest = {} \/ rank = Min(rest)
             THEN /\ pc' = "idle" /\ loop' = 0
                  /\ UNCHANGED <<rank, experience, stats>>
             ELSE /\ newrank(Min(rest), tasks)
                  /\ loop' = Min(rest) + 1
                  /\ pc' = pc
    /\ UNCHANGED <<score, tasks>>

\* Mutant: the loop does not stop at the rank the player has.
LossLoopGoesOn ==
    /\ pc = "loss"
    /\ LET rest == {r \in loop .. MaxRank - 1 : score < scoreOf[r + 1]}
       IN  IF rest = {}
             THEN /\ pc' = "idle" /\ loop' = 0
                  /\ UNCHANGED <<rank, experience, stats>>
             ELSE /\ newrank(Min(rest), tasks)
                  /\ loop' = Min(rest) + 1
                  /\ pc' = pc
    /\ UNCHANGED <<score, tasks>>

(***************************************************************************)
(* asub's loop, from rank 0 up: a rank is skipped when the score reaches   *)
(* the next one's.  At the player's own rank it breaks; any other is given *)
(* to newrank, and the loop goes on.                                       *)
(***************************************************************************)
LossLoop ==
    /\ pc = "loss"
    /\ LET rest == {r \in loop .. MaxRank - 1 : score < scoreOf[r + 1]}
       IN  IF rest = {} \/ rank = Min(rest)
             THEN /\ pc' = "idle" /\ loop' = 0
                  /\ UNCHANGED <<rank, experience, stats>>
             ELSE /\ newrank(Min(rest), tasks)
                  /\ loop' = Min(rest) + 1
                  /\ pc' = pc
    /\ UNCHANGED <<score, tasks>>

(***************************************************************************)
(* PromoteToTopRank: every task is marked, then the score is set one above *)
(* the top rank's by aadd.  A rank without a task shifts by -1, which is   *)
(* undefined; the build sets the sign bit or no bit.                       *)
(***************************************************************************)
PromoteToTopRank ==
    /\ pc = "idle"
    /\ \E junk \in SUBSET {SignBit} :
          tasks' = tasks \cup ({taskOf[r] : r \in Ranks} \ {0})
                         \cup IF \E r \in Ranks : taskOf[r] = 0 THEN junk ELSE {}
    /\ LET n == scoreOf[MaxRank] - score + 1
       IN  \/ n > 0 /\ Gain(n, tasks')
           \/ n = 0 /\ UNCHANGED <<score, rank, experience, stats, pc, loop>>
           \/ n < 0 /\ Lose(-n)

ATASK(t) == /\ pc = "idle"
            /\ tasks' = tasks \cup {t}
            /\ UNCHANGED <<score, rank, experience, stats, pc, loop>>

-----------------------------------------------------------------------------
aaddStat(n, d) == /\ pc = "idle"
                  /\ stats[n] + d <= MaxStat
                  /\ stats' = [stats EXCEPT ![n] = @ + d]
                  /\ UNCHANGED <<score, rank, tasks, experience, pc, loop>>

\* Out of stamina, the player dies: akillme ends the session.
asubStat(n, d) == /\ pc = "idle"
                  /\ stats' = [stats EXCEPT ![n] = IF d <= @ THEN @ - d ELSE 0]
                  /\ pc' = IF n = "stamina" /\ stats'[n] = 0 THEN "dead" ELSE pc
                  /\ UNCHANGED <<score, rank, tasks, experience, loop>>

afixStat(n) == /\ pc = "idle"
               /\ stats' = [stats EXCEPT ![n] = statOf[rank][n]]
               /\ UNCHANGED <<score, rank, tasks, experience, pc, loop>>

aaddExperience(d) == /\ pc = "idle"
                     /\ experience + d <= MaxStat
                     /\ experience' = experience + d
                     /\ UNCHANGED <<score, rank, tasks, stats, pc, loop>>

asubExperience(d) == /\ pc = "idle"
                     /\ experience' = IF d <= experience THEN experience - d ELSE 0
                     /\ UNCHANGED <<score, rank, tasks, stats, pc, loop>>

afixExperience == /\ pc = "idle"
                  /\ experience' = experienceOf[rank]
                  /\ UNCHANGED <<score, rank, tasks, stats, pc, loop>>

\* Mutant: the rank is not reset.
CreateKeepsRank == /\ pc \in {"idle", "dead"}
                   /\ score' = 0 /\ tasks' = {}
                   /\ experience' = experienceOf[0]
                   /\ pc' = "idle"
                   /\ UNCHANGED <<rank, stats, loop>>

\* Another player creates a character in the slot; the avatar stays as it was.
createCharacter == /\ pc \in {"idle", "dead"}
                   /\ score' = 0 /\ rank' = 0 /\ tasks' = {}
                   /\ experience' = experienceOf[0]
                   /\ pc' = "idle"
                   /\ UNCHANGED <<stats, loop>>

Next == \/ \E n \in Amounts : aaddScore(n) \/ asubScore(n)
        \/ LossLoop
        \/ PromoteToTopRank
        \/ \E t \in SetTasks : ATASK(t)
        \/ \E n \in StatNames : \/ \E d \in Amounts : aaddStat(n, d) \/ asubStat(n, d)
                                \/ afixStat(n)
        \/ \E d \in Amounts : aaddExperience(d) \/ asubExperience(d)
        \/ afixExperience
        \/ createCharacter

Spec == Init /\ [][Next]_vars

-----------------------------------------------------------------------------
TypeOK == /\ score \in Nat
          /\ rank \in Ranks
          /\ tasks \in SUBSET Tasks
          /\ experience \in Int
          /\ stats \in [StatNames -> Int]
          /\ pc \in {"idle", "loss", "dead"}
          /\ loop \in Ranks

(***************************************************************************)
(* Whatever sequence of gains, losses and promotions led there, a player   *)
(* above the first rank has done that rank's task, and a new character in  *)
(* the slot inherits neither rank nor tasks of the one before.             *)
(***************************************************************************)
TaskNeeded == rank # 0 => Qualified(rank, tasks)

(***************************************************************************)
(* aadd settles the rank: after a gain the player has the highest rank the *)
(* score reaches, up or down, or lacks that rank's task.                   *)
(***************************************************************************)
Highest(r, s) == /\ scoreOf[r] <= s
                 /\ \A q \in r + 1 .. MaxRank : s < scoreOf[q]

GainSettlesRank ==
    [][score' > score => \A r \in Ranks : Highest(r, score') =>
                            rank' = r \/ ~Qualified(r, tasks')]_vars

(***************************************************************************)
(* The loop of asub may hand out ranks, yet never the top one: nobody      *)
(* becomes a wizard by losing points.                                      *)
(***************************************************************************)
LossNeverMakesTop == [][rank # MaxRank /\ rank' = MaxRank => score' > score]_vars

(***************************************************************************)
(* A loss that leaves the player within the rank he has does not touch it: *)
(* the loop skips the ranks below and stops there.                         *)
(***************************************************************************)
Settled == \A q \in Ranks : scoreOf[q] <= score <=> q <= rank

SettledRankSurvivesLoss ==
    [][pc = "loss" /\ loop = 0 /\ Settled => pc' = "idle" /\ rank' = rank]_vars

-----------------------------------------------------------------------------
(***************************************************************************)
(* What the documents say, and the code does not do.  AMULDoc.txt of a     *)
(* rank's score: "Minimum score needed to gain this rank."  After a loss   *)
(* the loop climbs again, past the rank the score is good for.             *)
(***************************************************************************)
RankReached == [][rank' > rank => scoreOf[rank'] <= score']_vars
=============================================================================

---------------------------- MODULE RanksProofs ----------------------------
(***************************************************************************)
(* Proofs about Ranks, for any table of ranks: nothing is assumed of the   *)
(* order of its scores.                                                    *)
(***************************************************************************)
EXTENDS Ranks, WellFoundedInduction, TLAPS

(***************************************************************************)
(* A nonempty set of naturals has a least member, and a nonempty set of    *)
(* ranks a greatest one: the scans of aadd and asub stop where Max and Min *)
(* say.                                                                    *)
(***************************************************************************)
LEMMA LeastOfNats ==
  ASSUME NEW S \in SUBSET Nat, S # {}
  PROVE  \E x \in S : \A y \in S : x <= y
<1>1. PICK x \in S : \A y \in S : ~(<<y, x>> \in OpToRel(<, Nat))
  BY NatLessThanWellFounded, WFMin
<1>2. \A y \in S : ~(y < x)
  BY <1>1 DEF OpToRel
<1> QED BY <1>2

LEMMA MinOfRanks ==
  ASSUME NEW S \in SUBSET Ranks, S # {}
  PROVE  Min(S) \in S /\ \A y \in S : Min(S) <= y
<1>1. S \in SUBSET Nat
  BY TableAssumption DEF Ranks
<1>2. \E x \in S : \A y \in S : x <= y
  BY <1>1, LeastOfNats
<1> QED BY <1>2 DEF Min

LEMMA MaxOfRanks ==
  ASSUME NEW S \in SUBSET Ranks, S # {}
  PROVE  Max(S) \in S /\ \A y \in S : Max(S) >= y
<1>a. MaxRank \in Nat /\ S \subseteq 0 .. MaxRank
  BY TableAssumption DEF Ranks
<1> DEFINE D == {n \in Nat : MaxRank - n \in S}
<1>1. PICK s \in S : TRUE
  OBVIOUS
<1>2. MaxRank - s \in D
  BY <1>a
<1>3. PICK d \in D : \A e \in D : d <= e
  BY <1>2, LeastOfNats
<1>4. \A y \in S : MaxRank - y \in Nat /\ MaxRank - (MaxRank - y) = y
  BY <1>a
<1>5. \A y \in S : MaxRank - y \in D
  BY <1>4
<1>6. MaxRank - d \in S /\ \A y \in S : MaxRank - d >= y
  BY <1>a, <1>3, <1>5
<1> QED BY <1>6 DEF Max

-----------------------------------------------------------------------------
(***************************************************************************)
(* newrank keeps the types and hands out no rank whose task is not done.   *)
(***************************************************************************)
Character == /\ rank \in Ranks
             /\ experience \in Int
             /\ stats \in [StatNames -> Int]

LEMMA NewrankKeeps ==
  ASSUME Character, NEW r \in Ranks, NEW done \in SUBSET Tasks,
         TaskNeeded, tasks \subseteq done, newrank(r, done)
  PROVE  /\ Character'
         /\ rank' # 0 => Qualified(rank', done)
         /\ rank' # rank => rank' = r
<1>1. CASE Qualified(r, done)
  <2>1. rank' = r
    BY <1>1 DEF newrank
  <2>2. experience' \in Int
    BY <1>1, TableAssumption DEF newrank, Character, Least
  <2>3. \A n \in StatNames : Least(stats[n] + statOf[r][n] - statOf[rank][n],
                                   statOf[r][n]) \in Int
    BY TableAssumption DEF Character, Least
  <2>4. stats' \in [StatNames -> Int]
    BY <1>1, <2>3 DEF newrank
  <2> QED BY <1>1, <2>1, <2>2, <2>4 DEF Character
<1>2. CASE ~Qualified(r, done)
  BY <1>2 DEF newrank, Character, TaskNeeded, Qualified
<1> QED BY <1>1, <1>2

LEMMA HighestIsMax ==
  ASSUME NEW s \in Nat, NEW r \in Ranks, Highest(r, s)
  PROVE  /\ {q \in Ranks : scoreOf[q] <= s} # {}
         /\ Max({q \in Ranks : scoreOf[q] <= s}) = r
<1> DEFINE earned == {q \in Ranks : scoreOf[q] <= s}
<1>1. r \in earned /\ earned \in SUBSET Ranks
  BY DEF Highest
<1>2. Max(earned) \in earned /\ Max(earned) >= r
  BY <1>1, MaxOfRanks
<1>3. Max(earned) \in Ranks
  BY <1>2
<1>4. \A q \in Ranks : scoreOf[q] \in Nat
  BY TableAssumption
<1> HIDE DEF earned
<1>5. ASSUME Max(earned) > r
      PROVE  FALSE
  <2>1. Max(earned) \in Ranks /\ scoreOf[Max(earned)] <= s
    BY <1>2 DEF earned
  <2>2. Max(earned) \in r + 1 .. MaxRank
    BY <1>5, <2>1, TableAssumption DEF Ranks
  <2>3. s < scoreOf[Max(earned)]
    BY <2>2 DEF Highest
  <2> QED BY <2>1, <2>3, <1>4
<1>6. Max(earned) \in Int /\ r \in Int
  BY <1>3, TableAssumption DEF Ranks
<1>7. Max(earned) = r
  BY <1>2, <1>5, <1>6
<1> QED BY <1>1, <1>7 DEF earned

LEMMA SettleKeeps ==
  ASSUME Character, NEW s \in Nat, NEW done \in SUBSET Tasks,
         TaskNeeded, tasks \subseteq done, Settle(s, done)
  PROVE  /\ Character'
         /\ rank' # 0 => Qualified(rank', done)
         /\ \A r \in Ranks : Highest(r, s) => rank' = r \/ ~Qualified(r, done)
<1> DEFINE earned == {r \in Ranks : scoreOf[r] <= s}
<1>1. CASE earned = {} \/ rank = Max(earned)
  <2>1. Character' /\ (rank' # 0 => Qualified(rank', done))
    BY <1>1 DEF Settle, Character, TaskNeeded, Qualified
  <2>2. ASSUME NEW r \in Ranks, Highest(r, s)
        PROVE  rank' = r
    BY <1>1, <2>2, HighestIsMax DEF Settle
  <2> QED BY <2>1, <2>2
<1>2. CASE ~(earned = {} \/ rank = Max(earned))
  <2>1. newrank(Max(earned), done)
    BY <1>2 DEF Settle
  <2>2. Max(earned) \in Ranks
    BY <1>2, MaxOfRanks
  <2>3. Character' /\ (rank' # 0 => Qualified(rank', done))
    BY <2>1, <2>2, NewrankKeeps
  <2>4. ASSUME NEW r \in Ranks, Highest(r, s)
        PROVE  rank' = r \/ ~Qualified(r, done)
    BY <2>1, <2>4, HighestIsMax DEF newrank
  <2> QED BY <2>3, <2>4
<1> QED BY <1>1, <1>2

-----------------------------------------------------------------------------
(***************************************************************************)
(* The invariant: the types, and the task behind the rank.                 *)
(***************************************************************************)
IInv == TypeOK /\ TaskNeeded

LEMMA InitIInv == Init => IInv
<1> SUFFICES ASSUME Init PROVE IInv
  OBVIOUS
<1>1. experience \in Int /\ rank \in Ranks /\ loop \in Ranks
  BY TableAssumption DEF Init, Ranks
<1> QED BY <1>1 DEF Init, IInv, TypeOK, TaskNeeded

LEMMA GainIInv ==
  ASSUME IInv, NEW n \in Nat \ {0}, NEW done \in SUBSET Tasks, tasks \subseteq done,
         tasks' = done, pc = "idle", Gain(n, done)
  PROVE  /\ IInv'
         /\ score' > score
         /\ \A r \in Ranks : Highest(r, score') => rank' = r \/ ~Qualified(r, tasks')
<1>1. Character
  BY DEF IInv, TypeOK, Character
<1>2. score \in Nat /\ score' = score + n /\ score' \in Nat
  BY DEF IInv, TypeOK, Gain
<1>3. Settle(score', done) /\ pc' = pc /\ loop' = loop
  BY DEF Gain
<1>4. TaskNeeded
  BY DEF IInv
<1>5. /\ Character'
      /\ rank' # 0 => Qualified(rank', done)
      /\ \A r \in Ranks : Highest(r, score') => rank' = r \/ ~Qualified(r, done)
  BY <1>1, <1>2, <1>3, <1>4, SettleKeeps
<1>6. TypeOK'
  BY <1>2, <1>3, <1>5 DEF IInv, TypeOK, Character
<1>7. TaskNeeded'
  BY <1>5 DEF TaskNeeded
<1>8. score' > score
  BY <1>2
<1> QED BY <1>5, <1>6, <1>7, <1>8 DEF IInv

LEMMA LoseIInv ==
  ASSUME IInv, NEW n \in Nat, NEW done \in SUBSET Tasks, tasks \subseteq done,
         tasks' = done, Lose(n)
  PROVE  IInv' /\ score' <= score
<1>1. score' \in Nat /\ score' <= score
  BY DEF IInv, TypeOK, Lose
<1>2. TypeOK'
  BY <1>1, TableAssumption DEF IInv, TypeOK, Lose, Ranks
<1>3. TaskNeeded'
  BY DEF IInv, TaskNeeded, Qualified, Lose
<1> QED BY <1>1, <1>2, <1>3 DEF IInv

(***************************************************************************)
(* Every step of asub's loop that hands out a rank hands out one below the *)
(* top.                                                                    *)
(***************************************************************************)
LEMMA LossIInv ==
  ASSUME IInv, LossLoop
  PROVE  IInv' /\ score' = score /\ (rank' # rank => rank' # MaxRank)
<1> DEFINE rest == {r \in loop .. MaxRank - 1 : score < scoreOf[r + 1]}
<1>0. MaxRank \in Nat /\ loop \in 0 .. MaxRank /\ rank \in 0 .. MaxRank
  BY TableAssumption DEF IInv, TypeOK, Ranks
<1>1. \A r \in loop .. MaxRank - 1 : r \in Ranks /\ r + 1 \in Ranks /\ r # MaxRank
  BY <1>0 DEF Ranks
<1>2. CASE rest = {} \/ rank = Min(rest)
  <2>1. loop' \in Ranks /\ pc' = "idle"
    BY <1>0, <1>2 DEF LossLoop, Ranks
  <2>2. UNCHANGED <<score, tasks, rank, experience, stats>>
    BY <1>2 DEF LossLoop
  <2> QED BY <2>1, <2>2 DEF IInv, TypeOK, TaskNeeded, Qualified
<1>3. CASE ~(rest = {} \/ rank = Min(rest))
  <2>1. /\ newrank(Min(rest), tasks) /\ loop' = Min(rest) + 1 /\ pc' = pc
        /\ score' = score /\ tasks' = tasks
    BY <1>3 DEF LossLoop
  <2>2. Min(rest) \in rest
    <3>1. rest \in SUBSET Ranks /\ rest # {}
      BY <1>1, <1>3
    <3> QED BY <3>1, MinOfRanks
  <2>3. Min(rest) \in Ranks /\ Min(rest) # MaxRank /\ Min(rest) + 1 \in Ranks
    BY <1>1, <2>2
  <2>4. Character /\ tasks \in SUBSET Tasks /\ TaskNeeded
    BY DEF IInv, TypeOK, Character
  <2>5. /\ Character'
        /\ rank' # 0 => Qualified(rank', tasks)
        /\ rank' # rank => rank' = Min(rest)
    BY <2>1, <2>3, <2>4, NewrankKeeps
  <2>6. TypeOK'
    BY <2>1, <2>3, <2>5 DEF IInv, TypeOK, Character
  <2>7. TaskNeeded'
    BY <2>1, <2>5 DEF TaskNeeded
  <2> QED BY <2>1, <2>3, <2>5, <2>6, <2>7 DEF IInv
<1> QED BY <1>2, <1>3

(***************************************************************************)
(* The promotion marks tasks and then gains or loses, or does neither.     *)
(***************************************************************************)
LEMMA PromoteIInv ==
  ASSUME IInv, PromoteToTopRank
  PROVE  /\ IInv'
         /\ \/ score' > score
            \/ rank' = rank /\ score' <= score
         /\ score' > score =>
              \A r \in Ranks : Highest(r, score') => rank' = r \/ ~Qualified(r, tasks')
<1> DEFINE n == scoreOf[MaxRank] - score + 1
<1>1. n \in Int /\ score \in Nat
  BY TableAssumption DEF IInv, TypeOK, Ranks
<1>2. tasks' \in SUBSET Tasks /\ tasks \subseteq tasks' /\ pc = "idle"
  <2>1. PICK junk \in SUBSET {SignBit} :
          tasks' = tasks \cup ({taskOf[r] : r \in Ranks} \ {0})
                         \cup IF \E r \in Ranks : taskOf[r] = 0 THEN junk ELSE {}
    BY DEF PromoteToTopRank
  <2>2. \A r \in Ranks : taskOf[r] \in Tasks \cup {0}
    BY TableAssumption
  <2>3. junk \subseteq Tasks
    BY DEF Tasks, SignBit
  <2> QED BY <2>1, <2>2, <2>3 DEF IInv, TypeOK, PromoteToTopRank
<1>3. CASE n > 0 /\ Gain(n, tasks')
  BY <1>1, <1>2, <1>3, GainIInv
<1>4. CASE n = 0 /\ UNCHANGED <<score, rank, experience, stats, pc, loop>>
  BY <1>1, <1>2, <1>4 DEF IInv, TypeOK, TaskNeeded, Qualified
<1>5. CASE n < 0 /\ Lose(-n)
  <2>1. -n \in Nat
    BY <1>1, <1>5
  <2>2. IInv' /\ score' <= score
    BY <1>2, <1>5, <2>1, LoseIInv
  <2>3. rank' = rank /\ score' \in Nat
    BY <1>5, <2>2 DEF Lose, IInv, TypeOK
  <2> QED BY <1>1, <2>2, <2>3
<1> QED BY <1>3, <1>4, <1>5 DEF PromoteToTopRank

-----------------------------------------------------------------------------
(***************************************************************************)
(* What one step does: it keeps the invariant, settles the rank if the     *)
(* score rises, and does not reach the top rank if it does not.            *)
(***************************************************************************)
Settles  == score' > score => \A r \in Ranks : Highest(r, score') =>
                                 rank' = r \/ ~Qualified(r, tasks')
TopEarned == rank # MaxRank /\ rank' = MaxRank => score' > score

LEMMA Step == IInv /\ [Next]_vars => IInv' /\ Settles /\ TopEarned
<1> SUFFICES ASSUME IInv, [Next]_vars
             PROVE  IInv' /\ Settles /\ TopEarned
  OBVIOUS
<1> USE DEF Settles, TopEarned
<1>1. ASSUME NEW n \in Amounts, aaddScore(n)
      PROVE  IInv' /\ Settles /\ TopEarned
  <2>1. n \in Nat \ {0} /\ tasks \in SUBSET Tasks /\ tasks' = tasks
    BY <1>1, TableAssumption DEF aaddScore, IInv, TypeOK
  <2>2. pc = "idle" /\ Gain(n, tasks)
    BY <1>1 DEF aaddScore
  <2> QED BY <2>1, <2>2, GainIInv
<1>2. ASSUME NEW n \in Amounts, asubScore(n)
      PROVE  IInv' /\ Settles /\ TopEarned
  <2>1. n \in Nat /\ tasks \in SUBSET Tasks /\ tasks' = tasks
    BY <1>2, TableAssumption DEF asubScore, IInv, TypeOK
  <2>2. Lose(n)
    BY <1>2 DEF asubScore
  <2>3. IInv' /\ score' <= score
    BY <2>1, <2>2, LoseIInv
  <2>4. rank' = rank /\ score \in Nat /\ score' \in Nat
    BY <2>2, <2>3 DEF Lose, IInv, TypeOK
  <2> QED BY <2>3, <2>4
<1>3. CASE LossLoop
  <2>1. IInv' /\ score' = score /\ (rank' # rank => rank' # MaxRank)
    BY <1>3, LossIInv
  <2>2. score \in Nat
    BY DEF IInv, TypeOK
  <2> QED BY <2>1, <2>2
<1>4. CASE PromoteToTopRank
  BY <1>4, PromoteIInv
<1>5. ASSUME NEW t \in SetTasks, ATASK(t)
      PROVE  IInv' /\ Settles /\ TopEarned
  <2>1. t \in Tasks
    BY TableAssumption
  <2>2. tasks' \in SUBSET Tasks /\ tasks \subseteq tasks'
    BY <1>5, <2>1 DEF ATASK, IInv, TypeOK
  <2> QED BY <1>5, <2>2 DEF ATASK, IInv, TypeOK, TaskNeeded, Qualified
<1>6. ASSUME NEW n \in StatNames,
             (\E d \in Amounts : aaddStat(n, d) \/ asubStat(n, d)) \/ afixStat(n)
      PROVE  IInv' /\ Settles /\ TopEarned
  <2>1. UNCHANGED <<score, rank, tasks, experience, loop>>
    BY <1>6 DEF aaddStat, asubStat, afixStat
  <2>2. stats' \in [StatNames -> Int]
    <3>1. ASSUME NEW d \in Amounts, aaddStat(n, d) \/ asubStat(n, d)
          PROVE  stats' \in [StatNames -> Int]
      <4>1. d \in Int /\ stats[n] \in Int /\ stats \in [StatNames -> Int]
        BY TableAssumption DEF IInv, TypeOK
      <4> QED BY <3>1, <4>1 DEF aaddStat, asubStat
    <3>2. ASSUME afixStat(n)
          PROVE  stats' \in [StatNames -> Int]
      BY <3>2, TableAssumption DEF afixStat, IInv, TypeOK
    <3> QED BY <1>6, <3>1, <3>2
  <2>3. pc' \in {"idle", "loss", "dead"}
    BY <1>6 DEF aaddStat, asubStat, afixStat, IInv, TypeOK
  <2> QED BY <2>1, <2>2, <2>3 DEF IInv, TypeOK, TaskNeeded, Qualified
<1>7. ASSUME NEW d \in Amounts, aaddExperience(d) \/ asubExperience(d)
      PROVE  IInv' /\ Settles /\ TopEarned
  <2>1. experience' \in Int
    BY <1>7, TableAssumption DEF aaddExperience, asubExperience, IInv, TypeOK
  <2> QED BY <1>7, <2>1 DEF aaddExperience, asubExperience, IInv, TypeOK,
                            TaskNeeded, Qualified
<1>8. CASE afixExperience
  BY <1>8, TableAssumption DEF afixExperience, IInv, TypeOK, TaskNeeded, Qualified
<1>9. CASE createCharacter
  <2>1. MaxRank \in Nat /\ rank \in 0 .. MaxRank /\ experience' \in Int
    BY <1>9, TableAssumption DEF createCharacter, IInv, TypeOK, Ranks
  <2>2. IInv' /\ score \in Nat
    BY <1>9, <2>1 DEF createCharacter, IInv, TypeOK, TaskNeeded, Ranks
  <2> QED BY <1>9, <2>1, <2>2 DEF createCharacter
<1>10. CASE UNCHANGED vars
  BY <1>10 DEF vars, IInv, TypeOK, TaskNeeded, Qualified
<1> QED BY <1>1, <1>2, <1>3, <1>4, <1>5, <1>6, <1>7, <1>8, <1>9, <1>10 DEF Next

LEMMA IInvHolds == Spec => []IInv
<1>1. IInv /\ [Next]_vars => IInv'
  BY Step
<1> QED BY InitIInv, <1>1, PTL DEF Spec

(***************************************************************************)
(* Types, and the task behind every rank, for any rank table.              *)
(***************************************************************************)
THEOREM TypeCorrect == Spec => []TypeOK
<1>1. IInv => TypeOK
  BY DEF IInv
<1> QED BY <1>1, IInvHolds, PTL

THEOREM RankHasItsTask == Spec => []TaskNeeded
<1>1. IInv => TaskNeeded
  BY DEF IInv
<1> QED BY <1>1, IInvHolds, PTL

(***************************************************************************)
(* A gain settles the rank at the highest one the score is good for.       *)
(***************************************************************************)
THEOREM GainsSettle == Spec => GainSettlesRank
<1>1. IInv /\ [Next]_vars => [Settles]_vars
  BY Step
<1>2. Settles <=> (score' > score => \A r \in Ranks : Highest(r, score') =>
                                        rank' = r \/ ~Qualified(r, tasks'))
  BY DEF Settles
<1> QED BY <1>1, <1>2, IInvHolds, PTL DEF Spec, GainSettlesRank

(***************************************************************************)
(* No loss makes a player a wizard.                                        *)
(***************************************************************************)
THEOREM TopIsEarned == Spec => LossNeverMakesTop
<1>1. IInv /\ [Next]_vars => [TopEarned]_vars
  BY Step
<1>2. TopEarned <=> (rank # MaxRank /\ rank' = MaxRank => score' > score)
  BY DEF TopEarned
<1> QED BY <1>1, <1>2, IInvHolds, PTL DEF Spec, LossNeverMakesTop

(***************************************************************************)
(* asub's loop stops at once for a player whose score still is his rank's: *)
(* the first rank it does not skip is his own.                             *)
(***************************************************************************)
Undisturbed == pc = "loss" /\ loop = 0 /\ Settled => pc' = "idle" /\ rank' = rank

LEMMA StepUndisturbed == IInv /\ [Next]_vars => [Undisturbed]_vars
<1> SUFFICES ASSUME IInv, Next, pc = "loss", loop = 0, Settled
             PROVE  pc' = "idle" /\ rank' = rank
  BY DEF Undisturbed
<1> DEFINE rest == {r \in 0 .. MaxRank - 1 : score < scoreOf[r + 1]}
<1>1. LossLoop
  BY DEF Next, aaddScore, asubScore, PromoteToTopRank, ATASK, aaddStat, asubStat,
         afixStat, aaddExperience, asubExperience, afixExperience, createCharacter
<1>2. /\ MaxRank \in Nat /\ rank \in 0 .. MaxRank /\ score \in Nat
      /\ \A r \in 0 .. MaxRank : scoreOf[r] \in Nat
      /\ \A r \in 0 .. MaxRank : scoreOf[r] <= score <=> r <= rank
  BY TableAssumption DEF IInv, TypeOK, Ranks, Settled
<1>3. \A r \in 0 .. MaxRank - 1 : /\ r + 1 \in 0 .. MaxRank
                                  /\ score < scoreOf[r + 1] <=> rank <= r
  BY <1>2
<1>4. rest = {r \in 0 .. MaxRank - 1 : rank <= r}
  BY <1>3
<1>5. rest = {} \/ rank = Min(rest)
  <2>1. CASE rank = MaxRank
    BY <1>2, <1>4, <2>1
  <2>2. CASE rank # MaxRank
    <3>1. rank \in rest /\ \A y \in rest : rank <= y
      BY <1>2, <1>4, <2>2
    <3>2. rest \in SUBSET Ranks /\ rest # {}
      BY <1>2, <1>4, <3>1 DEF Ranks
    <3>3. Min(rest) \in rest /\ \A y \in rest : Min(rest) <= y
      BY <3>2, MinOfRanks
    <3>4. Min(rest) <= rank /\ rank <= Min(rest) /\ Min(rest) \in Int
      BY <1>2, <1>4, <3>1, <3>3
    <3> QED BY <1>2, <3>4
  <2> QED BY <2>1, <2>2
<1> QED BY <1>1, <1>5 DEF LossLoop

(***************************************************************************)
(* A loss within the rank leaves the rank alone.                           *)
(***************************************************************************)
THEOREM SettledRankKept == Spec => SettledRankSurvivesLoss
<1>1. Undisturbed <=> (pc = "loss" /\ loop = 0 /\ Settled
                          => pc' = "idle" /\ rank' = rank)
  BY DEF Undisturbed
<1> QED BY <1>1, StepUndisturbed, IInvHolds, PTL DEF Spec, SettledRankSurvivesLoss
=============================================================================

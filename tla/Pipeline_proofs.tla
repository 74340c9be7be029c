-------------------------- MODULE Pipeline_proofs --------------------------
(* What is proved of the stages of the pipeline after the poll: a day's    *)
(* gold marts keep their promises (GoldDay), the static schedules and      *)
(* their copy in PostGIS do (Schedules over StaticSchedule), and neither   *)
(* of the jobs that rewrite what is archived loses any of it               *)
(* (MetadataRewrite, SchemaMigration), whatever the feeds, archives,       *)
(* files, bounds and deaths of runs.                                       *)
EXTENDS GoldDay, Schedules, MetadataRewrite, SchemaMigration, ListFacts,
        FiniteSetTheorems, WellFoundedInduction, TLAPS

\* The tuple of a group has distinct members, of no other group.
LEMMA GroupFacts ==
  /\ \A g \in Groups :
       /\ MartsOf[g] \in Seq(Marts)
       /\ Len(MartsOf[g]) \in Nat \ {0}
       /\ DOMAIN MartsOf[g] = 1..Len(MartsOf[g])
       /\ \A i \in 1..Len(MartsOf[g]) : MartsOf[g][i] \in Files(g)
       /\ \A m \in Files(g) : \E i \in 1..Len(MartsOf[g]) : m = MartsOf[g][i]
       /\ Files(g) \subseteq Marts
       /\ \A i, j \in 1..Len(MartsOf[g]) : MartsOf[g][i] = MartsOf[g][j] => i = j
  /\ \A g \in Groups, h \in Groups : g # h => Files(g) \cap Files(h) = {}
<1>1. \A g \in Groups : \A i \in 1..Len(MartsOf[g]) : MartsOf[g][i] \in Files(g)
  BY DEF Groups, MartsOf, Files, ToSet
<1>2. \A g \in Groups : \A m \in Files(g) : \E i \in 1..Len(MartsOf[g]) : m = MartsOf[g][i]
  BY DEF Groups, MartsOf, Files, ToSet
<1>3. \A g \in Groups : Files(g) \subseteq Marts
  BY DEF Marts
<1>4. \A g \in Groups : \A i, j \in 1..Len(MartsOf[g]) : MartsOf[g][i] = MartsOf[g][j] => i = j
  BY SMTT(30) DEF Groups, MartsOf
<1>5. \A g \in Groups : Len(MartsOf[g]) \in Nat \ {0} /\ DOMAIN MartsOf[g] = 1..Len(MartsOf[g])
  BY DEF Groups, MartsOf
<1>6. \A g \in Groups : MartsOf[g] \in Seq(Marts)
  <2> SUFFICES ASSUME NEW g \in Groups PROVE MartsOf[g] \in Seq(Marts)
    OBVIOUS
  <2>1. \A i \in 1..Len(MartsOf[g]) : MartsOf[g][i] \in Marts
    BY <1>1, <1>3
  <2> QED
    BY <2>1 DEF Groups, MartsOf
<1>7. \A g \in Groups, h \in Groups : g # h => Files(g) \cap Files(h) = {}
  BY DEF Groups, MartsOf, Files, ToSet
<1> QED
  BY <1>1, <1>2, <1>3, <1>4, <1>5, <1>6, <1>7

\* It is the turn of one step at a time.
LEMMA OneTurn ==
  ASSUME goldRun.steps \subseteq Groups, NEW g, NEW h, UpNext(g), UpNext(h)
  PROVE  g = h
BY DEF UpNext, Groups, Rank

\* The shape of a run goes with where it is.
LEMMA RunParts ==
  ASSUME GoldTypeOK
  PROVE  /\ goldRun.at \in {"idle", "feeds", "exit 0", "fatal", "steps", "write"}
         /\ goldRun.at = "idle" => goldRun = Idle
         /\ goldRun.at \in {"feeds", "exit 0", "fatal"} => goldRun \in BetweenFeeds
         /\ goldRun.at \in {"steps", "write"} => goldRun \in AtSteps
<1>1. goldRun = Idle \/ goldRun \in BetweenFeeds \/ goldRun \in AtSteps
  BY DEF GoldTypeOK
<1>2. CASE goldRun = Idle
  BY <1>2 DEF Idle
<1>3. CASE goldRun \in BetweenFeeds
  BY <1>3 DEF BetweenFeeds
<1>4. CASE goldRun \in AtSteps
  BY <1>4 DEF AtSteps
<1> QED
  BY <1>1, <1>2, <1>3, <1>4

\* What a run enumerates, and where it reads a feed from.
LEMMA RunInputs ==
  ASSUME NEW args \in Args, NEW f \in GoldFeeds
  PROVE  /\ Enumerated(args) \subseteq GoldFeeds
         /\ SourceOf(f, args) \in Sources
         /\ Steps(f, args) \subseteq Groups
<1>1. args.feed \subseteq GoldFeeds
  BY DEF Args
<1> QED
  BY <1>1, GoldAssumption DEF Enumerated, SourceOf, AutoSource, Sources, Steps, Groups

\* A feed belongs to an agency.
LEMMA HasAgency == \A f \in GoldFeeds : AgencyOf(f) \in Agencies
BY DEF GoldFeeds, AgencyOf

\* What is written next, and what is left to write then.
LEMMA NextFile ==
  ASSUME GoldTypeOK, goldRun.at = "write", NEW g \in Groups, UpNext(g)
  PROVE  /\ goldRun \in AtSteps /\ goldRun.partition.load # 0
         /\ Head(goldRun.files) \in Files(g)
         /\ Tail(goldRun.files) \in Seq(Marts)
         /\ ToSet(Tail(goldRun.files)) \subseteq Files(g)
         /\ \A h \in Groups : UpNext(h) => h = g
<1>1. goldRun \in AtSteps /\ goldRun.partition.load # 0
  BY RunParts DEF GoldTypeOK
<1>2. \A h \in Groups : UpNext(h) => h = g
  BY <1>1, OneTurn DEF AtSteps
<1>3. goldRun.files \in Seq(Marts) /\ goldRun.files # <<>> /\ ToSet(goldRun.files) \subseteq Files(g)
  BY <1>1, <1>2 DEF GoldTypeOK, AtSteps
<1>4. Head(goldRun.files) \in Files(g)
  BY <1>3 DEF ToSet
<1>5. Tail(goldRun.files) \in Seq(Marts) /\ ToSet(Tail(goldRun.files)) \subseteq ToSet(goldRun.files)
  BY <1>3 DEF ToSet
<1> QED
  BY <1>1, <1>2, <1>3, <1>4, <1>5

\* Types are kept by every step.
LEMMA GoldTypeStep ==
  ASSUME GoldTypeOK, [GoldNext]_goldVars
  PROVE  GoldTypeOK'
<1>1. ASSUME NEW f \in GoldFeeds, NEW s \in Sources, NEW y \in Yields, RollUpSilver(f, s, y)
      PROVE  GoldTypeOK'
  <2>1. /\ goldHistory' \in Histories
        /\ goldHistory.loads \in Nat /\ goldHistory'.loads = goldHistory.loads + 1
    <3>1. goldHistory \in Histories
      BY DEF GoldTypeOK
    <3> QED
      BY <1>1, <3>1 DEF RollUpSilver, Histories
  <2>2. Partitions \subseteq Partitions'
    BY <2>1 DEF Partitions
  <2>3. [load |-> goldHistory.loads + 1, yields |-> y] \in Partitions'
    BY <2>1, GoldAssumption DEF Partitions
  <2>4. silver' \in [GoldFeeds -> [Sources -> Partitions']]
    BY <1>1, <2>2, <2>3 DEF RollUpSilver, GoldTypeOK
  <2>5. goldMarts' \in [GoldFeeds -> [Marts -> 0..goldHistory'.loads]]
    BY <1>1, <2>1 DEF RollUpSilver, GoldTypeOK
  <2>6. goldRun' = Idle /\ UNCHANGED <<goldRun, resolver>>
    BY <1>1, RunParts DEF RollUpSilver
  <2> QED
    BY <2>1, <2>4, <2>5, <2>6 DEF GoldTypeOK, Idle
<1>2. ASSUME NEW args \in Args, StartGold(args)
      PROVE  GoldTypeOK'
  <2>1. goldRun' \in BetweenFeeds
    BY <1>2, GoldAssumption DEF StartGold, BetweenFeeds, Enumerated, SilverPresent, Args
  <2>2. goldHistory' \in Histories
        /\ goldHistory'.loads = goldHistory.loads
    <3>1. goldHistory \in Histories
      BY DEF GoldTypeOK
    <3>2. /\ (IF args.normalize THEN goldHistory.named
              ELSE goldHistory.named \cup args.feed) \in SUBSET GoldFeeds
          /\ goldHistory.runs + 1 \in Nat
      BY <3>1 DEF Histories, Args
    <3> QED
      BY <1>2, <3>1, <3>2, Zenon DEF StartGold, Histories
  <2> QED
    BY <1>2, <2>1, <2>2 DEF StartGold, GoldTypeOK, BetweenFeeds, Partitions
<1>3. ASSUME NEW f \in GoldFeeds, BuildOne(f)
      PROVE  GoldTypeOK'
  <2>1. goldRun \in BetweenFeeds
    BY <1>3, RunParts DEF BuildOne
  <2> DEFINE partition == silver[f][SourceOf(f, goldRun.args)]
  <2>2. partition \in Partitions /\ Steps(f, goldRun.args) \subseteq Groups
    <3>1. goldRun.args \in Args
      BY <2>1 DEF BetweenFeeds
    <3>2. SourceOf(f, goldRun.args) \in Sources /\ Steps(f, goldRun.args) \subseteq Groups
      BY <3>1, RunInputs
    <3> QED
      BY <3>2 DEF GoldTypeOK
  <2>3. CASE Steps(f, goldRun.args) = {} \/ partition.load = 0
    BY <1>3, <2>1, <2>3 DEF BuildOne, GoldTypeOK, BetweenFeeds, Partitions
  <2>4. CASE Steps(f, goldRun.args) # {} /\ partition.load # 0
    <3>1. /\ goldRun' = [at |-> "steps", args |-> goldRun.args, todo |-> goldRun.todo \ {f},
                      found |-> goldRun.found, feed |-> f, steps |-> Steps(f, goldRun.args),
                      files |-> <<>>, partition |-> partition]
          /\ UNCHANGED <<silver, goldMarts, resolver, goldHistory>>
      BY <1>3, <2>4 DEF BuildOne
    <3>2. goldRun' \in AtSteps /\ goldRun'.at = "steps" /\ goldRun'.partition.load # 0
      <4>1. /\ goldRun.args \in Args /\ goldRun.todo \in SUBSET GoldFeeds
            /\ goldRun.found \in BOOLEAN
        BY <2>1 DEF BetweenFeeds
      <4>3. <<>> \in Seq(Marts)
        OBVIOUS
      <4>2. Partitions' = Partitions
        BY <3>1 DEF Partitions
      <4> HIDE DEF partition
      <4> QED
        BY <2>2, <2>4, <3>1, <4>1, <4>2, <4>3 DEF AtSteps
    <3> QED
      BY <3>1, <3>2 DEF GoldTypeOK, AtSteps, Partitions
  <2> QED
    BY <2>3, <2>4
<1>4. ASSUME NEW f \in GoldFeeds, NEW g \in Groups, Turn(f, g), BeginStep(g),
             UNCHANGED <<silver, goldMarts, goldHistory>>,
             resolver' \in [Agencies -> {"fresh", "ok", "lookup", "failed"}]
      PROVE  GoldTypeOK'
  <2>1. goldRun \in AtSteps /\ goldRun.partition.load # 0
    BY <1>4, RunParts DEF Turn, GoldTypeOK
  <2>2. CASE goldRun' = [goldRun EXCEPT !.at = "write", !.files = MartsOf[g]]
    <3>1. MartsOf[g] \in Seq(Marts) /\ MartsOf[g] # <<>> /\ ToSet(MartsOf[g]) \subseteq Files(g)
      BY GroupFacts DEF Files
    <3>2. goldRun' \in AtSteps /\ goldRun'.partition.load # 0
          /\ goldRun'.files = MartsOf[g] /\ goldRun'.steps = goldRun.steps
      BY <2>1, <2>2, <3>1 DEF AtSteps
    <3>3. UpNext(g)'
      BY <1>4, <3>2 DEF Turn, UpNext
    <3> QED
      BY <1>4, <3>1, <3>2, <3>3 DEF GoldTypeOK, AtSteps, Partitions
  <2>3. CASE SkipStep(g)
    BY <1>4, <2>1, <2>3 DEF SkipStep, GoldTypeOK, AtSteps, Partitions, Turn
  <2> QED
    BY <1>4, <2>2, <2>3 DEF BeginStep
<1>5. ASSUME NEW f \in GoldFeeds, NEW g \in Groups, Turn(f, g), SkipStep(g),
             UNCHANGED <<silver, goldMarts, goldHistory>>,
             resolver' \in [Agencies -> {"fresh", "ok", "lookup", "failed"}]
      PROVE  GoldTypeOK'
  <2>1. goldRun \in AtSteps /\ goldRun.at = "steps" /\ goldRun.partition.load # 0
    BY <1>5, RunParts DEF Turn, GoldTypeOK
  <2>2. goldRun' \in AtSteps' /\ goldRun'.at = "steps" /\ goldRun'.partition.load # 0
    BY <1>5, <2>1 DEF SkipStep, AtSteps, Partitions
  <2> QED
    BY <1>5, <2>2 DEF GoldTypeOK, Partitions
<1>6. ASSUME NEW f \in GoldFeeds, ScheduleFree(f)
      PROVE  GoldTypeOK'
  BY <1>4, <1>6 DEF ScheduleFree, GoldTypeOK, Groups
<1>7. ASSUME NEW f \in GoldFeeds, NEW g \in Groups, WithoutGtfs(f, g)
      PROVE  GoldTypeOK'
  BY <1>5, <1>7 DEF WithoutGtfs, GoldTypeOK
<1>8. ASSUME NEW f \in GoldFeeds, NEW g \in Groups, NEW answer \in {"ok", "lookup", "failed"},
             NEW before \in {"ok", "failed"}, GtfsStep(f, g, answer, before)
      PROVE  GoldTypeOK'
  <2>1. resolver' \in [Agencies -> {"fresh", "ok", "lookup", "failed"}]
    BY <1>8, HasAgency DEF GtfsStep, GoldTypeOK
  <2> QED
    BY <1>4, <1>5, <1>8, <2>1 DEF GtfsStep
<1>9. ASSUME NEW g \in Groups, WriteParquet(g)
      PROVE  GoldTypeOK'
  <2>1. goldRun.at = "write" /\ UpNext(g)
    BY <1>9 DEF WriteParquet
  <2>2. /\ goldRun \in AtSteps /\ goldRun.partition.load # 0
        /\ Head(goldRun.files) \in Files(g)
        /\ Tail(goldRun.files) \in Seq(Marts)
        /\ ToSet(Tail(goldRun.files)) \subseteq Files(g)
    BY <2>1, NextFile
  <2>3. goldMarts' \in [GoldFeeds -> [Marts -> 0..goldHistory.loads]]
    <3>1. goldRun.feed \in GoldFeeds /\ goldRun.partition.load \in 0..goldHistory.loads
      BY <2>2 DEF AtSteps, Partitions
    <3> QED
      BY <1>9, <2>2, <3>1, GroupFacts DEF WriteParquet, GoldTypeOK
  <2>4. goldRun' \in AtSteps /\ goldRun'.partition.load # 0
    BY <1>9, <2>2 DEF WriteParquet, AtSteps
  <2>5. goldRun'.at = "write" =>
          UpNext(g)' /\ goldRun'.files # <<>> /\ ToSet(goldRun'.files) \subseteq Files(g)
    BY <1>9, <2>1, <2>2 DEF WriteParquet, AtSteps, UpNext
  <2> QED
    BY <1>9, <2>3, <2>4, <2>5 DEF WriteParquet, GoldTypeOK, AtSteps, Partitions
<1>10. CASE NextFeed \/ FinishGold
  <2>1. UNCHANGED <<silver, goldMarts, resolver, goldHistory>>
    BY <1>10 DEF NextFeed, FinishGold
  <2>2. goldRun' \in BetweenFeeds
    <3>1. CASE NextFeed
      <4>1. goldRun \in AtSteps
        BY <3>1, RunParts DEF NextFeed
      <4> QED
        BY <3>1, <4>1 DEF NextFeed, BetweenFeeds, AtSteps
    <3>2. CASE FinishGold
      <4>1. goldRun \in BetweenFeeds
        BY <3>2, RunParts DEF FinishGold
      <4> QED
        BY <3>2, <4>1 DEF FinishGold, BetweenFeeds
    <3> QED
      BY <1>10, <3>1, <3>2
  <2> QED
    BY <2>1, <2>2 DEF GoldTypeOK, BetweenFeeds, Partitions
<1>11. CASE GoldDies
  <2>1. UNCHANGED <<silver, goldMarts, resolver>> /\ goldRun' = Idle
    BY <1>11 DEF GoldDies
  <2>2. goldHistory' \in Histories /\ goldHistory'.loads = goldHistory.loads
    <3>1. goldHistory \in Histories
      BY DEF GoldTypeOK
    <3>2. /\ (goldHistory.forcedDeath \/ goldRun.args.force) \in BOOLEAN
          /\ goldHistory.deaths + 1 \in Nat
      BY <3>1 DEF Histories
    <3> QED
      BY <1>11, <3>1, <3>2, Zenon DEF GoldDies, Histories
  <2> QED
    BY <2>1, <2>2 DEF GoldTypeOK, Idle, Partitions
<1>12. CASE GoldRests
  BY <1>12 DEF GoldRests, GoldTypeOK, Idle, Partitions
<1>13. CASE UNCHANGED goldVars
  BY <1>13 DEF goldVars, GoldTypeOK, AtSteps, Partitions, UpNext
<1> QED
  BY <1>1, <1>2, <1>3, <1>6, <1>7, <1>8, <1>9, <1>10, <1>11, <1>12, <1>13, GoldAssumption
     DEF GoldNext

LastFile(g) == MartsOf[g][Len(MartsOf[g])]

\* How many files of a group are on disk while it is written.
Done(g) == Len(MartsOf[g]) - Len(goldRun.files)

\* The files of a group are written in their order: those before the next one
\* are of the run's partition.
WritingInv ==
  goldRun.at = "write" =>
    \A g \in Groups : UpNext(g) =>
      /\ Len(goldRun.files) <= Len(MartsOf[g])
      /\ \A i \in 1..Len(goldRun.files) : goldRun.files[i] = MartsOf[g][Done(g) + i]
      /\ \A i \in 1..Done(g) : goldMarts[goldRun.feed][MartsOf[g][i]] = goldRun.partition.load

OneLoad(f, g) == \A m, n \in Files(g) : goldMarts[f][m] = goldMarts[f][n]

\* A group whose last file is there is whole, unless a forced run replaces it.
SameLoadInv ==
  ~goldHistory.forcedDeath =>
    /\ \A f \in GoldFeeds, g \in Groups :
         \/ goldMarts[f][LastFile(g)] = 0
         \/ OneLoad(f, g)
         \/ goldRun.at = "write" /\ goldRun.feed = f /\ UpNext(g) /\ goldRun.args.force
    /\ goldRun.at \in {"steps", "write"} /\ ~goldRun.args.force =>
         \A g \in goldRun.steps : goldMarts[goldRun.feed][LastFile(g)] = 0

\* The schedule-free marts come first.
FirstInv ==
  goldRun.at \in {"steps", "write"} /\ ~goldRun.args.normalize =>
    \/ "schedule_free" \in goldRun.steps
    \/ "schedule_free" \notin goldRun.partition.yields
    \/ AllWritten(goldRun.feed, "schedule_free")

\* The superseded feeds no run was told to build.
Unnamed == SupersededByTripUpdates \ goldHistory.named

\* They are enumerated for normalization only.
SupersededInv ==
  /\ \A f \in Unnamed, m \in Marts \ Files("normalized") : goldMarts[f][m] = 0
  /\ goldRun.at # "idle" => goldRun.args.normalize \/ goldRun.todo \cap Unnamed = {}
  /\ goldRun.at \in {"steps", "write"} =>
       IF goldRun.args.normalize THEN goldRun.steps \subseteq {"normalized"}
       ELSE goldRun.feed \notin Unnamed

\* A run that got past the assertion found silver.
FoundInv ==
  goldRun.at \in {"feeds", "steps", "write", "exit 0"}
    /\ goldRun.args.silverDir /\ ~goldRun.args.normalize => goldRun.found

GoldInv == WritingInv /\ SameLoadInv /\ FirstInv /\ SupersededInv /\ FoundInv

-----------------------------------------------------------------------------
\* The kinds of steps: away from a feed's steps, ...
Away ==
  /\ goldMarts' = goldMarts
  /\ goldRun'.at \in {"idle", "feeds", "exit 0", "fatal"}
  /\ ~goldHistory'.forcedDeath => ~goldHistory.forcedDeath
                                  /\ (goldRun.at = "write" => ~goldRun.args.force)

\* ... a step without a result, ...
Skips(g) ==
  /\ goldRun.at = "steps" /\ UpNext(g) /\ SkipStep(g)
  /\ g = "schedule_free" => g \notin goldRun.partition.yields
  /\ UNCHANGED <<goldMarts, goldHistory>>

\* ... and one with.
Begins(g) ==
  /\ goldRun.at = "steps" /\ UpNext(g)
  /\ goldRun' = [goldRun EXCEPT !.at = "write", !.files = MartsOf[g]]
  /\ UNCHANGED <<goldMarts, goldHistory>>

Enters(f) == BuildOne(f) /\ goldRun'.at = "steps"

\* Every step is of one of these kinds.
LEMMA KindsOfSteps ==
  ASSUME GoldTypeOK, [GoldNext]_goldVars
  PROVE  \/ Away
         \/ \E f \in GoldFeeds : Enters(f)
         \/ \E g \in Groups : Skips(g) \/ Begins(g) \/ WriteParquet(g)
         \/ UNCHANGED goldVars
<1>1. ASSUME NEW f \in GoldFeeds, NEW s \in Sources, NEW y \in Yields, RollUpSilver(f, s, y)
      PROVE  Away
  <2>1. goldHistory'.forcedDeath = goldHistory.forcedDeath
    BY <1>1 DEF RollUpSilver, GoldTypeOK, Histories
  <2> QED
    BY <1>1, <2>1 DEF RollUpSilver, Away
<1>2. ASSUME NEW args \in Args, StartGold(args)
      PROVE  Away
  <2>1. goldHistory'.forcedDeath = goldHistory.forcedDeath
    BY <1>2 DEF StartGold, GoldTypeOK, Histories
  <2> QED
    BY <1>2, <2>1 DEF StartGold, Away
<1>3. ASSUME NEW f \in GoldFeeds, BuildOne(f)
      PROVE  Away \/ Enters(f)
  <2>1. goldRun \in BetweenFeeds
    BY <1>3, RunParts DEF BuildOne
  <2>2. goldRun'.at \in {"feeds", "steps"}
    BY <1>3, <2>1 DEF BuildOne, BetweenFeeds
  <2> QED
    BY <1>3, <2>2 DEF BuildOne, Away, Enters
<1>4. ASSUME NEW f \in GoldFeeds, ScheduleFree(f)
      PROVE  \E g \in Groups : Skips(g) \/ Begins(g)
  BY <1>4 DEF ScheduleFree, BeginStep, Turn, Skips, Begins, Groups
<1>5. ASSUME NEW f \in GoldFeeds, NEW g \in Groups, WithoutGtfs(f, g)
      PROVE  Skips(g)
  BY <1>5 DEF WithoutGtfs, Turn, NeedsGtfs, Skips
<1>6. ASSUME NEW f \in GoldFeeds, NEW g \in Groups, NEW answer \in {"ok", "lookup", "failed"},
             NEW before \in {"ok", "failed"}, GtfsStep(f, g, answer, before)
      PROVE  Skips(g) \/ Begins(g)
  BY <1>6 DEF GtfsStep, BeginStep, Turn, NeedsGtfs, Skips, Begins
<1>7. CASE NextFeed
  BY <1>7 DEF NextFeed, Away
<1>8. CASE FinishGold
  <2>1. goldRun'.at = "exit 0"
    BY <1>8, RunParts DEF FinishGold, BetweenFeeds
  <2> QED
    BY <1>8, <2>1 DEF FinishGold, Away
<1>9. CASE GoldDies
  <2>1. goldHistory'.forcedDeath = (goldHistory.forcedDeath \/ goldRun.args.force)
    BY <1>9, Zenon DEF GoldDies, GoldTypeOK, Histories
  <2> QED
    BY <1>9, <2>1 DEF GoldDies, Away, Idle
<1>10. CASE GoldRests
  BY <1>10 DEF GoldRests, Away, Idle
<1> QED
  BY <1>1, <1>2, <1>3, <1>4, <1>5, <1>6, <1>7, <1>8, <1>9, <1>10, GoldAssumption DEF GoldNext

\* Files of a group are written one after the other.
LEMMA WritingStep ==
  ASSUME GoldTypeOK, GoldTypeOK', WritingInv, [GoldNext]_goldVars
  PROVE  WritingInv'
<1>1. CASE Away \/ (\E f \in GoldFeeds : Enters(f)) \/ (\E g \in Groups : Skips(g))
  <2>1. goldRun'.at # "write"
    <3>1. ASSUME NEW g \in Groups, Skips(g)
          PROVE  goldRun'.at = "steps"
      BY <3>1, RunParts DEF Skips, SkipStep, AtSteps
    <3> QED
      BY <1>1, <3>1 DEF Away, Enters
  <2> QED
    BY <2>1 DEF WritingInv
<1>2. ASSUME NEW g \in Groups, Begins(g)
      PROVE  WritingInv'
  <2>1. goldRun \in AtSteps
    BY <1>2, RunParts DEF Begins
  <2>2. goldRun'.files = MartsOf[g] /\ goldRun'.steps = goldRun.steps
    BY <1>2, <2>1 DEF Begins, AtSteps
  <2>3. ASSUME NEW h \in Groups, UpNext(h)'
        PROVE  h = g
    BY <1>2, <2>1, <2>2, <2>3, OneTurn DEF Begins, UpNext, AtSteps
  <2>4. Len(MartsOf[g]) \in Nat /\ Done(g)' = 0
    BY <2>2, GroupFacts DEF Done
  <2>5. ASSUME NEW h \in Groups, UpNext(h)'
        PROVE  /\ Len(goldRun'.files) <= Len(MartsOf[h])
               /\ \A i \in 1..Len(goldRun'.files) : goldRun'.files[i] = MartsOf[h][Done(h)' + i]
               /\ \A i \in 1..Done(h)' :
                    goldMarts'[goldRun'.feed][MartsOf[h][i]] = goldRun'.partition.load
    BY <2>2, <2>3, <2>4, <2>5
  <2> QED
    BY <2>5 DEF WritingInv
<1>3. ASSUME NEW g \in Groups, WriteParquet(g)
      PROVE  WritingInv'
  <2> SUFFICES ASSUME goldRun'.at = "write", NEW h \in Groups, UpNext(h)'
               PROVE  /\ Len(goldRun'.files) <= Len(MartsOf[h])
                      /\ \A i \in 1..Len(goldRun'.files) :
                           goldRun'.files[i] = MartsOf[h][Done(h)' + i]
                      /\ \A i \in 1..Done(h)' :
                           goldMarts'[goldRun'.feed][MartsOf[h][i]] = goldRun'.partition.load
    BY DEF WritingInv
  <2>1. /\ goldRun.at = "write" /\ UpNext(g) /\ goldRun \in AtSteps
        /\ goldRun.files \in Seq(Marts) /\ goldRun.files # <<>>
    <3>1. goldRun.at = "write" /\ UpNext(g)
      BY <1>3 DEF WriteParquet
    <3> QED
      BY <3>1, NextFile DEF GoldTypeOK, AtSteps
  <2>2. /\ goldRun' = [goldRun EXCEPT !.files = Tail(@)]
        /\ goldMarts' = [goldMarts EXCEPT ![goldRun.feed][Head(goldRun.files)] =
                           goldRun.partition.load]
    BY <1>3, <2>1 DEF WriteParquet, AtSteps
  <2>3. h = g
    BY <2>1, <2>2, OneTurn DEF UpNext, AtSteps
  <2> DEFINE files == goldRun.files
             n == Len(MartsOf[g])
             d == Done(g)
  <2>4. n \in Nat /\ Len(files) \in Nat /\ Len(files) > 0
    BY <2>1, GroupFacts
  <2>5. /\ Len(files) <= n
        /\ \A i \in 1..Len(files) : files[i] = MartsOf[g][d + i]
        /\ \A i \in 1..d : goldMarts[goldRun.feed][MartsOf[g][i]] = goldRun.partition.load
    BY <2>1 DEF WritingInv
  <2>6. d = n - Len(files)
    BY DEF Done
  <2>7. /\ goldRun'.files = Tail(files) /\ Len(Tail(files)) = Len(files) - 1
        /\ \A i \in 1..(Len(files) - 1) : Tail(files)[i] = files[i + 1]
        /\ goldRun'.feed = goldRun.feed /\ goldRun'.partition = goldRun.partition
        /\ Head(files) = files[1]
    BY <2>1, <2>2 DEF AtSteps
  <2>8. Done(g)' = n - (Len(files) - 1)
    BY <2>7 DEF Done
  <2>9. /\ goldMarts \in [GoldFeeds -> [Marts -> 0..goldHistory.loads]]
        /\ goldRun.feed \in GoldFeeds
        /\ \A i \in 1..n : MartsOf[g][i] \in Marts
    BY <2>1, GroupFacts DEF GoldTypeOK, AtSteps
  <2>10. goldMarts' = [goldMarts EXCEPT ![goldRun.feed][Head(files)] = goldRun.partition.load]
    BY <2>2
  <2> HIDE DEF files, n, d
  <2>11. Done(g)' = d + 1 /\ d \in Nat /\ d + 1 \in 1..n
    BY <2>4, <2>5, <2>6, <2>8
  <2>12. Head(files) = MartsOf[g][d + 1]
    BY <2>4, <2>5, <2>7
  <2>13. \A i \in 1..(Len(files) - 1) : Tail(files)[i] = MartsOf[g][(d + 1) + i]
    <3> SUFFICES ASSUME NEW i \in 1..(Len(files) - 1)
                 PROVE  Tail(files)[i] = MartsOf[g][(d + 1) + i]
      OBVIOUS
    <3>1. i + 1 \in 1..Len(files) /\ d + (i + 1) = (d + 1) + i
      BY <2>4, <2>11
    <3> QED
      BY <2>5, <2>7, <3>1
  <2>14. \A i \in 1..(d + 1) :
          goldMarts'[goldRun.feed][MartsOf[g][i]] = goldRun.partition.load
    <3> SUFFICES ASSUME NEW i \in 1..(d + 1)
                 PROVE  goldMarts'[goldRun.feed][MartsOf[g][i]] = goldRun.partition.load
      OBVIOUS
    <3>1. MartsOf[g][i] \in Marts /\ (i = d + 1 \/ i \in 1..d)
      BY <2>4, <2>9, <2>11
    <3> QED
      BY <2>5, <2>9, <2>10, <2>12, <3>1
  <2>15. Len(files) - 1 <= n
    BY <2>4, <2>5
  <2> QED
    BY <2>3, <2>7, <2>11, <2>13, <2>14, <2>15 DEF n
<1>4. CASE UNCHANGED goldVars
  BY <1>4 DEF goldVars, WritingInv, UpNext, Done
<1> QED
  BY <1>1, <1>2, <1>3, <1>4, KindsOfSteps

\* The empty sequence is the one without elements.
LEMMA EmptyLen ==
  ASSUME NEW S, NEW s \in Seq(S)
  PROVE  s = <<>> <=> Len(s) = 0
OBVIOUS

\* What one file more does: other marts stay; the last file of the group comes
\* last, and when it is there, the group is the partition's.
LEMMA OneFileMore ==
  ASSUME GoldTypeOK, WritingInv, NEW g \in Groups, WriteParquet(g)
  PROVE  /\ goldRun \in AtSteps /\ goldRun.at = "write" /\ UpNext(g)
         /\ goldRun.partition.load # 0
         /\ \A f \in GoldFeeds, m \in Marts :
              f # goldRun.feed \/ m \notin Files(g) => goldMarts'[f][m] = goldMarts[f][m]
         /\ \/ /\ goldRun'.at = "write" /\ goldRun'.steps = goldRun.steps
               /\ goldMarts'[goldRun.feed][LastFile(g)] = goldMarts[goldRun.feed][LastFile(g)]
            \/ /\ goldRun'.at = "steps" /\ goldRun'.steps = goldRun.steps \ {g}
               /\ \A m \in Files(g) : goldMarts'[goldRun.feed][m] = goldRun.partition.load
         /\ goldRun'.feed = goldRun.feed /\ goldRun'.args = goldRun.args
         /\ goldRun'.todo = goldRun.todo /\ goldRun'.found = goldRun.found
         /\ goldRun'.partition = goldRun.partition
         /\ goldHistory' = goldHistory
<1>1. goldRun.at = "write" /\ UpNext(g)
  BY DEF WriteParquet
<1>2. /\ goldRun \in AtSteps /\ goldRun.partition.load # 0
      /\ Head(goldRun.files) \in Files(g)
      /\ goldRun.files \in Seq(Marts) /\ goldRun.files # <<>>
      /\ goldRun.feed \in GoldFeeds
  BY <1>1, NextFile DEF GoldTypeOK, AtSteps
<1>3. /\ goldMarts \in [GoldFeeds -> [Marts -> 0..goldHistory.loads]]
      /\ goldMarts' = [goldMarts EXCEPT ![goldRun.feed][Head(goldRun.files)] =
                         goldRun.partition.load]
  BY DEF GoldTypeOK, WriteParquet
<1>4. \A f \in GoldFeeds, m \in Marts :
        f # goldRun.feed \/ m \notin Files(g) => goldMarts'[f][m] = goldMarts[f][m]
  BY <1>2, <1>3
<1>5. /\ goldRun'.feed = goldRun.feed /\ goldRun'.args = goldRun.args
      /\ goldRun'.todo = goldRun.todo /\ goldRun'.found = goldRun.found
      /\ goldRun'.partition = goldRun.partition
      /\ goldHistory' = goldHistory
  BY <1>2 DEF WriteParquet, AtSteps
<1> DEFINE files == goldRun.files
           n == Len(MartsOf[g])
           d == Done(g)
<1>6. /\ n \in Nat \ {0} /\ Len(files) \in Nat /\ Len(files) > 0 /\ d = n - Len(files)
      /\ Head(files) = files[1] /\ Len(Tail(files)) = Len(files) - 1
  BY <1>2, GroupFacts DEF Done
<1>7. /\ Len(files) <= n
      /\ \A i \in 1..Len(files) : files[i] = MartsOf[g][d + i]
      /\ \A i \in 1..d : goldMarts[goldRun.feed][MartsOf[g][i]] = goldRun.partition.load
  BY <1>1 DEF WritingInv
<1>8. /\ \A i \in 1..n : MartsOf[g][i] \in Marts
      /\ \A i, j \in 1..n : MartsOf[g][i] = MartsOf[g][j] => i = j
      /\ \A m \in Files(g) : \E i \in 1..n : m = MartsOf[g][i]
  BY GroupFacts
<1>9. /\ Tail(files) # <<>> => goldRun' = [goldRun EXCEPT !.files = Tail(@)]
      /\ Tail(files) = <<>> =>
           goldRun' = [goldRun EXCEPT !.at = "steps", !.files = <<>>, !.steps = @ \ {g}]
  BY DEF WriteParquet
<1>10. LastFile(g) = MartsOf[g][n]
  BY DEF LastFile
<1>11. Tail(files) \in Seq(Marts)
  BY <1>2
<1>12. CASE Tail(files) # <<>>
  <2>1. Len(Tail(files)) # 0
    BY <1>11, <1>12, EmptyLen
  <2>2. goldRun'.at = "write" /\ goldRun'.steps = goldRun.steps
    BY <1>1, <1>2, <1>9, <1>12 DEF AtSteps
  <2> HIDE DEF files, n, d
  <2>3. d + 1 \in 1..n /\ d + 1 # n /\ n \in 1..n /\ 1 \in 1..Len(files)
    <3>1. Len(files) <= n
      BY <1>7
    <3>2. Len(files) - 1 # 0
      BY <1>6, <2>1
    <3>3. n \in Nat /\ n # 0 /\ Len(files) \in Nat /\ Len(files) > 0 /\ d = n - Len(files)
      BY <1>6
    <3> DEFINE l == Len(files)
    <3>4. l \in Nat /\ l <= n /\ l # 0 /\ l # 1 /\ d = n - l
      BY ONLY <3>1, <3>2, <3>3
    <3> HIDE DEF l
    <3>5. d + 1 \in 1..n /\ d + 1 # n
      BY ONLY <3>3, <3>4
    <3>6. 1 \in 1..l
      BY ONLY <3>4
    <3> QED
      BY <3>3, <3>5, <3>6 DEF l
  <2>4. Head(files) # LastFile(g) /\ LastFile(g) \in Marts
    <3>1. Head(files) = MartsOf[g][d + 1]
      BY <1>6, <1>7, <2>3
    <3> QED
      BY <1>8, <1>10, <2>3, <3>1
  <2>5. goldMarts'[goldRun.feed][LastFile(g)] = goldMarts[goldRun.feed][LastFile(g)]
    BY <1>2, <1>3, <2>4 DEF files
  <2> QED
    BY <1>1, <1>2, <1>4, <1>5, <2>2, <2>5
<1>13. CASE Tail(files) = <<>>
  <2>1. Len(Tail(files)) = 0
    BY <1>11, <1>13, EmptyLen
  <2>2. goldRun'.at = "steps" /\ goldRun'.steps = goldRun.steps \ {g}
    BY <1>2, <1>9, <1>13 DEF AtSteps
  <2> HIDE DEF files, n, d
  <2>3. d + 1 = n /\ d \in Nat /\ 1 \in 1..Len(files)
    BY <1>6, <1>7, <2>1
  <2>4. Head(files) = MartsOf[g][n]
    BY <1>6, <1>7, <2>3
  <2>5. ASSUME NEW m \in Files(g)
        PROVE  goldMarts'[goldRun.feed][m] = goldRun.partition.load
    <3>1. PICK i \in 1..n : m = MartsOf[g][i]
      BY <1>8
    <3>2. i = n \/ i \in 1..d
      BY <1>6, <2>3
    <3>3. m \in Marts
      BY <1>8, <3>1
    <3> QED
      BY <1>2, <1>3, <1>7, <2>4, <3>1, <3>2, <3>3 DEF files
  <2> QED
    BY <1>1, <1>2, <1>4, <1>5, <2>2, <2>5
<1> QED
  BY <1>12, <1>13

\* The step of a feed whose turn it was is over.
LEMMA AfterSkip ==
  ASSUME GoldTypeOK, NEW g \in Groups, Skips(g) \/ Begins(g)
  PROVE  /\ goldRun \in AtSteps /\ goldRun'.at \in {"steps", "write"}
         /\ goldRun'.steps \subseteq goldRun.steps
         /\ \A h \in Groups \ {g} : h \in goldRun.steps => h \in goldRun'.steps
         /\ Begins(g) => goldRun'.steps = goldRun.steps
         /\ goldRun'.feed = goldRun.feed /\ goldRun'.args = goldRun.args
         /\ goldRun'.todo = goldRun.todo /\ goldRun'.found = goldRun.found
         /\ goldRun'.partition = goldRun.partition
         /\ goldHistory' = goldHistory /\ goldMarts' = goldMarts
<1>1. goldRun \in AtSteps
  BY RunParts DEF Skips, Begins
<1>2. CASE Skips(g)
  <2>1. /\ goldRun' = [goldRun EXCEPT !.steps = @ \ {g}]
        /\ goldHistory' = goldHistory /\ goldMarts' = goldMarts
        /\ goldRun.at = "steps"
    BY <1>2 DEF Skips, SkipStep
  <2>2. goldRun'.at = "steps"
    BY <1>1, <2>1 DEF AtSteps
  <2>3. ~Begins(g)
    <3>1. Begins(g) => goldRun'.at = "write"
      BY <1>1 DEF Begins, AtSteps
    <3> QED
      BY <2>2, <3>1
  <2> QED
    BY <1>1, <2>1, <2>2, <2>3 DEF AtSteps
<1>3. CASE Begins(g)
  BY <1>1, <1>3 DEF Begins, AtSteps
<1> QED
  BY <1>2, <1>3

\* A feed is entered with the steps that have something to do.
LEMMA OnEntry ==
  ASSUME GoldTypeOK, NEW f \in GoldFeeds, Enters(f)
  PROVE  /\ goldRun \in BetweenFeeds /\ f \in goldRun.todo
         /\ goldRun'.feed = f /\ goldRun'.args = goldRun.args
         /\ goldRun'.steps = Steps(f, goldRun.args)
         /\ goldRun'.todo = goldRun.todo \ {f} /\ goldRun'.found = goldRun.found
         /\ goldHistory' = goldHistory /\ goldMarts' = goldMarts
<1>1. goldRun \in BetweenFeeds
  BY RunParts DEF Enters, BuildOne
<1>2. goldRun.at = "feeds"
  BY DEF Enters, BuildOne
<1>3. ~(Steps(f, goldRun.args) = {} \/ silver[f][SourceOf(f, goldRun.args)].load = 0)
  <2> SUFFICES ASSUME Steps(f, goldRun.args) = {} \/ silver[f][SourceOf(f, goldRun.args)].load = 0
               PROVE  FALSE
    OBVIOUS
  <2>1. goldRun' = [goldRun EXCEPT !.todo = goldRun.todo \ {f}]
    BY DEF Enters, BuildOne
  <2> QED
    BY <1>1, <1>2, <2>1 DEF Enters, BetweenFeeds
<1> QED
  BY <1>1, <1>3 DEF Enters, BuildOne

\* No half-built group looks whole.
LEMMA SameLoadStep ==
  ASSUME GoldTypeOK, GoldTypeOK', WritingInv, SameLoadInv, [GoldNext]_goldVars
  PROVE  SameLoadInv'
<1> SUFFICES ASSUME ~goldHistory'.forcedDeath
             PROVE  /\ \A f \in GoldFeeds, g \in Groups :
                         \/ goldMarts'[f][LastFile(g)] = 0
                         \/ OneLoad(f, g)'
                         \/ goldRun'.at = "write" /\ goldRun'.feed = f /\ UpNext(g)'
                              /\ goldRun'.args.force
                    /\ goldRun'.at \in {"steps", "write"} /\ ~goldRun'.args.force =>
                         \A g \in goldRun'.steps : goldMarts'[goldRun'.feed][LastFile(g)] = 0
  BY DEF SameLoadInv
<1>0. \A g \in Groups : LastFile(g) \in Files(g) /\ Files(g) \subseteq Marts
  BY GroupFacts DEF LastFile
<1>1. CASE Away
  BY <1>1 DEF Away, SameLoadInv, OneLoad
<1>2. ASSUME NEW f \in GoldFeeds, Enters(f)
      PROVE  SameLoadInv'
  <2>1. /\ goldRun'.feed = f /\ goldRun'.args = goldRun.args
        /\ goldRun'.steps = Steps(f, goldRun.args) /\ goldRun.at = "feeds"
        /\ goldHistory' = goldHistory /\ goldMarts' = goldMarts /\ goldRun'.at = "steps"
    BY <1>2, OnEntry DEF Enters, BuildOne
  <2>2. ASSUME ~goldRun.args.force, NEW g \in Steps(f, goldRun.args)
        PROVE  goldMarts[f][LastFile(g)] = 0
    <3>1. g \in Groups /\ ~AllWritten(f, g)
      BY <2>2 DEF Steps, Groups
    <3>2. goldMarts[f][LastFile(g)] = 0 \/ OneLoad(f, g)
      BY <2>1, <3>1 DEF SameLoadInv
    <3> QED
      BY <1>0, <3>1, <3>2 DEF AllWritten, OneLoad
  <2> QED
    BY <2>1, <2>2 DEF SameLoadInv, OneLoad
<1>3. ASSUME NEW g \in Groups, Skips(g) \/ Begins(g)
      PROVE  SameLoadInv'
  <2>1. goldRun.at = "steps"
    BY <1>3 DEF Skips, Begins
  <2> QED
    BY <1>3, <2>1, AfterSkip DEF SameLoadInv, OneLoad
<1>4. ASSUME NEW g \in Groups, WriteParquet(g)
      PROVE  SameLoadInv'
  <2>1. /\ goldRun \in AtSteps /\ goldRun.at = "write" /\ UpNext(g)
        /\ \A f \in GoldFeeds, m \in Marts :
             f # goldRun.feed \/ m \notin Files(g) => goldMarts'[f][m] = goldMarts[f][m]
        /\ \/ /\ goldRun'.at = "write" /\ goldRun'.steps = goldRun.steps
              /\ goldMarts'[goldRun.feed][LastFile(g)] = goldMarts[goldRun.feed][LastFile(g)]
           \/ /\ goldRun'.at = "steps" /\ goldRun'.steps = goldRun.steps \ {g}
              /\ \A m \in Files(g) : goldMarts'[goldRun.feed][m] = goldRun.partition.load
        /\ goldRun'.feed = goldRun.feed /\ goldRun'.args = goldRun.args
        /\ goldHistory' = goldHistory
    BY <1>4, OneFileMore
  <2>2. goldRun.feed \in GoldFeeds /\ goldRun.steps \subseteq Groups /\ g \in goldRun.steps
    BY <2>1 DEF AtSteps, UpNext
  <2>3. \A f \in GoldFeeds, h \in Groups : f # goldRun.feed \/ h # g =>
          /\ OneLoad(f, h)' <=> OneLoad(f, h)
          /\ goldMarts'[f][LastFile(h)] = goldMarts[f][LastFile(h)]
    <3>1. \A h \in Groups : h # g => Files(h) \cap Files(g) = {}
      BY GroupFacts
    <3>2. \A f \in GoldFeeds, h \in Groups : f # goldRun.feed \/ h # g =>
            \A m \in Files(h) : goldMarts'[f][m] = goldMarts[f][m]
      BY <1>0, <2>1, <3>1
    <3> QED
      BY <1>0, <3>2 DEF OneLoad
  <2>4. UpNext(g)' \/ goldRun'.at = "steps"
    BY <2>1 DEF UpNext
  <2>5. \A h \in Groups : UpNext(h) => h = g
    BY <2>1, <2>2, OneTurn
  <2>6. \A h \in Groups : h # g => \A f \in GoldFeeds :
          goldMarts[f][LastFile(h)] = 0 \/ OneLoad(f, h)
    BY <2>1, <2>5 DEF SameLoadInv
  <2>7. \A f \in GoldFeeds : f # goldRun.feed =>
          goldMarts[f][LastFile(g)] = 0 \/ OneLoad(f, g)
    BY <2>1 DEF SameLoadInv
  <2>8. ~goldRun.args.force =>
          \A h \in goldRun.steps : goldMarts[goldRun.feed][LastFile(h)] = 0
    BY <2>1 DEF SameLoadInv
  <2>9. CASE goldRun'.at = "write"
    BY <2>1, <2>2, <2>3, <2>4, <2>6, <2>7, <2>8, <2>9 DEF SameLoadInv
  <2>10. CASE goldRun'.at = "steps"
    <3>1. OneLoad(goldRun.feed, g)'
      BY <2>1, <2>10 DEF OneLoad
    <3> QED
      BY <2>1, <2>2, <2>3, <2>6, <2>7, <2>8, <2>10, <3>1 DEF SameLoadInv
  <2> QED
    BY <2>1, <2>9, <2>10
<1>5. CASE UNCHANGED goldVars
  BY <1>5 DEF goldVars, SameLoadInv, OneLoad, UpNext
<1> QED
  BY <1>1, <1>2, <1>3, <1>4, <1>5, KindsOfSteps DEF SameLoadInv

\* What a run was started with does not change until it is over.
LEMMA KindsOfAway ==
  ASSUME GoldTypeOK, [GoldNext]_goldVars, Away
  PROVE  \/ \E args \in Args : StartGold(args)
         \/ goldRun'.at = "idle" /\ goldHistory'.named = goldHistory.named
         \/ /\ goldRun.at \in {"feeds", "steps"} /\ goldRun'.at \in {"feeds", "exit 0"}
            /\ goldRun'.args = goldRun.args /\ goldRun'.todo \subseteq goldRun.todo
            /\ goldRun'.found = goldRun.found /\ goldHistory' = goldHistory
         \/ UNCHANGED goldVars
<1>1. ASSUME NEW f \in GoldFeeds, NEW s \in Sources, NEW y \in Yields, RollUpSilver(f, s, y)
      PROVE  goldRun'.at = "idle" /\ goldHistory'.named = goldHistory.named
  BY <1>1 DEF RollUpSilver, GoldTypeOK, Histories
<1>2. ASSUME NEW f \in GoldFeeds, BuildOne(f)
      PROVE  /\ goldRun.at = "feeds" /\ goldRun'.at = "feeds"
             /\ goldRun'.args = goldRun.args /\ goldRun'.todo \subseteq goldRun.todo
             /\ goldRun'.found = goldRun.found /\ goldHistory' = goldHistory
  <2>1. goldRun \in BetweenFeeds /\ goldRun.at = "feeds"
    BY <1>2, RunParts DEF BuildOne
  <2>2. \/ goldRun' = [goldRun EXCEPT !.todo = goldRun.todo \ {f}]
        \/ goldRun'.at = "steps"
    BY <1>2 DEF BuildOne
  <2>3. goldRun' = [goldRun EXCEPT !.todo = goldRun.todo \ {f}]
    BY <2>2 DEF Away
  <2> QED
    BY <1>2, <2>1, <2>3 DEF BuildOne, BetweenFeeds
<1>3. ASSUME NEW f \in GoldFeeds, NEW g \in Groups, Turn(f, g), BeginStep(g) \/ SkipStep(g)
      PROVE  FALSE
  <2>1. goldRun \in AtSteps /\ goldRun.at = "steps"
    BY <1>3, RunParts DEF Turn
  <2>2. goldRun'.at \in {"steps", "write"}
    BY <1>3, <2>1 DEF BeginStep, SkipStep, AtSteps
  <2> QED
    BY <2>2 DEF Away
<1>4. ASSUME NEW f \in GoldFeeds
      PROVE  ~ScheduleFree(f) /\ \A g \in Groups : ~WithoutGtfs(f, g)
  BY <1>3 DEF ScheduleFree, WithoutGtfs, Groups
<1>5. ASSUME NEW f \in GoldFeeds, NEW g \in Groups, NEW answer, NEW before,
             GtfsStep(f, g, answer, before)
      PROVE  FALSE
  BY <1>3, <1>5 DEF GtfsStep
<1>6. ASSUME NEW g \in Groups, WriteParquet(g)
      PROVE  FALSE
  <2>1. goldRun.at = "write" /\ UpNext(g)
    BY <1>6 DEF WriteParquet
  <2>2. goldRun \in AtSteps
    BY <2>1, RunParts
  <2>3. goldRun'.at \in {"steps", "write"}
    BY <1>6, <2>1, <2>2 DEF WriteParquet, AtSteps
  <2> QED
    BY <2>3 DEF Away
<1>7. CASE NextFeed
  BY <1>7 DEF NextFeed
<1>8. CASE FinishGold
  <2>1. goldRun \in BetweenFeeds /\ goldRun.at = "feeds"
    BY <1>8, RunParts DEF FinishGold
  <2> QED
    BY <1>8, <2>1 DEF FinishGold, BetweenFeeds
<1>9. CASE GoldDies
  BY <1>9 DEF GoldDies, Idle, GoldTypeOK, Histories
<1>10. CASE GoldRests
  BY <1>10 DEF GoldRests, Idle
<1> QED
  BY <1>1, <1>2, <1>4, <1>5, <1>6, <1>7, <1>8, <1>9, <1>10, GoldAssumption DEF GoldNext

\* A run goes by the feeds it enumerated.
LEMMA SupersededStep ==
  ASSUME GoldTypeOK, WritingInv, SupersededInv, [GoldNext]_goldVars
  PROVE  SupersededInv'
<1>1. CASE Away
  <2>1. goldMarts' = goldMarts /\ goldRun'.at \in {"idle", "feeds", "exit 0", "fatal"}
    BY <1>1 DEF Away
  <2>2. ASSUME NEW args \in Args, StartGold(args)
        PROVE  SupersededInv'
    <3>1. goldHistory'.named = IF args.normalize THEN goldHistory.named
                               ELSE goldHistory.named \cup args.feed
      BY <2>2, Zenon DEF StartGold, GoldTypeOK, Histories
    <3>2. /\ goldRun'.args = args /\ goldRun'.todo = Enumerated(args)
          /\ goldRun'.at \in {"feeds", "fatal"}
      BY <2>2 DEF StartGold
    <3>3. Unnamed' \subseteq Unnamed
      BY <3>1 DEF Unnamed
    <3>4. ~args.normalize => Enumerated(args) \cap Unnamed' = {}
      BY <3>1 DEF Enumerated, Unnamed
    <3> QED
      BY <2>1, <3>2, <3>3, <3>4 DEF SupersededInv
  <2>3. CASE goldRun'.at = "idle" /\ goldHistory'.named = goldHistory.named
    BY <2>1, <2>3 DEF SupersededInv, Unnamed
  <2>4. CASE /\ goldRun.at \in {"feeds", "steps"} /\ goldRun'.at \in {"feeds", "exit 0"}
             /\ goldRun'.args = goldRun.args /\ goldRun'.todo \subseteq goldRun.todo
             /\ goldRun'.found = goldRun.found /\ goldHistory' = goldHistory
    BY <2>1, <2>4 DEF SupersededInv, Unnamed
  <2> QED
    BY <1>1, <2>2, <2>3, <2>4, KindsOfAway DEF goldVars, SupersededInv, Unnamed
<1>2. ASSUME NEW f \in GoldFeeds, Enters(f)
      PROVE  SupersededInv'
  <2>1. goldRun.at = "feeds" /\ goldRun'.at = "steps"
    BY <1>2 DEF Enters, BuildOne
  <2>2. goldRun.args.normalize => Steps(f, goldRun.args) \subseteq {"normalized"}
    BY DEF Steps
  <2> QED
    BY <1>2, <2>1, <2>2, OnEntry DEF SupersededInv, Unnamed
<1>3. ASSUME NEW g \in Groups, Skips(g) \/ Begins(g)
      PROVE  SupersededInv'
  <2>1. goldRun.at = "steps"
    BY <1>3 DEF Skips, Begins
  <2> QED
    BY <1>3, <2>1, AfterSkip DEF SupersededInv, Unnamed
<1>4. ASSUME NEW g \in Groups, WriteParquet(g)
      PROVE  SupersededInv'
  <2>1. /\ goldRun.at = "write" /\ goldRun'.at \in {"steps", "write"} /\ g \in goldRun.steps
        /\ goldRun'.steps \subseteq goldRun.steps
        /\ \A f \in GoldFeeds, m \in Marts :
             f # goldRun.feed \/ m \notin Files(g) => goldMarts'[f][m] = goldMarts[f][m]
        /\ goldRun'.feed = goldRun.feed /\ goldRun'.args = goldRun.args
        /\ goldRun'.todo = goldRun.todo /\ goldHistory' = goldHistory
    BY <1>4, OneFileMore DEF UpNext
  <2>2. Unnamed' = Unnamed /\ Unnamed \subseteq GoldFeeds
    BY <2>1 DEF Unnamed, SupersededByTripUpdates, GoldFeeds
  <2>3. \A f \in Unnamed, m \in Marts \ Files("normalized") : goldMarts'[f][m] = 0
    <3>1. CASE goldRun.args.normalize
      <4>1. g = "normalized"
        BY <2>1, <2>2, <3>1 DEF SupersededInv
      <4> QED
        BY <2>1, <2>2, <4>1 DEF SupersededInv
    <3>2. CASE ~goldRun.args.normalize
      BY <2>1, <2>2, <3>2 DEF SupersededInv
    <3> QED
      BY <3>1, <3>2
  <2> QED
    BY <2>1, <2>2, <2>3 DEF SupersededInv
<1>5. CASE UNCHANGED goldVars
  BY <1>5 DEF goldVars, SupersededInv, Unnamed
<1> QED
  BY <1>1, <1>2, <1>3, <1>4, <1>5, KindsOfSteps

\* The schedule-free step is not passed over.
LEMMA FirstStep ==
  ASSUME GoldTypeOK, WritingInv, FirstInv, [GoldNext]_goldVars
  PROVE  FirstInv'
<1>1. CASE Away
  BY <1>1 DEF Away, FirstInv
<1>2. ASSUME NEW f \in GoldFeeds, Enters(f)
      PROVE  FirstInv'
  <2>1. "schedule_free" \in Steps(f, goldRun.args)
          \/ AllWritten(f, "schedule_free") \/ goldRun.args.normalize
    BY DEF Steps, Groups
  <2> QED
    BY <1>2, <2>1, OnEntry DEF FirstInv, AllWritten
<1>3. ASSUME NEW g \in Groups, Skips(g) \/ Begins(g)
      PROVE  FirstInv'
  <2>1. goldRun.at = "steps"
    BY <1>3 DEF Skips, Begins
  <2>2. g = "schedule_free" => Begins(g) \/ g \notin goldRun.partition.yields
    BY <1>3 DEF Skips
  <2>3. "schedule_free" \in Groups
    BY DEF Groups
  <2> QED
    BY <1>3, <2>1, <2>2, <2>3, AfterSkip DEF FirstInv, AllWritten
<1>4. ASSUME NEW g \in Groups, WriteParquet(g)
      PROVE  FirstInv'
  <2>1. /\ goldRun \in AtSteps /\ goldRun.at = "write" /\ goldRun.partition.load # 0
        /\ \A f \in GoldFeeds, m \in Marts :
             f # goldRun.feed \/ m \notin Files(g) => goldMarts'[f][m] = goldMarts[f][m]
        /\ \/ goldRun'.steps = goldRun.steps
           \/ /\ goldRun'.steps = goldRun.steps \ {g}
              /\ \A m \in Files(g) : goldMarts'[goldRun.feed][m] = goldRun.partition.load
        /\ goldRun'.feed = goldRun.feed /\ goldRun'.args = goldRun.args
        /\ goldRun'.partition = goldRun.partition
    BY <1>4, OneFileMore
  <2>2. goldRun.feed \in GoldFeeds /\ Files("schedule_free") \subseteq Marts
    BY <2>1, GroupFacts DEF AtSteps, Groups
  <2>3. CASE g = "schedule_free"
    BY <2>1, <2>2, <2>3, <1>4 DEF FirstInv, AllWritten, WriteParquet, UpNext
  <2>4. CASE g # "schedule_free"
    <3>1. Files("schedule_free") \cap Files(g) = {}
      BY <2>4, GroupFacts DEF Groups
    <3> QED
      BY <2>1, <2>2, <2>4, <3>1 DEF FirstInv, AllWritten
  <2> QED
    BY <2>3, <2>4
<1>5. CASE UNCHANGED goldVars
  BY <1>5 DEF goldVars, FirstInv, AllWritten
<1> QED
  BY <1>1, <1>2, <1>3, <1>4, <1>5, KindsOfSteps

\* A run that found no silver does not get to the feeds.
LEMMA FoundStep ==
  ASSUME GoldTypeOK, WritingInv, FoundInv, [GoldNext]_goldVars
  PROVE  FoundInv'
<1>1. CASE Away
  <2>1. ASSUME NEW args \in Args, StartGold(args)
        PROVE  FoundInv'
    BY <2>1 DEF StartGold, FoundInv, AssertSilverPresent
  <2> QED
    BY <1>1, <2>1, KindsOfAway DEF FoundInv, goldVars
<1>2. ASSUME NEW f \in GoldFeeds, Enters(f)
      PROVE  FoundInv'
  BY <1>2, OnEntry DEF FoundInv, Enters, BuildOne
<1>3. ASSUME NEW g \in Groups, Skips(g) \/ Begins(g)
      PROVE  FoundInv'
  BY <1>3, AfterSkip DEF FoundInv, Skips, Begins
<1>4. ASSUME NEW g \in Groups, WriteParquet(g)
      PROVE  FoundInv'
  BY <1>4, OneFileMore DEF FoundInv
<1>5. CASE UNCHANGED goldVars
  BY <1>5 DEF goldVars, FoundInv
<1> QED
  BY <1>1, <1>2, <1>3, <1>4, <1>5, KindsOfSteps

\* The invariant says what the marts promise.
LEMMA GoldInvSuffices ==
  ASSUME GoldTypeOK, GoldInv
  PROVE  GoldSound
<1>0. \A g \in Groups : LastFile(g) \in Files(g)
  BY GroupFacts DEF LastFile
<1>1. SupersededOnlyByName
  <2>1. ASSUME NEW a \in Agencies, FeedsOf[a] \cap TripUpdatesOnly # {},
               NEW f \in FeedsOf[a] \ (TripUpdatesOnly \cup goldHistory.named)
        PROVE  f \in Unnamed
    BY <2>1 DEF Unnamed, SupersededByTripUpdates
  <2> QED
    BY <2>1 DEF SupersededOnlyByName, GoldInv, SupersededInv
<1>2. GroupsAreOneLoad
  BY <1>0 DEF GroupsAreOneLoad, GoldInv, SameLoadInv, AllWritten, OneLoad
<1>3. ScheduleFreeFirst
  <2> SUFFICES ASSUME goldRun.at \in {"steps", "write"}, ~goldRun.args.normalize,
                      NEW g \in Groups, UpNext(g)
               PROVE  \/ g = "schedule_free"
                      \/ "schedule_free" \notin goldRun.partition.yields
                      \/ AllWritten(goldRun.feed, "schedule_free")
    BY DEF ScheduleFreeFirst
  <2>1. CASE "schedule_free" \in goldRun.steps
    BY <2>1 DEF UpNext, Rank, Groups
  <2> QED
    BY <2>1 DEF GoldInv, FirstInv
<1>4. NoSilentRun
  BY DEF NoSilentRun, GoldInv, FoundInv
<1> QED
  BY <1>1, <1>2, <1>3, <1>4 DEF GoldSound

\* Through any runs, whatever their arguments, forced, partial or dying: a
\* superseded feed has marts only if a run was told to build it, a group's come
\* from one load, and the schedule-free ones first.
THEOREM GoldStaysSound == GoldSpec => []GoldSound
<1>1. GoldInit => GoldTypeOK /\ GoldInv
  <2> SUFFICES ASSUME GoldInit
               PROVE  GoldTypeOK /\ GoldInv
    OBVIOUS
  <2>1. GoldTypeOK
    BY DEF GoldInit, GoldTypeOK, Partitions, Histories, Idle
  <2>2. \A g \in Groups : LastFile(g) \in Marts
    BY GroupFacts DEF LastFile
  <2>3. Unnamed \subseteq GoldFeeds
    BY DEF Unnamed, SupersededByTripUpdates, GoldFeeds
  <2> QED
    BY <2>1, <2>2, <2>3 DEF GoldInit, GoldInv, WritingInv, SameLoadInv, FirstInv, SupersededInv,
                     FoundInv, Idle
<1>2. GoldTypeOK /\ GoldInv /\ [GoldNext]_goldVars => GoldTypeOK' /\ GoldInv'
  BY GoldTypeStep, WritingStep, SameLoadStep, FirstStep, SupersededStep, FoundStep DEF GoldInv
<1>3. GoldTypeOK /\ GoldInv => GoldSound
  BY GoldInvSuffices
<1> QED
  BY <1>1, <1>2, <1>3, PTL DEF GoldSpec

-----------------------------------------------------------------------------
(* The static schedules.                                                   *)

\* A scan has a first place.
LEMMA EarliestOf ==
  ASSUME NEW S, S \subseteq Nat \X Nat, S # {}
  PROVE  Earliest(S) \in S /\ \A q \in S : NotAfter(Earliest(S), q)
<1> DEFINE Firsts == {p[1] : p \in S}
<1>1. PICK n \in Firsts : \A m \in Firsts : n <= m
  <2>1. Firsts \subseteq Nat /\ Firsts # {}
    OBVIOUS
  <2> HIDE DEF Firsts
  <2> QED
    BY <2>1, LeastOf
<1> DEFINE Seconds == {p[2] : p \in {q \in S : q[1] = n}}
<1>2. PICK k \in Seconds : \A m \in Seconds : k <= m
  <2>1. Seconds \subseteq Nat /\ Seconds # {}
    OBVIOUS
  <2> HIDE DEF Seconds
  <2> QED
    BY <2>1, LeastOf
<1>3. PICK p \in S : p[1] = n /\ p[2] = k
  OBVIOUS
<1>4. \A q \in S : NotAfter(p, q)
  <2> TAKE q \in S
  <2>1. n <= q[1] /\ (q[1] = n => k <= q[2])
    BY <1>1, <1>2
  <2>2. n \in Nat /\ q[1] \in Nat
    OBVIOUS
  <2> QED
    BY <1>3, <2>1, <2>2 DEF NotAfter
<1> QED
  BY <1>4 DEF Earliest

\* There is only one.
LEMMA EarliestIs ==
  ASSUME NEW S, S \subseteq Nat \X Nat, NEW p \in S, \A q \in S : NotAfter(p, q)
  PROVE  Earliest(S) = p
<1>1. Earliest(S) \in S /\ NotAfter(Earliest(S), p)
  BY EarliestOf
<1>2. NotAfter(p, Earliest(S))
  BY <1>1
<1>3. \A q, r \in Nat \X Nat : NotAfter(q, r) /\ NotAfter(r, q) => q = r
  BY DEF NotAfter
<1> QED
  BY <1>1, <1>2, <1>3

\* A day some dataset covers has a snapshot, and one that covers it.
LEMMA SnapshotOf ==
  ASSUME NEW datasets, datasets \subseteq Datasets, NEW day \in Nat, Eligible(datasets, day) # {}
  PROVE  PickSnapshot(datasets, day) \in datasets
<1> DEFINE E == Eligible(datasets, day)
           Starts == {d.start : d \in E}
<1>1. \A d \in E : d \in datasets /\ d.start \in Nat /\ d.crawled \in 1..MaxCrawls /\ d.start <= day
  BY SchedulesAssumption DEF Eligible, Datasets
<1>2. PICK s \in Starts : \A t \in Starts : t <= s
  <2>1. Starts \subseteq Nat /\ Starts # {} /\ \A t \in Starts : t <= day
    BY <1>1
  <2> HIDE DEF Starts
  <2> QED
    BY <2>1, GreatestOf
<1> DEFINE Crawls == {d.crawled : d \in {e \in E : e.start = s}}
<1>3. PICK c \in Crawls : \A t \in Crawls : t <= c
  <2>1. Crawls \subseteq Nat /\ Crawls # {} /\ \A t \in Crawls : t <= MaxCrawls
    BY <1>1, SchedulesAssumption
  <2> HIDE DEF Crawls
  <2> QED
    BY <2>1, SchedulesAssumption, GreatestOf
<1>4. PICK d \in E : d.start = s /\ d.crawled = c
  OBVIOUS
<1>5. \A e \in E : e.start < d.start \/ (e.start = d.start /\ e.crawled <= d.crawled)
  <2> TAKE e \in E
  <2>1. e.start <= s /\ (e.start = s => e.crawled <= c)
    BY <1>2, <1>3
  <2>2. e.start \in Nat /\ s \in Nat
    BY <1>1
  <2> QED
    BY <1>4, <2>1, <2>2
<1>6. PickSnapshot(datasets, day) \in E
  BY <1>5 DEF PickSnapshot
<1> QED
  BY <1>6, <1>1

PlacesOfMarts == DOMAIN VersionMarts

\* The places of the marts of a version, in the order they are written.
LEMMA MartPlaces ==
  /\ PlacesOfMarts = 1..11 /\ Len(VersionMarts) = 11
  /\ \A i, j \in PlacesOfMarts : VersionMarts[i] = VersionMarts[j] => i = j
  /\ \A i \in PlacesOfMarts : VersionMarts[i] \in Range(VersionMarts)
BY DEF VersionMarts, PlacesOfMarts, Range

Phases == {"rest", "fetch", "resolve", "load", "marts", "manifest"}

Loads == [key : Hashes \X Range(FeedScopes), hash : Hashes, scope : Range(FeedScopes)]

Runs == [phase : Phases, force : BOOLEAN, jobs : SUBSET (GtfsFeeds \X ServiceDates),
         memo : SUBSET Datasets, loaded : SUBSET Loads, written : SUBSET (GtfsFeeds \X Hashes),
         snap : Datasets \cup {Absent}, next : Nat]

Builds == [GtfsFeeds -> [Hashes -> Nat]]

Counts == [runs : Nat, deaths : Nat, forced : Nat, syncs : Nat, built : Builds]

\* Types, with what a run at a day has in its hands.
SchedulesTypes ==
  /\ catalog \subseteq Datasets /\ IsFiniteSet(catalog)
  /\ run \in Runs
  /\ run.memo \subseteq catalog /\ \A d \in run.memo : d.hash \in Hashes
  /\ run.phase \in {"load", "marts", "manifest"} => run.jobs # {} /\ run.snap \in run.memo
  /\ run.phase = "load" => run.next = 1
  /\ run.phase = "marts" =>
       /\ run.next \in PlacesOfMarts
       /\ \E l \in run.loaded : l.key = LoadedKey(Slug, FeedScopes[Feed])
  /\ \A l \in run.loaded : l.key = LoadedKey(l.hash, l.scope)
  /\ zips \subseteq Hashes
  /\ DOMAIN marts \subseteq Range(VersionMarts) \X GtfsFeeds \X Hashes
  /\ DOMAIN manifest \subseteq GtfsFeeds \X ServiceDates
  /\ database = [rows |-> database.rows, days |-> database.days,
                 rejected |-> database.rejected, fresh |-> database.fresh]
  /\ DOMAIN database.rows \subseteq GtfsFeeds \X Hashes
  /\ database.fresh \subseteq GtfsFeeds \X Hashes
  /\ history \in Counts

\* The job at hand is one of them.
LEMMA JobOf ==
  ASSUME SchedulesTypes, run.jobs # {}
  PROVE  /\ Job \in run.jobs /\ Job \in GtfsFeeds \X ServiceDates /\ Feed \in GtfsFeeds
         /\ Job[2] \in Nat
<1>1. run.jobs \subseteq GtfsFeeds \X ServiceDates
  BY DEF SchedulesTypes, Runs
<1>2. run.jobs \subseteq Nat \X Nat
  BY <1>1, SchedulesAssumption
<1>3. Job \in run.jobs
  BY <1>2, EarliestOf DEF Job
<1> QED
  BY <1>1, <1>2, <1>3 DEF Feed

\* Its dataset has an archive.
LEMMA AtHand ==
  ASSUME SchedulesTypes, run.phase \in {"load", "marts", "manifest"}
  PROVE  /\ Job \in run.jobs /\ Job \in GtfsFeeds \X ServiceDates /\ Feed \in GtfsFeeds
         /\ Slug \in Hashes /\ run.snap \in Datasets
BY JobOf DEF SchedulesTypes, Slug, VersionSlug, Runs

\* What a run has parsed of the archive at hand is of its content and scope.
LEMMA LoadedIs ==
  ASSUME SchedulesTypes, run.phase = "marts",
         NEW gtfs, gtfs = (CHOOSE l \in run.loaded : l.key = LoadedKey(Slug, FeedScopes[Feed]))
  PROVE  gtfs.hash = Slug /\ gtfs.scope = FeedScopes[Feed]
<1>1. gtfs \in run.loaded /\ gtfs.key = LoadedKey(Slug, FeedScopes[Feed])
  BY DEF SchedulesTypes
<1>2. gtfs.key = LoadedKey(gtfs.hash, gtfs.scope)
  BY <1>1 DEF SchedulesTypes
<1> QED
  BY <1>1, <1>2 DEF LoadedKey

\* Putting values under keys.
LEMMA PutIs ==
  ASSUME NEW f, NEW keys, NEW value
  PROVE  /\ DOMAIN Put(f, keys, value) = DOMAIN f \cup keys
         /\ \A k \in keys : Put(f, keys, value)[k] = value
         /\ \A k \in DOMAIN f \ keys : Put(f, keys, value)[k] = f[k]
BY DEF Put

\* The sync as one choice.
SyncOf(feed, slug) ==
  /\ run.phase = "rest"
  /\ feed \in GtfsFeeds /\ slug \in Hashes
  /\ history' = [history EXCEPT !.syncs = @ + 1]
  /\ database' = IF ForeignKeysHold(Insert(feed, slug))
                 THEN [database EXCEPT !.rows = Put(@, {<<feed, slug>>}, Insert(feed, slug)),
                         !.days = UpsertVersions(@, feed, slug),
                         !.fresh = @ \cup {<<feed, slug>>}]
                 ELSE [database EXCEPT !.rejected = TRUE]
  /\ UNCHANGED <<catalog, run, zips, marts, manifest>>

\* A sync is one of a feed's version.
LEMMA SyncIs ==
  ASSUME SchedulesTypes, SyncFeedVersion
  PROVE  \E feed \in GtfsFeeds, slug \in Hashes : SyncOf(feed, slug)
<1>1. PICK feed \in GtfsFeeds, path \in DOMAIN marts :
        LET rows == Insert(feed, path[3])
        IN database' = IF ForeignKeysHold(rows)
                       THEN [database EXCEPT !.rows = Put(@, {<<feed, path[3]>>}, rows),
                               !.days = UpsertVersions(@, feed, path[3]),
                               !.fresh = @ \cup {<<feed, path[3]>>}]
                       ELSE [database EXCEPT !.rejected = TRUE]
  BY DEF SyncFeedVersion
<1>2. path[3] \in Hashes
  BY DEF SchedulesTypes
<1>3. SyncOf(feed, path[3])
  BY <1>1, <1>2 DEF SyncFeedVersion, SyncOf
<1> QED
  BY <1>2, <1>3

\* Types are kept.
LEMMA SchedulesTypeStep ==
  ASSUME SchedulesTypes, SchedulesNext
  PROVE  SchedulesTypes'
<1> USE DEF SchedulesTypes
<1>1. CASE Crawl
  <2>1. Cardinality(catalog) \in Nat
    BY FS_CardinalityType
  <2>2. PICK d \in Datasets : catalog' = catalog \cup {d}
    BY <1>1 DEF Crawl
  <2>3. catalog' \subseteq Datasets /\ IsFiniteSet(catalog')
    BY <2>2, FS_AddElement
  <2> QED
    BY <1>1, <2>2, <2>3 DEF Crawl, Slug, Feed, Job
<1>2. CASE FetchCatalog
  <2>1. run' = [run EXCEPT !.phase = "resolve", !.memo = {d \in catalog : d.hash # Absent}]
    BY <1>2 DEF FetchCatalog
  <2>2. run' \in Runs /\ run'.phase = "resolve" /\ run'.loaded = run.loaded
        /\ run'.memo = {d \in catalog : d.hash # Absent}
    BY <2>1 DEF Runs, Phases
  <2>3. \A d \in run'.memo : d.hash \in Hashes
    BY <2>2 DEF Datasets
  <2> QED
    BY <1>2, <2>2, <2>3 DEF FetchCatalog
<1>3. CASE StartRun
  <2>1. PICK force \in BOOLEAN, jobs \in SUBSET (GtfsFeeds \X ServiceDates) :
          /\ run' = [Resting EXCEPT !.phase = "fetch", !.force = force, !.jobs = jobs]
          /\ history' = [history EXCEPT !.runs = @ + 1, !.forced = IF force THEN @ + 1 ELSE @]
    BY <1>3 DEF StartRun
  <2>2. run' \in Runs /\ run'.phase = "fetch" /\ run'.loaded = {} /\ run'.memo = {}
    BY <2>1 DEF Resting, Runs, Phases
  <2>3. history' \in Counts
    <3>1. history' \in {[history EXCEPT !.runs = @ + 1, !.forced = @ + 1],
                        [history EXCEPT !.runs = @ + 1]}
      BY <2>1 DEF Counts
    <3>2. [history EXCEPT !.runs = @ + 1, !.forced = @ + 1] \in Counts
      <4> DEFINE runs == history.runs + 1
                 forced == history.forced + 1
      <4>1. runs \in Nat /\ forced \in Nat
        BY DEF Counts
      <4> HIDE DEF runs, forced
      <4>2. [history EXCEPT !.runs = runs, !.forced = forced] \in Counts
        BY <4>1 DEF Counts
      <4> QED
        BY <4>2 DEF runs, forced
    <3>3. [history EXCEPT !.runs = @ + 1] \in Counts
      BY DEF Counts
    <3> QED
      BY ONLY <3>1, <3>2, <3>3
  <2> QED
    BY <1>3, <2>2, <2>3 DEF StartRun
<1>4. ASSUME RunEndsEarly \/ FinishRun PROVE SchedulesTypes'
  <2>1. run' = Resting /\ UNCHANGED <<catalog, zips, marts, manifest, database>>
    BY <1>4 DEF RunEndsEarly, FinishRun
  <2>2. Resting \in Runs /\ Resting.phase = "rest" /\ Resting.loaded = {} /\ Resting.memo = {}
    BY DEF Resting, Runs, Phases
  <2>3. history' \in Counts
    BY <1>4 DEF RunEndsEarly, FinishRun, Counts
  <2> QED
    BY <2>1, <2>2, <2>3
<1>5. CASE SkipDay
  <2>1. run' = [run EXCEPT !.jobs = @ \ {Job}] /\ run.phase = "resolve"
    BY <1>5 DEF SkipDay
  <2>2. run' \in Runs /\ run'.phase = "resolve" /\ run'.loaded = run.loaded /\ run'.memo = run.memo
    BY <2>1 DEF Runs
  <2> QED
    BY <1>5, <2>2 DEF SkipDay
<1>6. CASE Resolve
  <2> DEFINE snap == PickSnapshot(run.memo, Job[2])
             build == MustBuild(Feed, VersionSlug(snap))
  <2>1. run.jobs # {} /\ Eligible(run.memo, Job[2]) # {}
    BY <1>6 DEF Resolve
  <2>2. Job[2] \in Nat /\ Feed \in GtfsFeeds
    BY <2>1, JobOf
  <2>3. snap \in run.memo
    BY <2>1, <2>2, SnapshotOf DEF Runs
  <2>4. VersionSlug(snap) \in Hashes
    BY <2>3 DEF VersionSlug
  <2>5. /\ run' = [run EXCEPT !.snap = snap, !.next = 1,
                     !.phase = IF build THEN "load" ELSE "manifest",
                     !.written = IF build THEN @ ELSE @ \cup {<<Feed, VersionSlug(snap)>>}]
        /\ UNCHANGED <<catalog, zips, marts, manifest, database, history>>
    BY <1>6 DEF Resolve
  <2> HIDE DEF snap, build
  <2>6. run' \in Runs
    <3>1. run.written \cup {<<Feed, VersionSlug(snap)>>} \subseteq GtfsFeeds \X Hashes
      BY <2>2, <2>4 DEF Runs
    <3>2. snap \in Datasets
      BY <2>3
    <3>3. run' \in {[run EXCEPT !.snap = snap, !.next = 1, !.phase = "load"],
                    [run EXCEPT !.snap = snap, !.next = 1, !.phase = "manifest",
                       !.written = @ \cup {<<Feed, VersionSlug(snap)>>}]}
      BY <2>5 DEF Runs
    <3>4. [run EXCEPT !.snap = snap, !.next = 1, !.phase = "load"] \in Runs
      BY <3>2 DEF Runs, Phases
    <3>5. [run EXCEPT !.snap = snap, !.next = 1, !.phase = "manifest",
             !.written = @ \cup {<<Feed, VersionSlug(snap)>>}] \in Runs
      BY <3>1, <3>2 DEF Runs, Phases
    <3> QED
      BY ONLY <3>3, <3>4, <3>5
  <2>7. /\ run'.phase \in {"load", "manifest"} /\ run'.snap = snap
        /\ run'.loaded = run.loaded /\ run'.memo = run.memo /\ run'.jobs = run.jobs
        /\ run'.next = 1
    BY <2>5 DEF Runs
  <2> QED
    BY <2>1, <2>3, <2>5, <2>6, <2>7
<1>7. CASE ForDate
  <2> DEFINE key == LoadedKey(Slug, FeedScopes[Feed])
             new == [key |-> key, hash |-> Slug, scope |-> FeedScopes[Feed]]
  <2>1. /\ run' = [run EXCEPT !.phase = "marts",
                     !.loaded = IF \E l \in @ : l.key = key THEN @ ELSE @ \cup {new}]
        /\ zips' \in {zips, zips \cup {Slug}}
        /\ UNCHANGED <<catalog, marts, manifest, database, history>>
        /\ run.phase = "load"
    BY <1>7 DEF ForDate, Slug, VersionSlug
  <2>2. Feed \in GtfsFeeds /\ Slug \in Hashes
    BY <2>1, AtHand
  <2>3. FeedScopes[Feed] \in Range(FeedScopes)
    BY <2>2 DEF GtfsFeeds, Range
  <2>4. new \in Loads /\ new.key = LoadedKey(new.hash, new.scope) /\ new.key = key
    BY <2>2, <2>3 DEF Loads, LoadedKey
  <2> DEFINE loaded == IF \E l \in run.loaded : l.key = key THEN run.loaded
                       ELSE run.loaded \cup {new}
  <2>5. loaded \subseteq Loads /\ (\E l \in loaded : l.key = key)
        /\ \A l \in loaded : l.key = LoadedKey(l.hash, l.scope)
    <3> HIDE DEF new, key
    <3> QED
      BY <2>4 DEF Runs
  <2>6. run' = [run EXCEPT !.phase = "marts", !.loaded = loaded]
    BY <2>1
  <2> HIDE DEF loaded
  <2>7. /\ run' \in Runs /\ run'.phase = "marts" /\ run'.loaded = loaded
        /\ run'.jobs = run.jobs /\ run'.snap = run.snap /\ run'.memo = run.memo
        /\ run'.next = run.next
    BY <2>5, <2>6 DEF Runs, Phases
  <2>8. key = LoadedKey(Slug', FeedScopes[Feed'])
    BY <2>7 DEF Slug, Feed, Job
  <2>9. run.next = 1
    BY <2>1
  <2> QED
    BY <2>1, <2>2, <2>5, <2>7, <2>8, <2>9, MartPlaces
<1>8. CASE WriteMart
  <2>0. Slug \in Hashes /\ Feed \in GtfsFeeds /\ run.next \in PlacesOfMarts
    BY <1>8, AtHand DEF WriteMart
  <2> DEFINE path == <<VersionMarts[run.next], Feed, Slug>>
             last == run.next = Len(VersionMarts)
  <2>1. /\ run' = [run EXCEPT !.next = @ + 1,
                     !.phase = IF last THEN "manifest" ELSE "marts",
                     !.written = IF last THEN @ \cup {<<Feed, Slug>>} ELSE @]
        /\ history' = IF last THEN [history EXCEPT !.built[Feed][Slug] = @ + 1]
                      ELSE history
        /\ database' = [database EXCEPT !.fresh = {v \in @ : v[1] # Feed}]
        /\ UNCHANGED <<catalog, zips, manifest>>
        /\ run.phase = "marts"
    BY <1>8 DEF WriteMart
  <2>2. DOMAIN marts' = DOMAIN marts \cup {path}
    BY <1>8 DEF WriteMart, Put
  <2>3. path \in Range(VersionMarts) \X GtfsFeeds \X Hashes
    BY <2>0, MartPlaces
  <2>4. history' \in Counts
    <3>1. history' \in {history, [history EXCEPT !.built[Feed][Slug] = @ + 1]}
      BY <2>1
    <3>2. [history.built EXCEPT ![Feed][Slug] = @ + 1] \in Builds
      BY <2>0 DEF Counts, Builds
    <3> QED
      BY <3>1, <3>2 DEF Counts
  <2>5. /\ run' \in Runs /\ run'.jobs = run.jobs /\ run'.snap = run.snap
        /\ run'.memo = run.memo /\ run'.loaded = run.loaded
    <3>1. run.written \cup {<<Feed, Slug>>} \subseteq GtfsFeeds \X Hashes
      BY <2>0 DEF Runs
    <3>2. run' \in {[run EXCEPT !.next = @ + 1, !.phase = "marts"],
                    [run EXCEPT !.next = @ + 1, !.phase = "manifest",
                       !.written = @ \cup {<<Feed, Slug>>}]}
      BY <2>1 DEF Runs
    <3> DEFINE next == run.next + 1
    <3>3. next \in Nat
      BY DEF Runs
    <3>4. run' \in {[run EXCEPT !.next = next, !.phase = "marts"],
                    [run EXCEPT !.next = next, !.phase = "manifest",
                       !.written = @ \cup {<<Feed, Slug>>}]}
      BY <3>2
    <3> HIDE DEF next
    <3>5. CASE run' = [run EXCEPT !.next = next, !.phase = "marts"]
      BY <3>3, <3>5 DEF Runs, Phases
    <3>6. CASE run' = [run EXCEPT !.next = next, !.phase = "manifest",
                         !.written = @ \cup {<<Feed, Slug>>}]
      BY <3>1, <3>3, <3>6 DEF Runs, Phases
    <3>7. run' \in Runs
      BY <3>4, <3>5, <3>6
    <3> QED
      BY <2>1, <3>7 DEF Runs
  <2>6. run'.phase \in {"marts", "manifest"} /\ (run'.phase = "marts" => run'.next \in PlacesOfMarts)
    BY <2>0, <2>1, MartPlaces DEF Runs
  <2>7. Slug' = Slug /\ Feed' = Feed
    BY <2>5 DEF Slug, Feed, Job
  <2>8. /\ database' = [rows |-> database'.rows, days |-> database'.days,
                        rejected |-> database'.rejected, fresh |-> database'.fresh]
        /\ database'.rows = database.rows /\ database'.fresh \subseteq database.fresh
    BY <2>1
  <2> QED
    BY <2>1, <2>2, <2>3, <2>4, <2>5, <2>6, <2>7, <2>8
<1>9. CASE WriteManifest
  <2>0. Job \in GtfsFeeds \X ServiceDates
    BY <1>9, AtHand DEF WriteManifest
  <2>1. /\ run' = [run EXCEPT !.phase = "resolve", !.jobs = @ \ {Job}, !.snap = Absent]
        /\ UNCHANGED <<catalog, zips, marts, history>>
        /\ manifest' \in {manifest, Put(manifest, {Job}, run.snap)}
        /\ database' \in {database, [database EXCEPT !.fresh = {v \in @ : v[1] # Feed}]}
    BY <1>9 DEF WriteManifest
  <2>2. /\ run' \in Runs /\ run'.phase = "resolve" /\ run'.memo = run.memo
        /\ run'.loaded = run.loaded
    BY <2>1 DEF Runs, Phases
  <2>3. DOMAIN manifest' \subseteq GtfsFeeds \X ServiceDates
    <3>1. DOMAIN Put(manifest, {Job}, run.snap) = DOMAIN manifest \cup {Job}
      BY DEF Put
    <3> QED
      BY <2>0, <2>1, <3>1
  <2>4. /\ database' = [rows |-> database'.rows, days |-> database'.days,
                        rejected |-> database'.rejected, fresh |-> database'.fresh]
        /\ database'.rows = database.rows /\ database'.fresh \subseteq database.fresh
    BY <2>1
  <2> QED
    BY <2>1, <2>2, <2>3, <2>4
<1>10. CASE SyncFeedVersion
  <2>1. PICK feed \in GtfsFeeds, slug \in Hashes : SyncOf(feed, slug)
    BY <1>10, SyncIs
  <2>2. /\ database' = [rows |-> database'.rows, days |-> database'.days,
                        rejected |-> database'.rejected, fresh |-> database'.fresh]
        /\ DOMAIN database'.rows \subseteq DOMAIN database.rows \cup {<<feed, slug>>}
        /\ database'.fresh \subseteq database.fresh \cup {<<feed, slug>>}
    BY <2>1 DEF SyncOf, Put
  <2>3. history' \in Counts
    BY <2>1 DEF SyncOf, Counts
  <2>4. run' = run /\ Slug' = Slug /\ Feed' = Feed /\ UNCHANGED <<catalog, zips, marts, manifest>>
    BY <2>1 DEF SyncOf, Slug, Feed, Job
  <2> QED
    BY <2>1, <2>2, <2>3, <2>4
<1> QED
  BY <1>1, <1>2, <1>3, <1>4, <1>5, <1>6, <1>7, <1>8, <1>9, <1>10 DEF SchedulesNext

Written(i, f, h) == <<VersionMarts[i], f, h>> \in DOMAIN marts

\* The marts of a version are written in their order.
OrderInv ==
  /\ \A f \in GtfsFeeds, h \in Hashes, i \in PlacesOfMarts :
       Written(i, f, h) => \A j \in PlacesOfMarts : j < i => Written(j, f, h)
  /\ run.phase = "marts" => \A j \in PlacesOfMarts : j < run.next => Written(j, Feed, Slug)

\* What is taken for built is on disk.
BackedInv ==
  /\ ManifestBacked
  /\ run.phase = "manifest" => OnDisk(Feed, Slug)
  /\ \A f \in GtfsFeeds, h \in Hashes : <<f, h>> \in run.written => OnDisk(f, h)

\* A version that was built is on disk, so that only a forced run builds it
\* again, and a run builds it once.
OnceInv ==
  /\ \A f \in GtfsFeeds, h \in Hashes : history.built[f][h] > 0 => OnDisk(f, h)
  /\ run.phase \in {"load", "marts"} =>
       <<Feed, Slug>> \notin run.written /\ (run.force \/ ~Written(11, Feed, Slug))
  /\ \A f \in GtfsFeeds, h \in Hashes : history.built[f][h] <= 1 + history.forced
  /\ run.phase # "rest" /\ run.force =>
       \A f \in GtfsFeeds, h \in Hashes :
         <<f, h>> \in run.written \/ history.built[f][h] <= history.forced

\* What a sync left follows the manifest until a mart is written again.
FreshInv ==
  \A v \in database.fresh : \A j \in DaysOf(v[1], v[2]) :
    j \in DOMAIN database.days /\ database.days[j] = v[2]

\* A crosswalk in the database is the archive's.
RowsInv ==
  /\ ~database.rejected
  /\ \A v \in DOMAIN database.rows :
       \/ DOMAIN database.rows[v].crosswalk = {}
       \/ database.rows[v].crosswalk =
            InsertCrosswalk(RouteAliases(ArchiveOf[v[2]], FeedScopes[v[1]]))

SchedulesInv == OrderInv /\ BackedInv /\ OnceInv /\ MartsAreScoped /\ FreshInv /\ RowsInv

-----------------------------------------------------------------------------
\* The kinds of steps, as far as building is concerned: a run is between two
\* days, ...
Rests ==
  /\ run'.phase \in {"rest", "fetch", "resolve"} /\ marts' = marts
  /\ run'.written \subseteq run.written
  /\ history'.built = history.built /\ history'.forced >= history.forced
  /\ \/ run'.phase = "rest"
     \/ run'.force => history'.forced = history.forced + 1
     \/ run.phase # "rest" /\ run'.force = run.force /\ run'.written = run.written

\* ... decides whether to build, ...
Resolves ==
  /\ marts' = marts /\ history' = history /\ run.phase # "rest" /\ run'.force = run.force
  /\ Feed' \in GtfsFeeds /\ Slug' \in Hashes
  /\ IF MustBuild(Feed', Slug')
     THEN run'.phase = "load" /\ run'.written = run.written
     ELSE run'.phase = "manifest" /\ run'.written = run.written \cup {<<Feed', Slug'>>}

\* ... has the archive, ...
Opens ==
  /\ run.phase = "load" /\ run'.phase = "marts" /\ run'.next = 1
  /\ marts' = marts /\ history' = history /\ run'.force = run.force
  /\ run'.written = run.written /\ Feed' = Feed /\ Slug' = Slug

\* ... or writes a mart.
WritesMart ==
  /\ run.phase = "marts" /\ run.next \in PlacesOfMarts /\ Feed \in GtfsFeeds /\ Slug \in Hashes
  /\ marts' = Put(marts, {<<VersionMarts[run.next], Feed, Slug>>},
                  [hash |-> Slug, scope |-> FeedScopes[Feed]])
  /\ Feed' = Feed /\ Slug' = Slug /\ run'.force = run.force
  /\ IF run.next = 11
     THEN /\ run'.phase = "manifest" /\ run'.written = run.written \cup {<<Feed, Slug>>}
          /\ history' = [history EXCEPT !.built[Feed][Slug] = @ + 1]
     ELSE /\ run'.phase = "marts" /\ run'.next = run.next + 1
          /\ run'.written = run.written /\ history' = history

\* Every step is of one of these kinds.
LEMMA KindsOfBuilding ==
  ASSUME SchedulesTypes, SchedulesNext
  PROVE  Rests \/ Resolves \/ Opens \/ WritesMart
<1> USE DEF SchedulesTypes
<1>0. history.built \in Builds /\ history.forced \in Nat
  BY DEF Counts
<1>1. ASSUME Crawl \/ SyncFeedVersion PROVE Rests
  <2>1. run' = run /\ marts' = marts /\ run.phase = "rest"
    BY <1>1 DEF Crawl, SyncFeedVersion
  <2>2. history'.built = history.built /\ history'.forced = history.forced
    BY <1>1 DEF Crawl, SyncFeedVersion, Counts
  <2> QED
    BY <1>0, <2>1, <2>2 DEF Rests
<1>2. ASSUME FetchCatalog \/ SkipDay \/ WriteManifest PROVE Rests
  <2>1. /\ run'.phase = "resolve" /\ run'.written = run.written /\ run'.force = run.force
        /\ run.phase # "rest" /\ marts' = marts /\ history' = history
    BY <1>2 DEF FetchCatalog, SkipDay, WriteManifest, Runs
  <2> QED
    BY <1>0, <2>1 DEF Rests
<1>3. ASSUME StartRun PROVE Rests
  <2>1. PICK force \in BOOLEAN, jobs \in SUBSET (GtfsFeeds \X ServiceDates) :
          /\ run' = [Resting EXCEPT !.phase = "fetch", !.force = force, !.jobs = jobs]
          /\ history' = [history EXCEPT !.runs = @ + 1, !.forced = IF force THEN @ + 1 ELSE @]
          /\ marts' = marts
    BY <1>3 DEF StartRun
  <2>2. run'.phase = "fetch" /\ run'.written = {} /\ run'.force = force
    BY <2>1 DEF Resting
  <2>3. history'.built = history.built
        /\ history'.forced = IF force THEN history.forced + 1 ELSE history.forced
    BY <2>1 DEF Counts
  <2>4. history'.forced >= history.forced /\ (force => history'.forced = history.forced + 1)
    BY <1>0, <2>3
  <2> QED
    BY <2>1, <2>2, <2>3, <2>4 DEF Rests
<1>4. ASSUME RunEndsEarly \/ FinishRun PROVE Rests
  <2>1. run'.phase = "rest" /\ run'.written = {} /\ marts' = marts
    BY <1>4 DEF RunEndsEarly, FinishRun, Resting
  <2>2. history'.built = history.built /\ history'.forced = history.forced
    BY <1>4 DEF RunEndsEarly, FinishRun, Counts
  <2> QED
    BY <1>0, <2>1, <2>2 DEF Rests
<1>5. ASSUME Resolve PROVE Resolves
  <2> DEFINE snap == PickSnapshot(run.memo, Job[2])
             build == MustBuild(Feed, VersionSlug(snap))
  <2>1. /\ run.jobs # {} /\ Eligible(run.memo, Job[2]) # {} /\ run.phase = "resolve"
        /\ run' = [run EXCEPT !.snap = snap, !.next = 1,
                     !.phase = IF build THEN "load" ELSE "manifest",
                     !.written = IF build THEN @ ELSE @ \cup {<<Feed, VersionSlug(snap)>>}]
        /\ marts' = marts /\ history' = history
    BY <1>5 DEF Resolve
  <2>2. Job[2] \in Nat /\ Feed \in GtfsFeeds
    BY <2>1, JobOf
  <2>3. snap \in run.memo
    BY <2>1, <2>2, SnapshotOf DEF Runs
  <2>4. VersionSlug(snap) \in Hashes
    BY <2>3 DEF VersionSlug
  <2> HIDE DEF build, snap
  <2>5. /\ run'.jobs = run.jobs /\ run'.snap = snap /\ run'.force = run.force
        /\ run'.phase = (IF build THEN "load" ELSE "manifest")
        /\ run'.written = IF build THEN run.written
                          ELSE run.written \cup {<<Feed, VersionSlug(snap)>>}
    BY <2>1 DEF Runs
  <2>6. Feed' = Feed /\ Slug' = VersionSlug(snap)
    BY <2>5 DEF Feed, Job, Slug, VersionSlug
  <2>7. build = MustBuild(Feed', Slug')
    BY <2>6 DEF build
  <2> QED
    BY <2>1, <2>2, <2>4, <2>5, <2>6, <2>7 DEF Resolves
<1>6. ASSUME ForDate PROVE Opens
  <2>1. /\ run'.phase = "marts" /\ run'.next = run.next /\ run'.jobs = run.jobs
        /\ run'.snap = run.snap /\ run'.force = run.force /\ run'.written = run.written
        /\ run.phase = "load" /\ marts' = marts /\ history' = history
    BY <1>6 DEF ForDate, Runs
  <2> QED
    BY <2>1 DEF Opens, Feed, Job, Slug
<1>7. ASSUME WriteMart PROVE WritesMart
  <2> DEFINE gtfs == CHOOSE l \in run.loaded : l.key = LoadedKey(Slug, FeedScopes[Feed])
             last == run.next = Len(VersionMarts)
  <2>1. /\ run.phase = "marts"
        /\ marts' = Put(marts, {<<VersionMarts[run.next], Feed, Slug>>},
                        [hash |-> gtfs.hash, scope |-> gtfs.scope])
        /\ run' = [run EXCEPT !.next = @ + 1,
                     !.phase = IF last THEN "manifest" ELSE "marts",
                     !.written = IF last THEN @ \cup {<<Feed, Slug>>} ELSE @]
        /\ history' = IF last THEN [history EXCEPT !.built[Feed][Slug] = @ + 1]
                      ELSE history
    BY <1>7 DEF WriteMart
  <2>2. gtfs.hash = Slug /\ gtfs.scope = FeedScopes[Feed]
    BY <2>1, LoadedIs
  <2>3. Feed \in GtfsFeeds /\ Slug \in Hashes /\ run.next \in PlacesOfMarts
    BY <2>1, AtHand
  <2>4. last <=> run.next = 11
    BY MartPlaces
  <2> HIDE DEF gtfs, last
  <2>5. /\ run'.jobs = run.jobs /\ run'.snap = run.snap /\ run'.force = run.force
        /\ run'.next = run.next + 1 /\ run'.phase = (IF last THEN "manifest" ELSE "marts")
        /\ run'.written = IF last THEN run.written \cup {<<Feed, Slug>>} ELSE run.written
    BY <2>1 DEF Runs
  <2>6. Feed' = Feed /\ Slug' = Slug
    BY <2>5 DEF Feed, Job, Slug
  <2> QED
    BY <2>1, <2>2, <2>3, <2>4, <2>5, <2>6 DEF WritesMart
<1> QED
  BY <1>1, <1>2, <1>3, <1>4, <1>5, <1>6, <1>7 DEF SchedulesNext

\* A version is on disk when its last mart is.
LEMMA LastMart ==
  OrderInv => \A f \in GtfsFeeds, h \in Hashes : OnDisk(f, h) <=> Written(11, f, h)
<1> SUFFICES ASSUME OrderInv, NEW f \in GtfsFeeds, NEW h \in Hashes
             PROVE  OnDisk(f, h) <=> Written(11, f, h)
  OBVIOUS
<1>1. OnDisk(f, h) <=> \A i \in PlacesOfMarts : Written(i, f, h)
  BY DEF OnDisk, VersionPaths, Written, PlacesOfMarts
<1>2. Written(11, f, h) => \A i \in PlacesOfMarts : Written(i, f, h)
  <2>1. 11 \in PlacesOfMarts /\ \A i \in PlacesOfMarts : i = 11 \/ i < 11
    BY MartPlaces
  <2> QED
    BY <2>1 DEF OrderInv
<1> QED
  BY <1>1, <1>2, MartPlaces

\* What a mart that is written adds.
LEMMA OneMartMore ==
  ASSUME WritesMart
  PROVE  /\ \A f, h : \A i \in PlacesOfMarts :
              Written(i, f, h)' <=> Written(i, f, h) \/ (i = run.next /\ f = Feed /\ h = Slug)
         /\ \A f, h : OnDisk(f, h) => OnDisk(f, h)'
<1>1. DOMAIN marts' = DOMAIN marts \cup {<<VersionMarts[run.next], Feed, Slug>>}
  BY DEF WritesMart, Put
<1>2. \A f, h : \A i \in PlacesOfMarts :
        Written(i, f, h)' <=> Written(i, f, h) \/ (i = run.next /\ f = Feed /\ h = Slug)
  BY <1>1, MartPlaces DEF Written, WritesMart
<1> QED
  BY <1>1, <1>2 DEF OnDisk

\* The other steps leave the disk alone.
LEMMA SameDisk ==
  ASSUME marts' = marts
  PROVE  /\ \A i, f, h : Written(i, f, h)' <=> Written(i, f, h)
         /\ \A f, h : OnDisk(f, h)' <=> OnDisk(f, h)
BY DEF Written, OnDisk

\* The order is kept.
LEMMA OrderStep ==
  ASSUME SchedulesTypes, OrderInv, SchedulesNext
  PROVE  OrderInv'
<1>1. ASSUME Rests \/ Resolves \/ Opens PROVE OrderInv'
  <2>1. marts' = marts
    BY <1>1 DEF Rests, Resolves, Opens
  <2>2. run'.phase = "marts" => run'.next = 1
    BY <1>1 DEF Rests, Resolves, Opens
  <2>3. \A j \in PlacesOfMarts : ~(j < 1)
    BY MartPlaces
  <2>4. \A i, f, h : Written(i, f, h)' <=> Written(i, f, h)
    BY <2>1, SameDisk
  <2> QED
    BY <2>2, <2>3, <2>4 DEF OrderInv
<1>2. ASSUME WritesMart PROVE OrderInv'
  <2>1. /\ run.next \in PlacesOfMarts /\ Feed \in GtfsFeeds /\ Slug \in Hashes
        /\ \A j \in PlacesOfMarts : j < run.next => Written(j, Feed, Slug)
    BY <1>2 DEF WritesMart, OrderInv
  <2>2. \A f, h : \A i \in PlacesOfMarts :
          Written(i, f, h)' <=> Written(i, f, h) \/ (i = run.next /\ f = Feed /\ h = Slug)
    BY <1>2, OneMartMore
  <2>3. \A f \in GtfsFeeds, h \in Hashes, i \in PlacesOfMarts :
          Written(i, f, h)' => \A j \in PlacesOfMarts : j < i => Written(j, f, h)'
    BY <2>1, <2>2 DEF OrderInv
  <2>4. ASSUME run'.phase = "marts", NEW j \in PlacesOfMarts, j < run'.next
        PROVE  Written(j, Feed, Slug)'
    <3>1. run'.next = run.next + 1 /\ Feed' = Feed /\ Slug' = Slug
      BY <1>2, <2>4 DEF WritesMart
    <3>2. j = run.next \/ j < run.next
      BY <2>1, <2>4, <3>1, MartPlaces
    <3> QED
      BY <2>1, <2>2, <3>1, <3>2 DEF Written
  <2> QED
    BY <2>3, <2>4 DEF OrderInv
<1> QED
  BY <1>1, <1>2, KindsOfBuilding

\* The manifest is written last.
LEMMA ManifestStep ==
  ASSUME SchedulesTypes, SchedulesNext
  PROVE  \/ manifest' = manifest
         \/ /\ run.phase = "manifest" /\ Job[1] = Feed /\ Slug = VersionSlug(run.snap)
            /\ manifest' = Put(manifest, {Job}, run.snap)
            /\ Feed \in GtfsFeeds /\ Slug \in Hashes /\ marts' = marts
            /\ database' = [database EXCEPT !.fresh = {v \in @ : v[1] # Feed}]
<1>1. ASSUME WriteManifest, manifest' # manifest
      PROVE  /\ run.phase = "manifest" /\ Job[1] = Feed /\ Slug = VersionSlug(run.snap)
             /\ manifest' = Put(manifest, {Job}, run.snap)
             /\ Feed \in GtfsFeeds /\ Slug \in Hashes /\ marts' = marts
             /\ database' = [database EXCEPT !.fresh = {v \in @ : v[1] # Feed}]
  BY <1>1, AtHand DEF WriteManifest, Slug, Feed
<1> QED
  BY <1>1 DEF SchedulesNext, Crawl, FetchCatalog, StartRun, RunEndsEarly, SkipDay, Resolve,
    ForDate, WriteMart, FinishRun, SyncFeedVersion

\* What counts as built stays on disk.
LEMMA BackedStep ==
  ASSUME SchedulesTypes, OrderInv, BackedInv, SchedulesNext
  PROVE  BackedInv'
<1>1. \A f, h : OnDisk(f, h) => OnDisk(f, h)'
  BY KindsOfBuilding, SameDisk, OneMartMore DEF Rests, Resolves, Opens
<1>2. ManifestBacked'
  <2>1. CASE manifest' = manifest
    BY <1>1, <2>1 DEF BackedInv, ManifestBacked
  <2>2. CASE manifest' # manifest
    <3>1. /\ run.phase = "manifest" /\ Job[1] = Feed /\ Slug = VersionSlug(run.snap)
          /\ manifest' = Put(manifest, {Job}, run.snap)
      BY <2>2, ManifestStep
    <3>2. OnDisk(Feed, Slug)
      BY <3>1 DEF BackedInv
    <3>3. ASSUME NEW j \in DOMAIN manifest'
          PROVE  OnDisk(j[1], VersionSlug(manifest'[j]))
      <4>1. CASE j = Job
        <5>1. manifest'[j] = run.snap
          BY <3>1, <4>1 DEF Put
        <5> QED
          BY <3>1, <3>2, <4>1, <5>1
      <4>2. CASE j # Job
        <5>1. j \in DOMAIN manifest /\ manifest'[j] = manifest[j]
          BY <3>1, <4>2 DEF Put
        <5> QED
          BY <5>1 DEF BackedInv, ManifestBacked
      <4> QED
        BY <4>1, <4>2
    <3>4. marts' = marts
      BY <2>2, ManifestStep
    <3> QED
      BY <3>3, <3>4 DEF ManifestBacked, VersionSlug, OnDisk
  <2> QED
    BY <2>1, <2>2
<1>3. ASSUME Rests
      PROVE  /\ run'.phase = "manifest" => OnDisk(Feed, Slug)'
             /\ \A f \in GtfsFeeds, h \in Hashes : <<f, h>> \in run'.written => OnDisk(f, h)'
  BY <1>1, <1>3 DEF Rests, BackedInv
<1>4. ASSUME Resolves
      PROVE  /\ run'.phase = "manifest" => OnDisk(Feed, Slug)'
             /\ \A f \in GtfsFeeds, h \in Hashes : <<f, h>> \in run'.written => OnDisk(f, h)'
  <2>1. ~MustBuild(Feed', Slug') => OnDisk(Feed', Slug')
    BY <1>4 DEF MustBuild, BackedInv, Resolves
  <2>2. OnDisk(Feed', Slug') => OnDisk(Feed, Slug)'
    BY <1>4 DEF Resolves, OnDisk
  <2>3. CASE MustBuild(Feed', Slug')
    BY <1>1, <1>4, <2>3 DEF Resolves, BackedInv
  <2>4. CASE ~MustBuild(Feed', Slug')
    <3>1. OnDisk(Feed, Slug)' /\ run'.written = run.written \cup {<<Feed', Slug'>>}
      BY <1>4, <2>1, <2>2, <2>4 DEF Resolves
    <3>2. \A f \in GtfsFeeds, h \in Hashes : <<f, h>> \in run'.written => OnDisk(f, h)'
      BY <1>1, <3>1 DEF BackedInv
    <3> QED
      BY <3>1, <3>2
  <2> QED
    BY <2>3, <2>4
<1>5. ASSUME Opens
      PROVE  /\ run'.phase = "manifest" => OnDisk(Feed, Slug)'
             /\ \A f \in GtfsFeeds, h \in Hashes : <<f, h>> \in run'.written => OnDisk(f, h)'
  BY <1>1, <1>5 DEF Opens, BackedInv
<1>6. ASSUME WritesMart
      PROVE  /\ run'.phase = "manifest" => OnDisk(Feed, Slug)'
             /\ \A f \in GtfsFeeds, h \in Hashes : <<f, h>> \in run'.written => OnDisk(f, h)'
  <2>1. Feed' = Feed /\ Slug' = Slug /\ Feed \in GtfsFeeds /\ Slug \in Hashes
    BY <1>6 DEF WritesMart
  <2>2. CASE run.next = 11
    <3>1. Written(11, Feed, Slug)'
      BY <1>6, <2>1, <2>2 DEF WritesMart, Put, Written
    <3>2. OrderInv'
      BY OrderStep
    <3>3. (\A f \in GtfsFeeds, h \in Hashes : OnDisk(f, h) <=> Written(11, f, h))'
      BY <3>2, LastMart, PTL
    <3>4. OnDisk(Feed, Slug)'
      BY <2>1, <3>1, <3>3
    <3> QED
      BY <1>1, <1>6, <2>1, <2>2, <3>4 DEF WritesMart, BackedInv
  <2>3. CASE run.next # 11
    BY <1>1, <1>6, <2>3 DEF WritesMart, BackedInv
  <2> QED
    BY <2>2, <2>3
<1> QED
  BY <1>2, <1>3, <1>4, <1>5, <1>6, KindsOfBuilding DEF BackedInv

\* A content is built once, and again only when forced.
LEMMA OnceStep ==
  ASSUME SchedulesTypes, OrderInv, BackedInv, OnceInv, SchedulesNext
  PROVE  OnceInv'
<1>0. \A f \in GtfsFeeds, h \in Hashes : history.built[f][h] \in Nat /\ history.forced \in Nat
  BY DEF SchedulesTypes, Counts, Builds
<1>1. history'.forced \in Nat
  BY SchedulesTypeStep DEF SchedulesTypes, Counts
<1>2. \A f \in GtfsFeeds, h \in Hashes : OnDisk(f, h) => OnDisk(f, h)'
  BY KindsOfBuilding, SameDisk, OneMartMore DEF Rests, Resolves, Opens
<1>3. ASSUME Rests PROVE OnceInv'
  <2>1. /\ run'.phase \in {"rest", "fetch", "resolve"} /\ history'.built = history.built
        /\ history'.forced >= history.forced
    BY <1>3 DEF Rests
  <2>2. ASSUME run'.phase # "rest" /\ run'.force, NEW f \in GtfsFeeds, NEW h \in Hashes
        PROVE  <<f, h>> \in run'.written \/ history'.built[f][h] <= history'.forced
    <3>1. CASE history'.forced = history.forced + 1
      BY <1>0, <1>1, <2>1, <3>1 DEF OnceInv
    <3>2. CASE history'.forced # history.forced + 1
      <4>1. run.phase # "rest" /\ run.force /\ run'.written = run.written
        BY <1>3, <2>2, <3>2 DEF Rests
      <4>2. <<f, h>> \in run.written \/ history.built[f][h] <= history.forced
        BY <4>1 DEF OnceInv
      <4> QED
        BY <1>0, <1>1, <2>1, <4>1, <4>2
    <3> QED
      BY <3>1, <3>2
  <2>3. \A f \in GtfsFeeds, h \in Hashes : history'.built[f][h] <= 1 + history'.forced
    BY <1>0, <1>1, <2>1 DEF OnceInv
  <2>4. \A f \in GtfsFeeds, h \in Hashes : history'.built[f][h] > 0 => OnDisk(f, h)'
    BY <1>2, <2>1 DEF OnceInv
  <2> QED
    BY <2>1, <2>2, <2>3, <2>4 DEF OnceInv
<1>4. ASSUME Resolves PROVE OnceInv'
  <2>1. history' = history /\ marts' = marts /\ run.phase # "rest" /\ run'.force = run.force
        /\ Feed' \in GtfsFeeds /\ Slug' \in Hashes /\ run.written \subseteq run'.written
    BY <1>4 DEF Resolves
  <2>2. ASSUME run'.phase \in {"load", "marts"}
        PROVE  <<Feed', Slug'>> \notin run'.written /\ (run'.force \/ ~Written(11, Feed, Slug)')
    <3>1. MustBuild(Feed', Slug') /\ run'.written = run.written
      BY <1>4, <2>2 DEF Resolves
    <3>2. <<Feed', Slug'>> \notin run.written /\ (run.force \/ ~OnDisk(Feed', Slug'))
      BY <3>1 DEF MustBuild
    <3>3. OnDisk(Feed', Slug') <=> Written(11, Feed', Slug')
      BY <2>1, LastMart
    <3>4. Written(11, Feed', Slug') <=> Written(11, Feed, Slug)'
      BY <2>1 DEF Written
    <3> QED
      BY <2>1, <3>1, <3>2, <3>3, <3>4
  <2>3. \A f \in GtfsFeeds, h \in Hashes : history'.built[f][h] > 0 => OnDisk(f, h)'
    BY <1>2, <2>1 DEF OnceInv
  <2> QED
    BY <2>1, <2>2, <2>3 DEF OnceInv
<1>5. ASSUME Opens PROVE OnceInv'
  <2>1. history' = history /\ marts' = marts /\ run.phase = "load" /\ run'.force = run.force
        /\ Feed' = Feed /\ Slug' = Slug /\ run.written = run'.written
    BY <1>5 DEF Opens
  <2>2. Written(11, Feed, Slug) <=> Written(11, Feed, Slug)'
    BY <2>1 DEF Written
  <2>3. \A f \in GtfsFeeds, h \in Hashes : history'.built[f][h] > 0 => OnDisk(f, h)'
    BY <1>2, <2>1 DEF OnceInv
  <2> QED
    BY <2>1, <2>2, <2>3 DEF OnceInv
<1>6. ASSUME WritesMart PROVE OnceInv'
  <2>1. /\ run.phase = "marts" /\ run.next \in PlacesOfMarts /\ Feed \in GtfsFeeds /\ Slug \in Hashes
        /\ Feed' = Feed /\ Slug' = Slug /\ run'.force = run.force
    BY <1>6 DEF WritesMart
  <2>2. <<Feed, Slug>> \notin run.written /\ (run.force \/ ~Written(11, Feed, Slug))
    BY <2>1 DEF OnceInv
  <2>3. CASE run.next = 11
    <3>1. /\ run'.phase = "manifest" /\ run'.written = run.written \cup {<<Feed, Slug>>}
          /\ history' = [history EXCEPT !.built[Feed][Slug] = @ + 1]
      BY <1>6, <2>3 DEF WritesMart
    <3>2. OnDisk(Feed, Slug)'
      <4>1. BackedInv'
        BY BackedStep
      <4> QED
        BY <2>1, <3>1, <4>1 DEF BackedInv
    <3>3. history.built[Feed][Slug] <= history.forced
      <4>1. CASE run.force
        BY <2>1, <2>2, <4>1 DEF OnceInv
      <4>2. CASE ~run.force
        <5>1. ~OnDisk(Feed, Slug)
          BY <2>1, <2>2, <4>2, LastMart
        <5>2. ~(history.built[Feed][Slug] > 0)
          BY <2>1, <5>1 DEF OnceInv
        <5> QED
          BY <1>0, <2>1, <5>2
      <4> QED
        BY <4>1, <4>2
    <3>4. /\ history'.forced = history.forced
          /\ history'.built[Feed][Slug] = history.built[Feed][Slug] + 1
          /\ \A f \in GtfsFeeds, h \in Hashes :
               <<f, h>> = <<Feed, Slug>> \/ history'.built[f][h] = history.built[f][h]
      <4>1. history'.built = [history.built EXCEPT ![Feed][Slug] = @ + 1]
            /\ history'.forced = history.forced
        BY <3>1 DEF SchedulesTypes, Counts
      <4>2. history.built \in Builds
        BY DEF SchedulesTypes, Counts
      <4> QED
        BY <2>1, <4>1, <4>2 DEF Builds
    <3>5. \A f \in GtfsFeeds, h \in Hashes : history'.built[f][h] <= 1 + history'.forced
      BY <1>0, <2>1, <3>3, <3>4 DEF OnceInv
    <3>6. \A f \in GtfsFeeds, h \in Hashes : history'.built[f][h] > 0 => OnDisk(f, h)'
      BY <1>2, <2>1, <3>2, <3>4 DEF OnceInv
    <3>7. run'.force => \A f \in GtfsFeeds, h \in Hashes :
            <<f, h>> \in run'.written \/ history'.built[f][h] <= history'.forced
      BY <2>1, <3>1, <3>4 DEF OnceInv
    <3> QED
      BY <3>1, <3>5, <3>6, <3>7 DEF OnceInv
  <2>4. CASE run.next # 11
    <3>1. history' = history /\ run'.written = run.written
      BY <1>6, <2>4 DEF WritesMart
    <3>2. Written(11, Feed, Slug)' => Written(11, Feed, Slug)
      <4>1. 11 \in PlacesOfMarts
        BY MartPlaces
      <4> QED
        BY <1>6, <2>1, <2>4, <4>1, OneMartMore DEF Written
    <3>3. \A f \in GtfsFeeds, h \in Hashes : history'.built[f][h] > 0 => OnDisk(f, h)'
      BY <1>2, <3>1 DEF OnceInv
    <3> QED
      BY <2>1, <2>2, <3>1, <3>2, <3>3 DEF OnceInv
  <2> QED
    BY <2>3, <2>4
<1> QED
  BY <1>3, <1>4, <1>5, <1>6, KindsOfBuilding

\* A mart is written from the archive at hand, under its feed's scope.
LEMMA ScopedStep ==
  ASSUME SchedulesTypes, MartsAreScoped, SchedulesNext
  PROVE  MartsAreScoped'
<1>1. CASE marts' = marts
  BY <1>1 DEF MartsAreScoped
<1>2. CASE WritesMart
  <2> DEFINE path == <<VersionMarts[run.next], Feed, Slug>>
             mart == [hash |-> Slug, scope |-> FeedScopes[Feed]]
  <2>1. marts' = Put(marts, {path}, mart)
    BY <1>2 DEF WritesMart
  <2>2. path[2] = Feed /\ path[3] = Slug /\ mart.hash = Slug /\ mart.scope = FeedScopes[Feed]
    OBVIOUS
  <2> HIDE DEF path, mart
  <2>3. ASSUME NEW p \in DOMAIN marts'
        PROVE  marts'[p].scope = FeedScopes[p[2]] /\ marts'[p].hash = p[3]
    <3>1. CASE p = path
      <4>1. marts'[p] = mart
        BY <2>1, <3>1 DEF Put
      <4> QED
        BY <2>2, <3>1, <4>1
    <3>2. CASE p # path
      <4>1. p \in DOMAIN marts /\ marts'[p] = marts[p]
        BY <2>1, <3>2 DEF Put
      <4> QED
        BY <4>1 DEF MartsAreScoped
    <3> QED
      BY <3>1, <3>2
  <2> QED
    BY <2>3 DEF MartsAreScoped
<1> QED
  BY <1>1, <1>2, KindsOfBuilding DEF Rests, Resolves, Opens

\* What a step does to the manifest and to what a sync left.
LEMMA DatabaseStep ==
  ASSUME SchedulesTypes, SchedulesNext
  PROVE  \/ UNCHANGED <<manifest, database>>
         \/ /\ database' = [database EXCEPT !.fresh = {v \in @ : v[1] # Feed}]
            /\ manifest' = manifest \/ (Job[1] = Feed /\ manifest' = Put(manifest, {Job}, run.snap))
         \/ \E feed \in GtfsFeeds, slug \in Hashes : SyncOf(feed, slug)
<1>1. CASE WriteMart
  BY <1>1 DEF WriteMart
<1>2. CASE WriteManifest
  BY <1>2 DEF WriteManifest, Feed
<1>3. CASE SyncFeedVersion
  BY <1>3, SyncIs
<1> QED
  BY <1>1, <1>2, <1>3 DEF SchedulesNext, Crawl, FetchCatalog, StartRun, RunEndsEarly, SkipDay,
    Resolve, ForDate, FinishRun

\* What a sync left follows the manifest until a mart is written.
LEMMA FreshStep ==
  ASSUME SchedulesTypes, FreshInv, SchedulesNext
  PROVE  FreshInv'
<1>1. CASE UNCHANGED <<manifest, database>>
  BY <1>1 DEF FreshInv, DaysOf, VersionSlug
<1>2. ASSUME database' = [database EXCEPT !.fresh = {v \in @ : v[1] # Feed}],
             manifest' = manifest \/ (Job[1] = Feed /\ manifest' = Put(manifest, {Job}, run.snap))
      PROVE  FreshInv'
  <2>1. database'.days = database.days /\ database'.fresh = {v \in database.fresh : v[1] # Feed}
    BY <1>2 DEF SchedulesTypes
  <2>2. ASSUME NEW f, f # Feed, NEW h PROVE DaysOf(f, h)' = DaysOf(f, h)
    <3>1. \A j : j[1] = f => /\ j \in DOMAIN manifest' <=> j \in DOMAIN manifest
                             /\ j \in DOMAIN manifest => manifest'[j] = manifest[j]
      BY <1>2, <2>2 DEF Put
    <3> QED
      BY <3>1 DEF DaysOf, VersionSlug
  <2> QED
    BY <2>1, <2>2 DEF FreshInv
<1>3. ASSUME NEW feed \in GtfsFeeds, NEW slug \in Hashes, SyncOf(feed, slug)
      PROVE  FreshInv'
  <2>1. manifest' = manifest
    BY <1>3 DEF SyncOf
  <2>2. \A f, h : DaysOf(f, h)' = DaysOf(f, h)
    BY <2>1 DEF DaysOf, VersionSlug
  <2>3. CASE ForeignKeysHold(Insert(feed, slug))
    <3>1. /\ database'.days = UpsertVersions(database.days, feed, slug)
          /\ database'.fresh = database.fresh \cup {<<feed, slug>>}
      BY <1>3, <2>3 DEF SyncOf, SchedulesTypes
    <3>2. ASSUME NEW v \in database'.fresh, NEW j \in DaysOf(v[1], v[2])
          PROVE  j \in DOMAIN database'.days /\ database'.days[j] = v[2]
      <4>1. CASE j \in DaysOf(feed, slug)
        <5>1. v[2] = slug
          BY <4>1, <3>2 DEF DaysOf
        <5> QED
          BY <3>1, <4>1, <5>1 DEF UpsertVersions, Put
      <4>2. CASE j \notin DaysOf(feed, slug)
        <5>1. v \in database.fresh
          BY <3>1, <3>2, <4>2
        <5>2. j \in DOMAIN database.days /\ database.days[j] = v[2]
          BY <3>2, <5>1 DEF FreshInv
        <5> QED
          BY <3>1, <4>2, <5>2 DEF UpsertVersions, Put
      <4> QED
        BY <4>1, <4>2
    <3> QED
      BY <2>2, <3>2 DEF FreshInv
  <2>4. CASE ~ForeignKeysHold(Insert(feed, slug))
    <3>1. database'.days = database.days /\ database'.fresh = database.fresh
      BY <1>3, <2>4 DEF SyncOf, SchedulesTypes
    <3> QED
      BY <2>2, <3>1 DEF FreshInv
  <2> QED
    BY <2>3, <2>4
<1> QED
  BY <1>1, <1>2, <1>3, DatabaseStep

-----------------------------------------------------------------------------
\* A table keeps its complete rows.
LEMMA CompleteIs ==
  ASSUME NEW table, NEW cells
  PROVE  /\ DOMAIN Complete(table, cells) = {i \in DOMAIN table : Has(table[i], cells)}
         /\ \A i \in DOMAIN Complete(table, cells) : Complete(table, cells)[i] = table[i]
         /\ Range(Complete(table, cells)) = {r \in Range(table) : Has(r, cells)}
BY DEF Complete, Restrict, Range

\* The aliases of a schedule: one per route and name, numbered by both.
LEMMA AliasesAre ==
  ASSUME NEW zip, NEW scope, DOMAIN zip.routes \subseteq Nat,
         NEW A, A = RouteAliases(zip, scope), NEW R, R = Routes(zip, scope)
  PROVE  /\ DOMAIN R \subseteq Nat
         /\ DOMAIN A = {q \in (DOMAIN R) \X {1, 2} :
                          R[q[1]].route_id # Absent /\ R[q[1]][NameColumns[q[2]]] # Absent}
         /\ DOMAIN A \subseteq Nat \X Nat
         /\ \A q \in DOMAIN A : /\ A[q].route_id = R[q[1]].route_id
                                /\ AliasKey(A[q]) = <<AliasTypes[q[2]], R[q[1]][NameColumns[q[2]]]>>
<1> DEFINE routes == Rows(R, "gtfs_routes")
<1>1. DOMAIN R \subseteq Nat
  BY DEF Routes, Restrict
<1>2. /\ DOMAIN routes = {i \in DOMAIN R : R[i].route_id # Absent}
      /\ \A i \in DOMAIN routes : routes[i] = R[i]
  <2>1. routes = Complete(R, {"route_id"})
    BY DEF Rows, Required
  <2>2. \A r : Has(r, {"route_id"}) <=> r.route_id # Absent
    BY DEF Has
  <2> HIDE DEF routes
  <2> QED
    BY <2>1, <2>2 DEF Complete, Restrict, Range
<1>3. DOMAIN NameColumns = {1, 2}
  BY DEF NameColumns
<1> HIDE DEF routes
<1>4. A = [p \in {q \in (DOMAIN routes) \X {1, 2} : routes[q[1]][NameColumns[q[2]]] # Absent} |->
             [alias_token |-> routes[p[1]][NameColumns[p[2]]], alias_type |-> AliasTypes[p[2]],
              route_id |-> routes[p[1]].route_id]]
  BY <1>3 DEF RouteAliases, routes
<1>5. DOMAIN A = {q \in (DOMAIN R) \X {1, 2} :
                    R[q[1]].route_id # Absent /\ R[q[1]][NameColumns[q[2]]] # Absent}
  BY <1>2, <1>4
<1>6. ASSUME NEW q \in DOMAIN A
      PROVE  /\ A[q].route_id = R[q[1]].route_id
             /\ AliasKey(A[q]) = <<AliasTypes[q[2]], R[q[1]][NameColumns[q[2]]]>>
  <2>1. q[1] \in DOMAIN routes /\ routes[q[1]] = R[q[1]]
    BY <1>2, <1>4, <1>6
  <2>2. A[q] = [alias_token |-> routes[q[1]][NameColumns[q[2]]], alias_type |-> AliasTypes[q[2]],
                route_id |-> routes[q[1]].route_id]
    BY <1>4, <1>6
  <2>3. /\ A[q].route_id = routes[q[1]].route_id
        /\ A[q].alias_token = routes[q[1]][NameColumns[q[2]]] /\ A[q].alias_type = AliasTypes[q[2]]
    BY ONLY <2>2
  <2> QED
    BY <2>1, <2>3 DEF AliasKey
<1>7. DOMAIN A \subseteq Nat \X Nat
  BY <1>1, <1>5
<1> QED
  BY <1>1, <1>5, <1>6, <1>7, Zenon

\* A crosswalk names routes of the schedule.
LEMMA CrosswalkNames ==
  ASSUME NEW zip, NEW scope, DOMAIN zip.routes \subseteq Nat,
         NEW W, W = InsertCrosswalk(RouteAliases(zip, scope)), NEW key \in DOMAIN W
  PROVE  W[key] \in {r.route_id : r \in Range(Rows(Routes(zip, scope), "gtfs_routes"))}
<1> DEFINE A == RouteAliases(zip, scope)
           R == Routes(zip, scope)
           Q == {p \in DOMAIN A : AliasKey(A[p]) = key}
<1>1. W[key] = A[Earliest(Q)].route_id /\ Q # {}
  BY DEF InsertCrosswalk, Range
<1>2. /\ DOMAIN R \subseteq Nat
      /\ DOMAIN A = {q \in (DOMAIN R) \X {1, 2} :
                       R[q[1]].route_id # Absent /\ R[q[1]][NameColumns[q[2]]] # Absent}
      /\ DOMAIN A \subseteq Nat \X Nat
      /\ \A q \in DOMAIN A : /\ A[q].route_id = R[q[1]].route_id
                             /\ AliasKey(A[q]) = <<AliasTypes[q[2]], R[q[1]][NameColumns[q[2]]]>>
  <2> HIDE DEF A, R
  <2> QED
    BY AliasesAre DEF A, R
<1>3. Earliest(Q) \in Q
  BY <1>1, <1>2, EarliestOf
<1>4. PICK q \in DOMAIN A : W[key] = A[q].route_id
  BY <1>1, <1>3
<1>5. q[1] \in DOMAIN R /\ R[q[1]].route_id # Absent /\ W[key] = R[q[1]].route_id
  <2> HIDE DEF A, R
  <2> QED
    BY <1>2, <1>4
<1>6. R[q[1]] \in Range(Rows(R, "gtfs_routes"))
  <2>1. R[q[1]] \in Range(R) /\ Has(R[q[1]], {"route_id"})
    BY <1>5 DEF Range, Has
  <2>2. Rows(R, "gtfs_routes") = Complete(R, {"route_id"})
    BY DEF Rows, Required
  <2> HIDE DEF R
  <2> QED
    BY <2>1, <2>2 DEF Complete, Restrict, Range
<1> QED
  BY <1>5, <1>6

\* What a sync reads of a mart on disk is what the archive's own schedule says.
LEMMA ReadMartIs ==
  ASSUME MartsAreScoped, NEW mart \in Range(VersionMarts), NEW feed \in GtfsFeeds,
         NEW slug \in Hashes, <<mart, feed, slug>> \in DOMAIN marts
  PROVE  ReadMart(mart, feed, slug) = RowBuilder(mart, ArchiveOf[slug], FeedScopes[feed])
<1> DEFINE from == marts[<<mart, feed, slug>>]
           f == CHOOSE g \in GtfsFeeds : FeedScopes[g] = from.scope
<1>1. from.scope = FeedScopes[feed] /\ from.hash = slug
  BY DEF MartsAreScoped
<1>2. f \in GtfsFeeds /\ FeedScopes[f] = FeedScopes[feed]
  BY <1>1
<1>3. ReadMart(mart, feed, slug) = Built[mart][slug][f]
  BY <1>1 DEF ReadMart
<1> HIDE DEF f, from
<1>4. Built[mart][slug][f] = RowBuilder(mart, ArchiveOf[slug], FeedScopes[f])
  BY <1>2 DEF Built
<1> QED
  BY <1>2, <1>3, <1>4

\* Offsets are of lines that are drawn and of stops that have a place.
LEMMA OffsetsAre ==
  ASSUME NEW zip, NEW scope, NEW o \in RouteShapeStops(zip, scope)
  PROVE  <<o[1], o[2]>> \in RouteShapes(zip, scope) /\ o[3] \in StopCoords(zip)
<1>1. PICK key \in DOMAIN RouteDirectionShapes(zip, scope) :
        \E p \in RouteDirectionStopOffsets(zip, scope, key) : o = <<key, p[1], p[2]>>
  BY DEF RouteShapeStops
<1>2. PICK p \in RouteDirectionStopOffsets(zip, scope, key) : o = <<key, p[1], p[2]>>
  BY <1>1
<1>3. p[1] \in DrawnShapes(zip, scope, key) /\ p[2] \in StopCoords(zip)
  BY DEF RouteDirectionStopOffsets
<1>4. <<key, p[1]>> \in RouteShapes(zip, scope)
  BY <1>3 DEF RouteShapes
<1> QED
  BY <1>2, <1>3, <1>4

\* A sync of a version, however much of it is on disk, holds the foreign keys,
\* and its crosswalk is none or the archive's.
LEMMA InsertHolds ==
  ASSUME OrderInv, MartsAreScoped, NEW feed \in GtfsFeeds, NEW slug \in Hashes
  PROVE  /\ ForeignKeysHold(Insert(feed, slug))
         /\ \/ DOMAIN Insert(feed, slug).crosswalk = {}
            \/ Insert(feed, slug).crosswalk =
                 InsertCrosswalk(RouteAliases(ArchiveOf[slug], FeedScopes[feed]))
<1> DEFINE zip == ArchiveOf[slug]
           scope == FeedScopes[feed]
           rows == Insert(feed, slug)
<1>0. DOMAIN zip.routes \subseteq Nat
  BY SchedulesAssumption
<1>1. {1, 2, 3, 10, 11} \subseteq PlacesOfMarts
      /\ VersionMarts[1] = "gtfs_stops" /\ VersionMarts[2] = "gtfs_routes"
      /\ VersionMarts[3] = "gtfs_route_aliases" /\ VersionMarts[10] = "route_shapes"
      /\ VersionMarts[11] = "route_shape_stops"
  BY MartPlaces DEF VersionMarts
<1>2. ASSUME NEW i \in PlacesOfMarts, Written(i, feed, slug)
      PROVE  ReadMart(VersionMarts[i], feed, slug) = RowBuilder(VersionMarts[i], zip, scope)
  BY <1>2, ReadMartIs, MartPlaces DEF Written
<1>3. /\ rows.routes = {r.route_id : r \in Range(ReadMart("gtfs_routes", feed, slug))}
      /\ rows.stops = {s.stop_id : s \in Range(Complete(ReadMart("gtfs_stops", feed, slug),
                                                        {"stop_lat", "stop_lon"}))}
      /\ rows.crosswalk = InsertCrosswalk(ReadMart("gtfs_route_aliases", feed, slug))
      /\ rows.shapes = ReadMart("route_shapes", feed, slug)
      /\ rows.offsets = ReadMart("route_shape_stops", feed, slug)
  BY DEF Insert
<1> HIDE DEF rows
<1>4. /\ \/ DOMAIN rows.crosswalk = {}
         \/ rows.crosswalk = InsertCrosswalk(RouteAliases(zip, scope))
      /\ \A key \in DOMAIN rows.crosswalk : rows.crosswalk[key] \in rows.routes
  <2>1. CASE Written(3, feed, slug)
    <3>1. Written(2, feed, slug)
      BY <1>1, <2>1 DEF OrderInv
    <3>2. rows.crosswalk = InsertCrosswalk(RouteAliases(zip, scope))
      BY <1>1, <1>2, <1>3, <2>1 DEF RowBuilder
    <3>3. rows.routes = {r.route_id : r \in Range(Rows(Routes(zip, scope), "gtfs_routes"))}
      BY <1>1, <1>2, <1>3, <3>1 DEF RowBuilder
    <3> QED
      BY <1>0, <3>2, <3>3, CrosswalkNames
  <2>2. CASE ~Written(3, feed, slug)
    <3>1. ReadMart("gtfs_route_aliases", feed, slug) = <<>>
      BY <1>1, <2>2 DEF ReadMart, Written
    <3>2. DOMAIN InsertCrosswalk(<<>>) = {}
      BY DEF InsertCrosswalk, Range
    <3> QED
      BY <1>3, <3>1, <3>2
  <2> QED
    BY <2>1, <2>2
<1>5. \A o \in rows.offsets : <<o[1], o[2]>> \in rows.shapes /\ o[3] \in rows.stops
  <2>1. CASE Written(11, feed, slug)
    <3>1. Written(1, feed, slug) /\ Written(10, feed, slug)
      BY <1>1, <2>1 DEF OrderInv
    <3>2. rows.offsets = RouteShapeStops(zip, scope) /\ rows.shapes = RouteShapes(zip, scope)
      BY <1>1, <1>2, <1>3, <2>1, <3>1 DEF RowBuilder
    <3>3. ReadMart("gtfs_stops", feed, slug) = Complete(zip.stops, {"stop_id"})
      <4>1. ReadMart("gtfs_stops", feed, slug) = RowBuilder("gtfs_stops", zip, scope)
        BY <1>1, <1>2, <3>1
      <4> QED
        BY <4>1 DEF RowBuilder, Rows, Required
    <3>4. StopCoords(zip) \subseteq rows.stops
      <4>1. \A r : Has(r, {"stop_id", "stop_lat", "stop_lon"})
                     <=> Has(r, {"stop_id"}) /\ Has(r, {"stop_lat", "stop_lon"})
        BY DEF Has
      <4>2. Range(Complete(zip.stops, {"stop_id", "stop_lat", "stop_lon"}))
              \subseteq Range(Complete(Complete(zip.stops, {"stop_id"}), {"stop_lat", "stop_lon"}))
        BY <4>1 DEF Complete, Restrict, Range
      <4> QED
        BY <1>3, <3>3, <4>2 DEF StopCoords
    <3> QED
      BY <3>2, <3>4, OffsetsAre
  <2>2. CASE ~Written(11, feed, slug)
    BY <1>1, <1>3, <2>2 DEF ReadMart, Written
  <2> QED
    BY <2>1, <2>2
<1> QED
  BY <1>4, <1>5 DEF ForeignKeysHold, rows

\* The rows are what a sync inserts.
LEMMA RowsStep ==
  ASSUME SchedulesTypes, OrderInv, MartsAreScoped, RowsInv, SchedulesNext
  PROVE  RowsInv'
<1>1. CASE UNCHANGED <<manifest, database>>
  BY <1>1 DEF RowsInv, InsertCrosswalk, AliasKey
<1>2. ASSUME database' = [database EXCEPT !.fresh = {v \in @ : v[1] # Feed}]
      PROVE  RowsInv'
  <2>1. database'.rows = database.rows /\ database'.rejected = database.rejected
    BY <1>2 DEF SchedulesTypes
  <2> QED
    BY <2>1 DEF RowsInv, InsertCrosswalk, AliasKey
<1>3. ASSUME NEW feed \in GtfsFeeds, NEW slug \in Hashes, SyncOf(feed, slug)
      PROVE  RowsInv'
  <2> DEFINE new == Insert(feed, slug)
  <2>1. /\ ForeignKeysHold(new)
        /\ \/ DOMAIN new.crosswalk = {}
           \/ new.crosswalk = InsertCrosswalk(RouteAliases(ArchiveOf[slug], FeedScopes[feed]))
    BY InsertHolds
  <2> HIDE DEF new
  <2>2. /\ database'.rejected = database.rejected
        /\ database'.rows = Put(database.rows, {<<feed, slug>>}, new)
    BY <1>3, <2>1 DEF SyncOf, SchedulesTypes, new
  <2>3. ASSUME NEW v \in DOMAIN database'.rows
        PROVE  \/ DOMAIN database'.rows[v].crosswalk = {}
               \/ database'.rows[v].crosswalk =
                    InsertCrosswalk(RouteAliases(ArchiveOf[v[2]], FeedScopes[v[1]]))
    <3>1. CASE v = <<feed, slug>>
      <4>1. database'.rows[v] = new
        BY <2>2, <3>1 DEF Put
      <4> QED
        BY <2>1, <3>1, <4>1
    <3>2. CASE v # <<feed, slug>>
      <4>1. v \in DOMAIN database.rows /\ database'.rows[v] = database.rows[v]
        BY <2>2, <2>3, <3>2 DEF Put
      <4> QED
        BY <4>1 DEF RowsInv
    <3> QED
      BY <3>1, <3>2
  <2> QED
    BY <2>2, <2>3 DEF RowsInv
<1> QED
  BY <1>1, <1>2, <1>3, DatabaseStep

\* Where an archive's index has a name, the crosswalk made of its aliases has
\* it, under the short names first, with the same route.
LEMMA CrosswalkIsIndex ==
  ASSUME NEW zip, NEW scope, DOMAIN zip.routes \subseteq Nat,
         NEW W, W = InsertCrosswalk(RouteAliases(zip, scope)),
         NEW name \in DOMAIN RouteShortNames(zip, scope)
  PROVE  RouteShortNames(zip, scope)[name]
           = IF <<"short_name", name>> \in DOMAIN W THEN W[<<"short_name", name>>]
             ELSE W[<<"long_name", name>>]
<1> DEFINE R == Routes(zip, scope)
           A == RouteAliases(zip, scope)
           C == Cells(R, "route_id", NameColumns)
           Key(p) == R[p[2]][NameColumns[p[1]]]
           N == {p \in C : Key(p) = name}
           S(k) == {q \in DOMAIN A : AliasKey(A[q]) = <<AliasTypes[k], name>>}
           e == Earliest(N)
<1>1. RouteShortNames(zip, scope)[name] = R[e[2]].route_id /\ N # {}
  BY DEF RouteShortNames, KeepFirst
<1>2. /\ DOMAIN R \subseteq Nat
      /\ DOMAIN A = {q \in (DOMAIN R) \X {1, 2} :
                       R[q[1]].route_id # Absent /\ R[q[1]][NameColumns[q[2]]] # Absent}
      /\ DOMAIN A \subseteq Nat \X Nat
      /\ \A q \in DOMAIN A : /\ A[q].route_id = R[q[1]].route_id
                             /\ AliasKey(A[q]) = <<AliasTypes[q[2]], R[q[1]][NameColumns[q[2]]]>>
  <2> HIDE DEF A, R
  <2> QED
    BY AliasesAre DEF A, R
<1>3. C = {p \in {1, 2} \X (DOMAIN R) :
             R[p[2]].route_id # Absent /\ R[p[2]][NameColumns[p[1]]] # Absent}
  <2>1. DOMAIN NameColumns = {1, 2}
    BY DEF NameColumns
  <2> HIDE DEF R
  <2> QED
    BY <2>1 DEF Cells, Has
<1>4. /\ DOMAIN W = {AliasKey(r) : r \in Range(A)}
      /\ \A key \in DOMAIN W :
           W[key] = A[Earliest({p \in DOMAIN A : AliasKey(A[p]) = key})].route_id
  BY DEF InsertCrosswalk
<1>5. AliasTypes[1] = "short_name" /\ AliasTypes[2] = "long_name"
  BY DEF AliasTypes
<1> HIDE DEF A, R, C
<1>6. ASSUME NEW k \in {1, 2}, NEW i
      PROVE  <<i, k>> \in S(k) <=> <<k, i>> \in N
  <2>1. <<i, k>> \in DOMAIN A <=>
          i \in DOMAIN R /\ R[i].route_id # Absent /\ R[i][NameColumns[k]] # Absent
    BY <1>2
  <2>2. <<k, i>> \in C <=>
          i \in DOMAIN R /\ R[i].route_id # Absent /\ R[i][NameColumns[k]] # Absent
    BY <1>3
  <2>3. <<i, k>> \in DOMAIN A =>
          AliasKey(A[<<i, k>>]) = <<AliasTypes[k], R[i][NameColumns[k]]>>
    BY <1>2
  <2> QED
    BY <2>1, <2>2, <2>3
<1>7. ASSUME NEW k \in {1, 2}, NEW q \in S(k)
      PROVE  q[2] = k /\ q = <<q[1], k>>
  <2>1. q \in (DOMAIN R) \X {1, 2} /\ q \in DOMAIN A
    BY <1>2
  <2>2. AliasKey(A[q]) = <<AliasTypes[k], name>>
    OBVIOUS
  <2>3. AliasKey(A[q]) = <<AliasTypes[q[2]], R[q[1]][NameColumns[q[2]]]>>
    BY <2>1, <1>2
  <2>4. AliasTypes[q[2]] = AliasTypes[k]
    BY ONLY <2>2, <2>3
  <2> QED
    BY <2>1, <2>4, <1>5
<1>8. N \subseteq Nat \X Nat
  <2>1. \A p \in C : p[1] \in Nat /\ p[2] \in Nat /\ p = <<p[1], p[2]>>
    <3>1. DOMAIN R \subseteq Nat
      BY <1>2
    <3> QED
      BY ONLY <1>3, <3>1
  <2>2. N \subseteq C
    OBVIOUS
  <2> QED
    BY ONLY <2>1, <2>2
<1>9. e \in N /\ \A q \in N : NotAfter(e, q)
  BY <1>1, <1>8, EarliestOf
<1>10. e[1] \in {1, 2} /\ e[2] \in Nat /\ e = <<e[1], e[2]>>
  <2>1. N \subseteq {1, 2} \X Nat
    BY <1>2, <1>3
  <2> HIDE DEF N, e
  <2> QED
    BY <1>9, <2>1
<1> HIDE DEF N, e
<1>11. Earliest(S(e[1])) = <<e[2], e[1]>> /\ <<e[2], e[1]>> \in S(e[1])
  <2>1. <<e[2], e[1]>> \in S(e[1])
    BY <1>6, <1>9, <1>10
  <2>2. ASSUME NEW q \in S(e[1]) PROVE NotAfter(<<e[2], e[1]>>, q)
    <3>1. q = <<q[1], e[1]>> /\ q[1] \in Nat
      BY <1>2, <1>7, <1>10
    <3>2. <<e[1], q[1]>> \in N
      BY <1>6, <1>10, <3>1
    <3>3. NotAfter(e, <<e[1], q[1]>>)
      BY <1>9, <3>2
    <3> QED
      BY <1>10, <3>1, <3>3 DEF NotAfter
  <2>3. S(e[1]) \subseteq Nat \X Nat
    BY <1>2
  <2> HIDE DEF S
  <2> QED
    BY <2>1, <2>2, <2>3, EarliestIs
<1>12. /\ <<AliasTypes[e[1]], name>> \in DOMAIN W
       /\ W[<<AliasTypes[e[1]], name>>] = R[e[2]].route_id
  <2>1. <<e[2], e[1]>> \in DOMAIN A /\ AliasKey(A[<<e[2], e[1]>>]) = <<AliasTypes[e[1]], name>>
    BY <1>11
  <2>2. <<AliasTypes[e[1]], name>> \in DOMAIN W
    BY <1>4, <2>1 DEF Range
  <2>3. W[<<AliasTypes[e[1]], name>>] = A[Earliest(S(e[1]))].route_id
    BY <1>4, <2>2
  <2>4. A[<<e[2], e[1]>>].route_id = R[e[2]].route_id
    BY <1>2, <2>1
  <2> QED
    BY <1>11, <2>2, <2>3, <2>4
<1>13. ASSUME e[1] = 2 PROVE <<"short_name", name>> \notin DOMAIN W
  <2>1. SUFFICES ASSUME <<"short_name", name>> \in DOMAIN W PROVE FALSE
    OBVIOUS
  <2>2. PICK q \in DOMAIN A : AliasKey(A[q]) = <<"short_name", name>>
    BY <1>4, <2>1 DEF Range
  <2>3. q \in S(1)
    BY <1>5, <2>2
  <2>4. q = <<q[1], 1>>
    BY <1>7, <2>3
  <2>5. <<1, q[1]>> \in N
    BY <1>6, <2>3, <2>4
  <2>6. NotAfter(e, <<1, q[1]>>)
    BY <1>9, <2>5
  <2> QED
    BY <1>13, <2>6 DEF NotAfter
<1> QED
  BY <1>1, <1>5, <1>10, <1>12, <1>13

\* A crosswalk that is the archive's resolves what the index resolves.
LEMMA CrosswalkFollows ==
  ASSUME SchedulesTypes, RowsInv
  PROVE  CrosswalkMatchesIndex
<1> SUFFICES ASSUME NEW v \in DOMAIN database.rows,
                    DOMAIN database.rows[v].crosswalk # {},
                    NEW name \in DOMAIN Indexes[v[1]][v[2]]
             PROVE  Indexes[v[1]][v[2]][name]
                      = LET W == database.rows[v].crosswalk
                        IN IF <<"short_name", name>> \in DOMAIN W THEN W[<<"short_name", name>>]
                           ELSE W[<<"long_name", name>>]
  BY DEF CrosswalkMatchesIndex
<1> DEFINE zip == ArchiveOf[v[2]]
           scope == FeedScopes[v[1]]
           W == database.rows[v].crosswalk
<1>1. v[1] \in GtfsFeeds /\ v[2] \in Hashes
  BY DEF SchedulesTypes
<1>2. Indexes[v[1]][v[2]] = RouteShortNames(zip, scope)
  BY <1>1 DEF Indexes
<1>3. W = InsertCrosswalk(RouteAliases(zip, scope))
  BY DEF RowsInv
<1>4. DOMAIN zip.routes \subseteq Nat
  BY <1>1, SchedulesAssumption
<1>5. name \in DOMAIN RouteShortNames(zip, scope)
  BY <1>2
<1> HIDE DEF zip, scope, W
<1>6. RouteShortNames(zip, scope)[name]
        = IF <<"short_name", name>> \in DOMAIN W THEN W[<<"short_name", name>>]
          ELSE W[<<"long_name", name>>]
  BY <1>3, <1>4, <1>5, CrosswalkIsIndex
<1> QED
  BY <1>2, <1>6 DEF W

SchedulesAll == SchedulesTypes /\ SchedulesInv

\* Nothing is written at first.
LEMMA SchedulesStart ==
  ASSUME SchedulesInit
  PROVE  SchedulesAll
<1> USE DEF SchedulesInit
<1>1. /\ run \in Runs /\ run.phase = "rest" /\ run.loaded = {} /\ run.memo = {}
      /\ run.written = {}
  BY DEF Resting, Runs, Phases
<1>2. history \in Counts /\ \A f \in GtfsFeeds, h \in Hashes : history.built[f][h] = 0
  BY DEF Counts, Builds
<1>3. DOMAIN marts = {} /\ DOMAIN manifest = {} /\ DOMAIN database.rows = {}
      /\ database.fresh = {} /\ database.rejected = FALSE
  OBVIOUS
<1>4. IsFiniteSet(catalog)
  BY FS_EmptySet
<1>5. SchedulesTypes
  BY <1>1, <1>2, <1>3, <1>4 DEF SchedulesTypes
<1>6. \A i, f, h : ~Written(i, f, h)
  BY <1>3 DEF Written
<1>7. history.forced \in Nat
  BY <1>2 DEF Counts
<1>8. OrderInv /\ BackedInv /\ OnceInv
  BY <1>1, <1>2, <1>3, <1>6, <1>7 DEF OrderInv, BackedInv, OnceInv, ManifestBacked
<1>9. MartsAreScoped /\ FreshInv /\ RowsInv
  BY <1>3 DEF MartsAreScoped, FreshInv, RowsInv
<1> QED
  BY <1>5, <1>8, <1>9 DEF SchedulesInv, SchedulesAll

\* Every step keeps what the static schedules rest on.
LEMMA SchedulesStep ==
  ASSUME SchedulesAll, [SchedulesNext]_schedulesVars
  PROVE  SchedulesAll'
<1>1. CASE SchedulesNext
  BY <1>1, SchedulesTypeStep, OrderStep, BackedStep, OnceStep, ScopedStep, FreshStep, RowsStep
     DEF SchedulesInv, SchedulesAll
<1>2. CASE UNCHANGED schedulesVars
  <2> USE <1>2 DEF schedulesVars
  <2>1. SchedulesTypes'
    BY Zenon DEF SchedulesAll, SchedulesTypes, Feed, Slug, Job, VersionSlug
  <2>2. OrderInv' /\ BackedInv' /\ OnceInv'
    BY DEF SchedulesAll, SchedulesInv, OrderInv, BackedInv, OnceInv, ManifestBacked, Written,
      OnDisk, Feed, Slug, Job, VersionSlug
  <2>3. MartsAreScoped' /\ FreshInv' /\ RowsInv'
    BY DEF SchedulesAll, SchedulesInv, FreshInv, RowsInv, MartsAreScoped, DaysOf, VersionSlug
  <2> QED
    BY <2>1, <2>2, <2>3 DEF SchedulesAll, SchedulesInv
<1> QED
  BY <1>1, <1>2

\* What the runs check follows.
LEMMA SchedulesHold ==
  ASSUME SchedulesAll
  PROVE  SchedulesSound
<1> USE DEF SchedulesAll, SchedulesInv
<1>1. SchedulesTypeOK
  BY DEF SchedulesTypes, SchedulesTypeOK, Runs, Phases
<1>2. ManifestBacked /\ BuiltOncePerContent /\ SyncNeverRejected
  BY DEF BackedInv, OnceInv, RowsInv, BuiltOncePerContent, SyncNeverRejected
<1>3. SyncedMirrorsManifest
  <2> SUFFICES ASSUME NEW j \in DOMAIN manifest,
                      <<j[1], VersionSlug(manifest[j])>> \in database.fresh
               PROVE  j \in DOMAIN database.days /\ database.days[j] = VersionSlug(manifest[j])
    BY DEF SyncedMirrorsManifest
  <2>1. j \in DaysOf(j[1], VersionSlug(manifest[j]))
    BY DEF DaysOf
  <2> QED
    BY <2>1 DEF FreshInv
<1>4. CrosswalkMatchesIndex
  BY CrosswalkFollows
<1> QED
  BY <1>1, <1>2, <1>3, <1>4 DEF SchedulesSound

\* Through crawls that die, are forced or repeated, and syncs of whatever they
\* left, the manifest names only what was built, a content is built once, the
\* foreign keys hold, and PostGIS follows the manifest and the archive's index.
THEOREM SchedulesStaySound == SchedulesSpec => []SchedulesSound
<1>1. SchedulesInit => SchedulesAll
  BY SchedulesStart
<1>2. SchedulesAll /\ [SchedulesNext]_schedulesVars => SchedulesAll'
  BY SchedulesStep
<1>3. SchedulesAll => SchedulesSound
  BY SchedulesHold
<1> QED
  BY <1>1, <1>2, <1>3, PTL DEF SchedulesSpec

-----------------------------------------------------------------------------
(* The rewrite of the metadata partitions.                                 *)

(* A thread that holds a partition has read what was last shipped, unless  *)
(* a shipment came since; what it has put aside and backed up is that.     *)
ThreadHolds(k) ==
  LET thread == rewriter[k] IN
  /\ thread.at \in Holding =>
       /\ thread.out.version = 1
       /\ k \notin rewriteHistory.backed
       /\ ~thread.late => /\ live[k] = Inferred(shippedDay[k])
                          /\ thread.out = RolledMetadata(shippedDay[k])
  /\ (thread.at \in {"upload", "copy"} /\ ~thread.late /\ rewrite.backup) =>
       backups[k] = Inferred(shippedDay[k])
  /\ thread.at = "copy" => rewriting[k] = thread.out

(* What a thread that is done has found or written is current.             *)
ThreadEnds(k) ==
  LET thread == rewriter[k] IN
  thread.at = "done" =>
    /\ thread.outcome \in {"current", "written"} =>
         live[k].version = 1 \/ k \in rewriteHistory.reverted
    /\ rewrite.mode = "apply" => thread.outcome \in {"current", "written", "failed"}

(* The invariant of one partition.                                         *)
PartitionInv(k) ==
  /\ live[k] = NoObject \/ k \in rewriteHistory.overtaken \/ live[k] \in Versions(k)
  /\ k \in rewriteHistory.overtaken => live[k].version = 1
  /\ k \in rewriteHistory.backed =>
       /\ live[k].version = 1
       /\ k \notin rewriteHistory.overtaken => backups[k] = Inferred(shippedDay[k])
  /\ ThreadHolds(k) /\ ThreadEnds(k)

(* A run that exits has no thread left, and says 0 if none has failed.     *)
ExitIsTrue ==
  /\ \A k \in PartitionKeys \ rewrite.listed : rewriter[k].at = "none"
  /\ rewrite.at \in {"exit 0", "exit 1"} => \A k \in rewrite.listed : rewriter[k].at = "done"
  /\ rewrite.at = "exit 0" => \A k \in rewrite.listed : rewriter[k].outcome # "failed"

RewriteInv == RewriteTypeOK /\ (\A k \in PartitionKeys : PartitionInv(k)) /\ ExitIsTrue

(* conform makes of an old partition what the rollup makes of its day.     *)
LEMMA ConformIsRollup ==
  ASSUME NEW day
  PROVE  Conform(Inferred(day)) = RolledMetadata(day)
<1>1. Inferred(day).rows = day.rows
  BY DEF Inferred
<1> DEFINE kept == {i \in {j \in DOMAIN day.rows : UsableRow(day.rows[j]) => ~Repeats(day.rows, j)} :
                      UsableRow(day.rows[i])}
<1>2. kept = KeptRows(day.rows)
  BY Zenon DEF KeptRows
<1>3. Conform(Inferred(day)) = MetadataTable(day.rows, KeptRows(day.rows))
  BY <1>1, Zenon DEF Conform
<1> QED
  BY <1>2, <1>3, Zenon DEF RolledMetadata

\* What a thread writes of a stale object is the current rollup of its day.
LEMMA ObjectVersions ==
  /\ NoObject \in PartitionObjects /\ NoObject.version = -1
  /\ \A day : Inferred(day).version = 0 /\ RolledMetadata(day).version = 1
  /\ \A day \in MetadataDays : Inferred(day) \in PartitionObjects /\ RolledMetadata(day) \in PartitionObjects
<1>1. NoObject.version = -1 BY DEF NoObject
<1>2. \A day : Inferred(day).version = 0 BY DEF Inferred
<1>3. \A day : RolledMetadata(day).version = 1 BY DEF RolledMetadata, MetadataTable
<1>4. /\ NoObject \in PartitionObjects
      /\ \A day \in MetadataDays : Inferred(day) \in PartitionObjects /\ RolledMetadata(day) \in PartitionObjects
  BY Zenon DEF PartitionObjects
<1> QED BY <1>1, <1>2, <1>3, <1>4, Zenon

(* An object a thread accepts is the inferred one of some day.             *)
LEMMA AcceptedIsInferred ==
  ASSUME NEW object \in PartitionObjects, ~ConformRaises(object), object.version < 1
  PROVE  \E day \in MetadataDays : object = Inferred(day) /\ Conform(object) = RolledMetadata(day)
<1>1. object.clock = "seconds"
  BY Zenon DEF ConformRaises
<1>2. object # NoObject
  BY <1>1 DEF NoObject
<1>3. \A day : object # RolledMetadata(day)
  BY ObjectVersions
<1>4. PICK day \in MetadataDays : object = Inferred(day)
  BY <1>2, <1>3, Zenon DEF PartitionObjects
<1> QED BY <1>4, ConformIsRollup, Zenon

Jobs == [at : {"idle", "running", "exit 0", "exit 1"},
         mode : {"footers", "dry", "apply"}, backup : BOOLEAN, listed : SUBSET PartitionKeys]
RewriteHistories ==
  [shipments : Nat, runs : Nat, faults : Nat, overtaken : SUBSET PartitionKeys,
   backed : SUBSET PartitionKeys, reverted : SUBSET PartitionKeys]

(* The parts of the type invariant, and of a thread.                       *)
LEMMA RewriteParts ==
  ASSUME RewriteTypeOK
  PROVE  /\ live \in [PartitionKeys -> PartitionObjects] /\ backups \in [PartitionKeys -> PartitionObjects]
         /\ rewriting \in [PartitionKeys -> PartitionObjects] /\ shippedDay \in [PartitionKeys -> MetadataDays]
         /\ rewriter \in [PartitionKeys -> Threads]
         /\ rewrite \in Jobs /\ rewriteHistory \in RewriteHistories
<1> QED BY Zenon DEF RewriteTypeOK, Jobs, RewriteHistories

\* The types of the variables, one by one.
LEMMA RewriteTyped ==
  ASSUME live \in [PartitionKeys -> PartitionObjects], backups \in [PartitionKeys -> PartitionObjects],
         rewriting \in [PartitionKeys -> PartitionObjects], shippedDay \in [PartitionKeys -> MetadataDays],
         rewriter \in [PartitionKeys -> Threads],
         rewrite \in Jobs, rewriteHistory \in RewriteHistories
  PROVE  RewriteTypeOK
<1> QED BY Zenon DEF RewriteTypeOK, Jobs, RewriteHistories

\* The invariant holds before anything is shipped.
LEMMA RewriteInitially ==
  ASSUME RewriteInit PROVE RewriteInv
<1> USE DEF RewriteInit
<1> DEFINE day0 == CHOOSE day \in MetadataDays : TRUE
<1>0. day0 \in MetadataDays
  BY RewriteAssumption, Zenon
<1>1. NoThread \in Threads
  BY ObjectVersions DEF NoThread, Threads
<1>2. RewriteTypeOK
  <2>1. /\ live \in [PartitionKeys -> PartitionObjects] /\ backups \in [PartitionKeys -> PartitionObjects]
        /\ rewriting \in [PartitionKeys -> PartitionObjects]
    BY ObjectVersions, Zenon
  <2>2. shippedDay \in [PartitionKeys -> MetadataDays]
    BY <1>0, Zenon
  <2>3. rewriter \in [PartitionKeys -> Threads]
    BY <1>1, Zenon
  <2>4. rewrite \in Jobs /\ rewriteHistory \in RewriteHistories
    BY DEF NoRewrite, Jobs, RewriteHistories
  <2> QED BY <2>1, <2>2, <2>3, <2>4, Zenon DEF RewriteTypeOK, Jobs, RewriteHistories
<1>3. /\ \A k \in PartitionKeys : rewriter[k].at = "none" /\ live[k] = NoObject
      /\ rewriteHistory.backed = {} /\ rewriteHistory.overtaken = {} /\ rewrite.at = "idle"
  BY DEF NoThread, NoRewrite
<1>4. \A k \in PartitionKeys : PartitionInv(k)
  BY <1>3 DEF PartitionInv, ThreadHolds, ThreadEnds, Holding
<1>5. ExitIsTrue
  BY <1>3 DEF ExitIsTrue
<1> QED BY <1>2, <1>4, <1>5, Zenon DEF RewriteInv

-----------------------------------------------------------------------------
(* An action at one partition: it is enough that the other partitions and  *)
(* the job keep what they have, and that a thread moves only if it runs.   *)
OthersKeep(k) ==
  /\ rewrite' = rewrite
  /\ \A j \in PartitionKeys \ {k} :
       /\ live'[j] = live[j] /\ backups'[j] = backups[j] /\ rewriting'[j] = rewriting[j]
       /\ shippedDay'[j] = shippedDay[j] /\ rewriter'[j] = rewriter[j]
       /\ j \in rewriteHistory'.overtaken <=> j \in rewriteHistory.overtaken
       /\ j \in rewriteHistory'.backed <=> j \in rewriteHistory.backed
       /\ j \in rewriteHistory'.reverted <=> j \in rewriteHistory.reverted
  /\ \/ rewriter[k].at \notin {"none", "done"}
     \/ rewriter'[k].at = rewriter[k].at /\ rewriter'[k].outcome = rewriter[k].outcome

\* A step at one partition disturbs no other and not the job.
LEMMA OnePartition ==
  ASSUME RewriteInv, RewriteTypeOK', NEW k \in PartitionKeys, OthersKeep(k), PartitionInv(k)'
  PROVE  RewriteInv'
<1>1. ASSUME NEW j \in PartitionKeys \ {k} PROVE PartitionInv(j)'
  <2>1. PartitionInv(j)
    BY Zenon DEF RewriteInv
  <2>2. /\ rewrite' = rewrite
        /\ live'[j] = live[j] /\ backups'[j] = backups[j] /\ rewriting'[j] = rewriting[j]
        /\ shippedDay'[j] = shippedDay[j] /\ rewriter'[j] = rewriter[j]
        /\ j \in rewriteHistory'.overtaken <=> j \in rewriteHistory.overtaken
        /\ j \in rewriteHistory'.backed <=> j \in rewriteHistory.backed
        /\ j \in rewriteHistory'.reverted <=> j \in rewriteHistory.reverted
    BY <1>1, Zenon DEF OthersKeep
  <2>3. ThreadHolds(j)'
    BY <2>1, <2>2, Zenon DEF PartitionInv, ThreadHolds
  <2>4. ThreadEnds(j)'
    BY <2>1, <2>2, Zenon DEF PartitionInv, ThreadEnds
  <2> QED BY <2>1, <2>2, <2>3, <2>4, Zenon DEF PartitionInv, Versions
<1>2. ExitIsTrue'
  <2>1. ExitIsTrue /\ rewrite' = rewrite
    BY Zenon DEF RewriteInv, OthersKeep
  <2>2. \A j \in PartitionKeys \ {k} : rewriter'[j] = rewriter[j]
    BY Zenon DEF OthersKeep
  <2>3. CASE rewriter'[k].at = rewriter[k].at /\ rewriter'[k].outcome = rewriter[k].outcome
    <3>1. \A j \in PartitionKeys : /\ rewriter'[j].at = rewriter[j].at
                                   /\ rewriter'[j].outcome = rewriter[j].outcome
      BY <2>2, <2>3, Zenon
    <3>2. rewrite.listed \subseteq PartitionKeys
      BY RewriteParts DEF RewriteInv, Jobs
    <3> QED BY <2>1, <3>1, <3>2 DEF ExitIsTrue
  <2>4. CASE rewriter[k].at \notin {"none", "done"}
    BY <2>1, <2>2, <2>4 DEF ExitIsTrue
  <2> QED BY <2>3, <2>4, Zenon DEF OthersKeep
<1> QED BY <1>1, <1>2, Zenon DEF RewriteInv

(* A thread, and how it may end.                                           *)
LEMMA ThreadRecords ==
  ASSUME RewriteInv, NEW k \in PartitionKeys
  PROVE  /\ rewriter[k] = [at |-> rewriter[k].at, out |-> rewriter[k].out,
                           late |-> rewriter[k].late, outcome |-> rewriter[k].outcome]
         /\ rewriter[k].out \in PartitionObjects /\ rewriter[k].late \in BOOLEAN
         /\ rewriter[k].at \in {"none", "queued", "backup", "upload", "copy", "delete", "check", "done"}
         /\ rewriter[k].outcome \in {"none", "current", "stale", "converted", "written", "failed"}
<1>1. rewriter[k] \in Threads
  BY RewriteParts, Zenon DEF RewriteInv
<1> QED BY <1>1 DEF Threads

\* A thread that goes on keeps what it holds.
LEMMA ThreadStepped ==
  ASSUME RewriteInv, NEW k \in PartitionKeys, NEW step, Goes(k, step),
         step \in {"upload", "copy", "delete", "check"}
  PROVE  /\ rewriter' \in [PartitionKeys -> Threads]
         /\ \A j \in PartitionKeys \ {k} : rewriter'[j] = rewriter[j]
         /\ rewriter'[k].at = step /\ rewriter'[k].out = rewriter[k].out
         /\ rewriter'[k].late = rewriter[k].late
<1> DEFINE thread == [rewriter[k] EXCEPT !.at = step]
<1>0. rewriter[k] \in Threads
  BY RewriteParts, Zenon DEF RewriteInv
<1>1. thread \in Threads /\ thread.at = step /\ thread.out = rewriter[k].out
      /\ thread.late = rewriter[k].late
  BY <1>0 DEF Threads
<1>2. rewriter' = [rewriter EXCEPT ![k] = thread]
  BY Zenon DEF Goes
<1>3. rewriter \in [PartitionKeys -> Threads]
  BY RewriteParts, Zenon DEF RewriteInv
<1> HIDE DEF thread
<1> QED BY <1>1, <1>2, <1>3

\* A thread that ends holds nothing.
LEMMA ThreadEnded ==
  ASSUME RewriteInv, NEW k \in PartitionKeys, NEW outcome, Ends(k, outcome),
         outcome \in {"current", "stale", "converted", "written", "failed"}
  PROVE  /\ rewriter' \in [PartitionKeys -> Threads]
         /\ \A j \in PartitionKeys \ {k} : rewriter'[j] = rewriter[j]
         /\ rewriter'[k].at = "done" /\ rewriter'[k].outcome = outcome
<1> DEFINE thread == [NoThread EXCEPT !.at = "done", !.outcome = outcome]
<1>1. thread \in Threads /\ thread.at = "done" /\ thread.outcome = outcome
  BY ObjectVersions DEF Threads, NoThread
<1>2. rewriter' = [rewriter EXCEPT ![k] = thread]
  BY Zenon DEF Ends
<1>3. rewriter \in [PartitionKeys -> Threads]
  BY RewriteParts, Zenon DEF RewriteInv
<1> HIDE DEF thread
<1> QED BY <1>1, <1>2, <1>3

(* The fields of the history after the changes the actions make of it.     *)
LEMMA HistoryFields ==
  ASSUME RewriteInv
  PROVE  /\ rewriteHistory = [shipments |-> rewriteHistory.shipments, runs |-> rewriteHistory.runs,
                              faults |-> rewriteHistory.faults, overtaken |-> rewriteHistory.overtaken,
                              backed |-> rewriteHistory.backed, reverted |-> rewriteHistory.reverted]
         /\ rewriteHistory.shipments \in Nat /\ rewriteHistory.runs \in Nat
         /\ rewriteHistory.faults \in Nat /\ rewriteHistory.overtaken \subseteq PartitionKeys
         /\ rewriteHistory.backed \subseteq PartitionKeys
         /\ rewriteHistory.reverted \subseteq PartitionKeys
<1>1. rewriteHistory \in RewriteHistories
  BY RewriteParts, Zenon DEF RewriteInv
<1> QED BY <1>1 DEF RewriteHistories

\* A partition that is confirmed is struck from those the old image shipped.
LEMMA ConfirmedKeeps ==
  ASSUME RewriteInv, NEW k \in PartitionKeys, FoundCurrent(k)
  PROVE  /\ rewriteHistory' \in RewriteHistories
         /\ rewriteHistory'.overtaken = rewriteHistory.overtaken
         /\ rewriteHistory'.backed = rewriteHistory.backed
         /\ rewriteHistory'.reverted = rewriteHistory.reverted \ {k}
<1> QED BY HistoryFields DEF FoundCurrent, RewriteHistories

(* A thread that ends leaves its object as it is.                          *)
LEMMA EndingKeeps ==
  ASSUME RewriteInv, NEW k \in PartitionKeys, NEW outcome, Ends(k, outcome),
         outcome \in {"current", "stale", "converted", "written", "failed"},
         rewriter[k].at \notin {"none", "done"},
         UNCHANGED <<live, backups, rewriting, shippedDay, rewrite>>,
         \/ rewriteHistory' \in RewriteHistories
            /\ rewriteHistory'.overtaken = rewriteHistory.overtaken
            /\ rewriteHistory'.backed = rewriteHistory.backed
            /\ rewriteHistory'.reverted = rewriteHistory.reverted
            /\ outcome \notin {"current", "written"}
         \/ FoundCurrent(k) /\ live[k].version = 1,
         rewrite.mode = "apply" => outcome \notin {"stale", "converted"}
  PROVE  RewriteInv'
<1>1. /\ rewriteHistory' \in RewriteHistories
      /\ rewriteHistory'.overtaken = rewriteHistory.overtaken
      /\ rewriteHistory'.backed = rewriteHistory.backed
      /\ \A j \in PartitionKeys \ {k} :
           j \in rewriteHistory'.reverted <=> j \in rewriteHistory.reverted
  BY ConfirmedKeeps
<1>2. /\ rewriter' \in [PartitionKeys -> Threads]
      /\ \A j \in PartitionKeys \ {k} : rewriter'[j] = rewriter[j]
      /\ rewriter'[k].at = "done" /\ rewriter'[k].outcome = outcome
  BY ThreadEnded
<1>3. RewriteTypeOK'
  BY <1>1, <1>2, RewriteParts, Zenon DEF RewriteInv, RewriteTypeOK, Jobs, RewriteHistories
<1>4. OthersKeep(k)
  BY <1>1, <1>2, Zenon DEF OthersKeep
<1>5. PartitionInv(k)
  BY Zenon DEF RewriteInv
<1>6. ThreadHolds(k)'
  BY <1>2 DEF ThreadHolds, Holding
<1>7. ThreadEnds(k)'
  BY <1>2 DEF ThreadEnds
<1>8. PartitionInv(k)'
  BY <1>1, <1>5, <1>6, <1>7, Zenon DEF PartitionInv, Versions
<1> QED BY <1>3, <1>4, <1>8, OnePartition

(* What is the same about every thread that runs.                          *)
LEMMA Running ==
  ASSUME RewriteInv, NEW k \in PartitionKeys
  PROVE  PartitionInv(k) /\ ThreadHolds(k) /\ RewriteTypeOK
<1> QED BY Zenon DEF RewriteInv, PartitionInv

\* A shipment: a thread that holds the object is late from then on.
LEMMA ShipKeeps ==
  ASSUME RewriteInv, NEW k \in PartitionKeys, NEW day \in MetadataDays,
         NEW image \in {"old", "new"}, ShipPartition(k, day, image)
  PROVE  RewriteInv'
<1> DEFINE object == IF image = "old" THEN Inferred(day) ELSE RolledMetadata(day)
           held == rewriter[k].at \in Holding
           thread == [rewriter[k] EXCEPT !.late = held]
           again == IF image = "old" THEN rewriteHistory.reverted \cup {k}
                                     ELSE rewriteHistory.reverted \ {k}
<1>o. object \in {Inferred(day), RolledMetadata(day)} /\ object \in PartitionObjects
  BY ObjectVersions
<1>0. rewriter[k] \in Threads
  BY RewriteParts, Zenon DEF RewriteInv
<1>1. /\ thread \in Threads /\ thread.at = rewriter[k].at /\ thread.out = rewriter[k].out
      /\ thread.outcome = rewriter[k].outcome
      /\ thread.at \in Holding => thread.late
  <2>1. held \in BOOLEAN /\ (rewriter[k].at \in Holding => held)
    OBVIOUS
  <2> HIDE DEF held
  <2> QED BY <1>0, <2>1 DEF Threads
<1>2. /\ live' = [live EXCEPT ![k] = object]
      /\ rewriter' = [rewriter EXCEPT ![k] = thread]
      /\ shippedDay' = [shippedDay EXCEPT ![k] = day]
      /\ UNCHANGED <<backups, rewriting, rewrite>>
  BY Zenon DEF ShipPartition
<1> HIDE DEF object, thread
<1>3. /\ rewriteHistory' \in RewriteHistories
      /\ rewriteHistory'.overtaken = rewriteHistory.overtaken \ {k}
      /\ rewriteHistory'.backed = rewriteHistory.backed \ {k}
      /\ rewriteHistory'.reverted = again
  <2> DEFINE count == rewriteHistory.shipments + 1
  <2>1. again \subseteq PartitionKeys /\ count \in Nat
    BY HistoryFields
  <2>2. rewriteHistory' = [rewriteHistory EXCEPT
          !.shipments = count, !.overtaken = @ \ {k}, !.backed = @ \ {k}, !.reverted = again]
    BY Zenon DEF ShipPartition
  <2>3. rewriteHistory \in RewriteHistories
    BY RewriteParts, Zenon DEF RewriteInv
  <2> HIDE DEF again, count
  <2>4. rewriteHistory' = [shipments |-> count, runs |-> rewriteHistory.runs,
            faults |-> rewriteHistory.faults, overtaken |-> rewriteHistory.overtaken \ {k},
            backed |-> rewriteHistory.backed \ {k}, reverted |-> again]
    BY <2>2, <2>3 DEF RewriteHistories
  <2> QED BY <2>1, <2>4, HistoryFields DEF RewriteHistories
<1>4. /\ live' \in [PartitionKeys -> PartitionObjects] /\ live'[k] = object
      /\ rewriter' \in [PartitionKeys -> Threads] /\ rewriter'[k] = thread
      /\ shippedDay' \in [PartitionKeys -> MetadataDays] /\ shippedDay'[k] = day
      /\ \A j \in PartitionKeys \ {k} :
           live'[j] = live[j] /\ rewriter'[j] = rewriter[j] /\ shippedDay'[j] = shippedDay[j]
  BY <1>1, <1>2, <1>o, RewriteParts DEF RewriteInv
<1>5. RewriteTypeOK'
  <2>1. UNCHANGED <<backups, rewriting, rewrite>>
    BY <1>2, Zenon
  <2>2. rewriteHistory' \in RewriteHistories
    BY <1>3, Zenon
  <2> QED BY <1>4, <2>1, <2>2, RewriteParts, Zenon DEF RewriteInv, RewriteTypeOK, Jobs, RewriteHistories
<1>6. OthersKeep(k)
  BY <1>1, <1>2, <1>3, <1>4 DEF OthersKeep
<1>7. live'[k] \in Versions(k)'
  BY <1>4, <1>o, Zenon DEF Versions
<1>8. ThreadHolds(k)'
  BY <1>1, <1>2, <1>3, <1>4, Running DEF ThreadHolds, Holding
<1>9. ThreadEnds(k)'
  <2>1. ThreadEnds(k)
    BY Running, Zenon DEF PartitionInv
  <2>2. live'[k].version = 1 \/ k \in rewriteHistory'.reverted
    <3>1. CASE image = "old"
      BY <1>3, <3>1 DEF again
    <3>2. CASE image = "new"
      BY <1>4, <3>2, ObjectVersions DEF object
    <3> QED BY <3>1, <3>2
  <2> QED BY <1>1, <1>2, <1>4, <2>1, <2>2 DEF ThreadEnds
<1>10. PartitionInv(k)'
  BY <1>3, <1>7, <1>8, <1>9, Zenon DEF PartitionInv
<1> QED BY <1>5, <1>6, <1>10, OnePartition

\* A thread that opens an object holds what was last shipped.
LEMMA OpenKeeps ==
  ASSUME RewriteInv, NEW k \in PartitionKeys, Open(k)
  PROVE  RewriteInv'
<1>0. /\ rewriter[k].at = "queued"
      /\ UNCHANGED <<live, backups, rewriting, shippedDay, rewrite>>
  BY Zenon DEF Open
<1>o. live[k] \in PartitionObjects
  BY RewriteParts DEF RewriteInv
<1>v. live[k].version >= 1 => live[k].version = 1
  <2>1. live[k].version \in {-1, 0, 1}
    BY <1>o, ObjectVersions, Zenon DEF PartitionObjects
  <2> QED BY <2>1
<1>1. CASE live[k].version >= 1 /\ Ends(k, "current") /\ FoundCurrent(k)
  BY <1>0, <1>1, <1>v, EndingKeeps
<1>2. ASSUME NEW outcome \in {"stale", "failed", "converted"}, Ends(k, outcome),
             UNCHANGED rewriteHistory,
             rewrite.mode = "apply" => outcome = "failed"
      PROVE RewriteInv'
  BY <1>0, <1>2, RewriteParts, EndingKeeps DEF RewriteInv
<1>3. ASSUME live[k].version < 1, rewrite.mode = "apply", ~ConformRaises(live[k]),
             rewriter' = [rewriter EXCEPT ![k] =
                   [at |-> IF rewrite.backup THEN "backup" ELSE "upload",
                    out |-> Conform(live[k]), late |-> FALSE, outcome |-> "none"]],
             UNCHANGED rewriteHistory
      PROVE RewriteInv'
  <2> DEFINE thread == [at |-> IF rewrite.backup THEN "backup" ELSE "upload",
                    out |-> Conform(live[k]), late |-> FALSE, outcome |-> "none"]
  <2>1. PICK day \in MetadataDays : live[k] = Inferred(day) /\ Conform(live[k]) = RolledMetadata(day)
    BY <1>3, <1>o, AcceptedIsInferred
  <2>2. PartitionInv(k)
    BY Running
  <2>3. k \notin rewriteHistory.backed
    BY <1>3, <2>2 DEF PartitionInv
  <2>4. thread \in Threads
    BY <2>1, ObjectVersions DEF Threads
  <2>5. rewriter' \in [PartitionKeys -> Threads] /\ rewriter'[k] = thread
        /\ \A j \in PartitionKeys \ {k} : rewriter'[j] = rewriter[j]
    BY <2>4, <1>3, RewriteParts DEF RewriteInv
  <2>6. RewriteTypeOK'
    BY <1>0, <1>3, <2>5, RewriteParts, Zenon DEF RewriteInv, RewriteTypeOK, Jobs, RewriteHistories
  <2>7. OthersKeep(k)
    BY <1>0, <1>3, <2>5 DEF OthersKeep
  <2>8. live[k].version = 0 /\ live[k] # NoObject
    BY <2>1, ObjectVersions
  <2>9. live[k] = Inferred(shippedDay[k])
    BY <2>2, <2>8, ObjectVersions DEF PartitionInv, Versions
  <2>10. Conform(live[k]) = RolledMetadata(shippedDay[k])
    BY <2>9, ConformIsRollup
  <2>11. ThreadHolds(k)'
    BY <1>0, <1>3, <2>3, <2>5, <2>9, <2>10, ObjectVersions DEF ThreadHolds
  <2>12. ThreadEnds(k)'
    BY <2>5 DEF ThreadEnds
  <2>13. PartitionInv(k)'
    BY <1>0, <1>3, <2>2, <2>11, <2>12, Zenon DEF PartitionInv, Versions
  <2> QED BY <2>6, <2>7, <2>13, OnePartition
<1> QED BY <1>0, <1>1, <1>2, <1>3, Zenon DEF Open

\* A backup is of the object that was read.
LEMMA BackUpKeeps ==
  ASSUME RewriteInv, NEW k \in PartitionKeys, BackUp(k)
  PROVE  RewriteInv'
<1>1. /\ rewriter[k].at = "backup" /\ Goes(k, "upload")
      /\ backups' = [backups EXCEPT ![k] = live[k]]
      /\ UNCHANGED <<live, rewriting, shippedDay, rewrite, rewriteHistory>>
  BY Zenon DEF BackUp, ThreadAt
<1>2. /\ rewriter' \in [PartitionKeys -> Threads]
      /\ \A j \in PartitionKeys \ {k} : rewriter'[j] = rewriter[j]
      /\ rewriter'[k].at = "upload" /\ rewriter'[k].out = rewriter[k].out
      /\ rewriter'[k].late = rewriter[k].late
  BY <1>1, ThreadStepped
<1>3. /\ backups' \in [PartitionKeys -> PartitionObjects] /\ backups'[k] = live[k]
      /\ \A j \in PartitionKeys \ {k} : backups'[j] = backups[j]
  BY <1>1, RewriteParts DEF RewriteInv
<1>4. RewriteTypeOK'
  BY <1>1, <1>2, <1>3, RewriteParts, Zenon DEF RewriteInv, RewriteTypeOK, Jobs, RewriteHistories
<1>5. OthersKeep(k)
  BY <1>1, <1>2, <1>3 DEF OthersKeep
<1>6. ThreadHolds(k)'
  BY <1>1, <1>2, <1>3, Running DEF ThreadHolds, Holding
<1>7. ThreadEnds(k)'
  BY <1>2 DEF ThreadEnds
<1>8. PartitionInv(k)'
  <2>1. k \notin rewriteHistory.backed
    BY <1>1, Running DEF ThreadHolds, Holding
  <2> QED BY <1>1, <1>6, <1>7, <2>1, Running, Zenon DEF PartitionInv, Versions
<1> QED BY <1>4, <1>5, <1>8, OnePartition

\* The temporary object is the partition's own.
LEMMA UploadKeeps ==
  ASSUME RewriteInv, NEW k \in PartitionKeys, Upload(k)
  PROVE  RewriteInv'
<1>1. /\ rewriter[k].at = "upload" /\ Goes(k, "copy")
      /\ rewriting' = [rewriting EXCEPT ![k] = rewriter[k].out]
      /\ UNCHANGED <<live, backups, shippedDay, rewrite, rewriteHistory>>
  BY Zenon DEF Upload, ThreadAt
<1>2. /\ rewriter' \in [PartitionKeys -> Threads]
      /\ \A j \in PartitionKeys \ {k} : rewriter'[j] = rewriter[j]
      /\ rewriter'[k].at = "copy" /\ rewriter'[k].out = rewriter[k].out
      /\ rewriter'[k].late = rewriter[k].late
  BY <1>1, ThreadStepped
<1>3. /\ rewriting' \in [PartitionKeys -> PartitionObjects] /\ rewriting'[k] = rewriter[k].out
      /\ \A j \in PartitionKeys \ {k} : rewriting'[j] = rewriting[j]
  BY <1>1, ThreadRecords, RewriteParts DEF RewriteInv
<1>4. RewriteTypeOK'
  BY <1>1, <1>2, <1>3, RewriteParts, Zenon DEF RewriteInv, RewriteTypeOK, Jobs, RewriteHistories
<1>5. OthersKeep(k)
  BY <1>1, <1>2, <1>3 DEF OthersKeep
<1>6. ThreadHolds(k)'
  BY <1>1, <1>2, <1>3, Running DEF ThreadHolds, Holding
<1>7. ThreadEnds(k)'
  BY <1>2 DEF ThreadEnds
<1>8. PartitionInv(k)'
  BY <1>1, <1>6, <1>7, Running, Zenon DEF PartitionInv, Versions
<1> QED BY <1>4, <1>5, <1>8, OnePartition

\* What is copied is a rollup of the day read, which a late thread's is not.
LEMMA CopyKeeps ==
  ASSUME RewriteInv, NEW k \in PartitionKeys, Copy(k)
  PROVE  RewriteInv'
<1> DEFINE over == IF rewriter[k].late THEN rewriteHistory.overtaken \cup {k}
                   ELSE rewriteHistory.overtaken
           backed == IF rewrite.backup THEN rewriteHistory.backed \cup {k}
                     ELSE rewriteHistory.backed
<1>1. /\ rewriter[k].at = "copy" /\ Goes(k, "delete")
      /\ live' = [live EXCEPT ![k] = rewriting[k]]
      /\ rewriteHistory' = [rewriteHistory EXCEPT !.overtaken = over, !.backed = backed]
      /\ UNCHANGED <<backups, rewriting, shippedDay, rewrite>>
  BY Zenon DEF Copy, ThreadAt
<1>s. over \subseteq PartitionKeys /\ backed \subseteq PartitionKeys
  BY HistoryFields
<1>f. /\ \A j \in PartitionKeys \ {k} : (j \in over <=> j \in rewriteHistory.overtaken)
                                       /\ (j \in backed <=> j \in rewriteHistory.backed)
      /\ rewriter[k].late => k \in over
      /\ k \in backed => k \in rewriteHistory.backed \/ rewrite.backup
  OBVIOUS
<1>2. /\ rewriter' \in [PartitionKeys -> Threads]
      /\ \A j \in PartitionKeys \ {k} : rewriter'[j] = rewriter[j]
      /\ rewriter'[k].at = "delete"
  BY <1>1, ThreadStepped
<1>h. ThreadHolds(k)
  BY Running
<1>3. /\ live' \in [PartitionKeys -> PartitionObjects] /\ live'[k] = rewriter[k].out
      /\ \A j \in PartitionKeys \ {k} : live'[j] = live[j]
  <2>1. rewriting[k] = rewriter[k].out
    BY <1>1, <1>h DEF ThreadHolds
  <2> QED BY <1>1, <2>1, RewriteParts DEF RewriteInv
<1> HIDE DEF over, backed
<1>r. /\ rewriteHistory' \in RewriteHistories
      /\ rewriteHistory'.overtaken = over /\ rewriteHistory'.backed = backed
      /\ rewriteHistory'.reverted = rewriteHistory.reverted
  BY <1>1, <1>s, HistoryFields DEF RewriteHistories
<1>4. RewriteTypeOK'
  BY <1>1, <1>2, <1>3, <1>r, RewriteParts, Zenon DEF RewriteInv, RewriteTypeOK, Jobs, RewriteHistories
<1>5. OthersKeep(k)
  BY <1>1, <1>2, <1>3, <1>r, <1>f DEF OthersKeep
<1>6. ThreadHolds(k)' /\ ThreadEnds(k)'
  BY <1>2 DEF ThreadHolds, Holding, ThreadEnds
<1>7. live'[k].version = 1
  BY <1>1, <1>3, <1>h DEF ThreadHolds, Holding
<1>8. k \notin rewriteHistory.backed
  BY <1>1, <1>h DEF ThreadHolds, Holding
<1>9. ASSUME k \notin over
      PROVE  /\ live'[k] \in Versions(k)'
             /\ rewrite.backup => backups'[k] = Inferred(shippedDay'[k])
  <2>1. ~rewriter[k].late
    BY <1>9, <1>f
  <2>2. rewriter[k].out = RolledMetadata(shippedDay[k])
    BY <1>1, <1>h, <2>1 DEF ThreadHolds, Holding
  <2>3. rewrite.backup => backups[k] = Inferred(shippedDay[k])
    BY <1>1, <1>h, <2>1 DEF ThreadHolds
  <2> QED BY <1>1, <1>3, <2>2, <2>3, Zenon DEF Versions
<1>10. PartitionInv(k)'
  BY <1>1, <1>r, <1>f, <1>6, <1>7, <1>8, <1>9, Zenon DEF PartitionInv
<1> QED BY <1>4, <1>5, <1>10, OnePartition

\* Nothing needs the temporary object any more.
LEMMA DeleteTemporaryKeeps ==
  ASSUME RewriteInv, NEW k \in PartitionKeys, DeleteTemporary(k)
  PROVE  RewriteInv'
<1>1. /\ rewriter[k].at = "delete" /\ Goes(k, "check")
      /\ rewriting' = [rewriting EXCEPT ![k] = NoObject]
      /\ UNCHANGED <<live, backups, shippedDay, rewrite, rewriteHistory>>
  BY Zenon DEF DeleteTemporary, ThreadAt
<1>2. /\ rewriter' \in [PartitionKeys -> Threads]
      /\ \A j \in PartitionKeys \ {k} : rewriter'[j] = rewriter[j]
      /\ rewriter'[k].at = "check"
  BY <1>1, ThreadStepped
<1>3. /\ rewriting' \in [PartitionKeys -> PartitionObjects]
      /\ \A j \in PartitionKeys \ {k} : rewriting'[j] = rewriting[j]
  BY <1>1, ObjectVersions, RewriteParts DEF RewriteInv
<1>4. RewriteTypeOK'
  BY <1>1, <1>2, <1>3, RewriteParts, Zenon DEF RewriteInv, RewriteTypeOK, Jobs, RewriteHistories
<1>5. OthersKeep(k)
  BY <1>1, <1>2, <1>3 DEF OthersKeep
<1>6. ThreadHolds(k)' /\ ThreadEnds(k)'
  BY <1>2 DEF ThreadHolds, Holding, ThreadEnds
<1>8. PartitionInv(k)'
  BY <1>1, <1>6, Running, Zenon DEF PartitionInv, Versions
<1> QED BY <1>4, <1>5, <1>8, OnePartition

\* A thread that ends well has seen a current object.
LEMMA ReadBackKeeps ==
  ASSUME RewriteInv, NEW k \in PartitionKeys, ReadBack(k)
  PROVE  RewriteInv'
<1>1. /\ rewriter[k].at = "check"
      /\ UNCHANGED <<live, backups, rewriting, shippedDay, rewrite>>
      /\ \/ live[k].version = 1 /\ Ends(k, "written") /\ FoundCurrent(k)
         \/ Ends(k, "failed") /\ UNCHANGED rewriteHistory
  BY Zenon DEF ReadBack, ThreadAt
<1>2. CASE live[k].version = 1 /\ Ends(k, "written") /\ FoundCurrent(k)
  BY <1>1, <1>2, EndingKeeps
<1>3. CASE Ends(k, "failed") /\ UNCHANGED rewriteHistory
  BY <1>1, <1>3, RewriteParts, EndingKeeps DEF RewriteInv
<1> QED BY <1>1, <1>2, <1>3, Zenon

\* A failed request leaves every object as it is.
LEMMA RequestFailsKeeps ==
  ASSUME RewriteInv, NEW k \in PartitionKeys, RewriteFails(k)
  PROVE  RewriteInv'
<1>1. /\ rewriteHistory' \in RewriteHistories
      /\ rewriteHistory'.overtaken = rewriteHistory.overtaken
      /\ rewriteHistory'.backed = rewriteHistory.backed
      /\ rewriteHistory'.reverted = rewriteHistory.reverted
  BY HistoryFields DEF RewriteFails, RewriteHistories
<1> QED BY <1>1, EndingKeeps DEF RewriteFails

-----------------------------------------------------------------------------
(* The job's own steps.                                                    *)

\* Threads of a run that starts or is over hold nothing.
LEMMA NewThreads ==
  ASSUME NEW listed
  PROVE  /\ [k \in PartitionKeys |-> IF k \in listed THEN Queued ELSE NoThread]
               \in [PartitionKeys -> Threads]
         /\ Queued.at = "queued" /\ NoThread.at = "none"
<1>1. Queued \in Threads /\ NoThread \in Threads
  BY ObjectVersions DEF Queued, NoThread, Threads
<1> QED BY <1>1 DEF Queued, NoThread

(* Threads that are not running yet, or none, ask nothing of a partition.  *)
LEMMA FreshThreads ==
  ASSUME RewriteInv,
         UNCHANGED <<live, backups, rewriting, shippedDay>>,
         rewriteHistory'.overtaken = rewriteHistory.overtaken,
         rewriteHistory'.backed = rewriteHistory.backed,
         \A k \in PartitionKeys : rewriter'[k].at \in {"none", "queued"}
  PROVE  \A k \in PartitionKeys : PartitionInv(k)'
<1> SUFFICES ASSUME NEW k \in PartitionKeys PROVE PartitionInv(k)'
  OBVIOUS
<1>1. rewriter'[k].at \in {"none", "queued"}
  OBVIOUS
<1>2. ThreadHolds(k)' /\ ThreadEnds(k)'
  BY <1>1 DEF ThreadHolds, Holding, ThreadEnds
<1> QED BY <1>2, Running, Zenon DEF PartitionInv, Versions

\* A run starts.
LEMMA StartKeeps ==
  ASSUME RewriteInv, NEW mode \in {"footers", "dry", "apply"}, NEW backup \in BOOLEAN,
         StartRewrite(mode, backup)
  PROVE  RewriteInv'
<1> DEFINE listed == {k \in PartitionKeys : live[k] # NoObject}
<1>1. /\ rewrite' = [at |-> "running", mode |-> mode, backup |-> backup, listed |-> listed]
      /\ rewriter' = [k \in PartitionKeys |-> IF k \in listed THEN Queued ELSE NoThread]
      /\ UNCHANGED <<live, backups, rewriting, shippedDay>>
  BY Zenon DEF StartRewrite
<1>2. /\ rewriteHistory' \in RewriteHistories
      /\ rewriteHistory'.overtaken = rewriteHistory.overtaken
      /\ rewriteHistory'.backed = rewriteHistory.backed
  <2> DEFINE count == rewriteHistory.runs + 1
             begun == [shipments |-> rewriteHistory.shipments, runs |-> count,
                       faults |-> rewriteHistory.faults,
                       overtaken |-> rewriteHistory.overtaken,
                       backed |-> rewriteHistory.backed, reverted |-> {}]
  <2>1. count \in Nat
    BY HistoryFields
  <2>2. rewriteHistory' = [rewriteHistory EXCEPT !.runs = count, !.reverted = {}]
    BY Zenon DEF StartRewrite
  <2> HIDE DEF count
  <2>3. rewriteHistory' = begun
    BY <2>2, HistoryFields
  <2>4. begun \in RewriteHistories
    BY <2>1, HistoryFields DEF RewriteHistories
  <2> QED BY <2>3, <2>4
<1>l. listed \subseteq PartitionKeys
  OBVIOUS
<1> HIDE DEF listed
<1>3. rewrite' \in Jobs /\ rewrite'.at = "running" /\ rewrite'.listed = listed
  BY <1>1, <1>l DEF Jobs
<1>4. /\ rewriter' \in [PartitionKeys -> Threads]
      /\ \A k \in PartitionKeys : rewriter'[k].at \in {"none", "queued"}
      /\ \A k \in PartitionKeys \ listed : rewriter'[k].at = "none"
  BY <1>1, NewThreads
<1>5. RewriteTypeOK'
  BY <1>1, <1>2, <1>3, <1>4, RewriteParts, Zenon DEF RewriteInv, RewriteTypeOK, Jobs, RewriteHistories
<1>6. ExitIsTrue'
  BY <1>3, <1>4 DEF ExitIsTrue
<1>7. \A k \in PartitionKeys : PartitionInv(k)'
  BY <1>1, <1>2, <1>4, FreshThreads
<1> QED BY <1>5, <1>6, <1>7, Zenon DEF RewriteInv

\* A run that reports success has no failed partition, and so no stale one.
LEMMA ReportKeeps ==
  ASSUME RewriteInv, ReportRewrite
  PROVE  RewriteInv'
<1> DEFINE code == IF \E k \in rewrite.listed : rewriter[k].outcome = "failed" THEN "exit 1" ELSE "exit 0"
<1>1. /\ \A k \in rewrite.listed : rewriter[k].at = "done"
      /\ rewrite' = [rewrite EXCEPT !.at = code]
      /\ UNCHANGED <<live, backups, rewriting, shippedDay, rewriter, rewriteHistory>>
  BY Zenon DEF ReportRewrite, ThreadAt
<1>2. /\ code \in {"exit 0", "exit 1"}
      /\ code = "exit 0" => \A k \in rewrite.listed : rewriter[k].outcome # "failed"
  BY Zenon
<1> HIDE DEF code
<1>3. rewrite' \in Jobs /\ rewrite'.at = code /\ rewrite'.listed = rewrite.listed
      /\ rewrite'.mode = rewrite.mode /\ rewrite'.backup = rewrite.backup
  BY <1>1, <1>2, RewriteParts DEF RewriteInv, Jobs
<1>4. RewriteTypeOK'
  BY <1>1, <1>3, RewriteParts, Zenon DEF RewriteInv, RewriteTypeOK, Jobs, RewriteHistories
<1>5. ExitIsTrue'
  BY <1>1, <1>2, <1>3 DEF ExitIsTrue, RewriteInv
<1>6. ASSUME NEW k \in PartitionKeys PROVE PartitionInv(k)'
  <2>1. PartitionInv(k)
    BY Running
  <2>2. ThreadHolds(k)' /\ ThreadEnds(k)'
    BY <1>1, <1>3, <2>1, Zenon DEF PartitionInv, ThreadHolds, ThreadEnds
  <2> QED BY <1>1, <2>1, <2>2, Zenon DEF PartitionInv, Versions
<1> QED BY <1>4, <1>5, <1>6, Zenon DEF RewriteInv

\* A run that is over, or was killed, leaves the objects.
LEMMA RestedKeeps ==
  ASSUME RewriteInv, Rested, rewriteHistory' \in RewriteHistories,
         rewriteHistory'.overtaken = rewriteHistory.overtaken,
         rewriteHistory'.backed = rewriteHistory.backed
  PROVE  RewriteInv'
<1>1. /\ rewriter' = [k \in PartitionKeys |-> NoThread]
      /\ rewrite' = NoRewrite
      /\ UNCHANGED <<live, backups, rewriting, shippedDay>>
  BY Zenon DEF Rested
<1>2. NoThread \in Threads /\ NoThread.at = "none"
  BY ObjectVersions DEF NoThread, Threads
<1>3. rewrite' \in Jobs /\ rewrite'.at = "idle"
  BY <1>1 DEF NoRewrite, Jobs
<1>4. /\ rewriter' \in [PartitionKeys -> Threads]
      /\ \A k \in PartitionKeys : rewriter'[k].at = "none"
  BY <1>1, <1>2
<1>5. RewriteTypeOK'
  BY <1>1, <1>3, <1>4, RewriteParts, Zenon DEF RewriteInv, RewriteTypeOK, Jobs, RewriteHistories
<1>6. ExitIsTrue'
  BY <1>3, <1>4 DEF ExitIsTrue
<1>7. \A k \in PartitionKeys : PartitionInv(k)'
  BY <1>1, <1>4, FreshThreads
<1> QED BY <1>5, <1>6, <1>7, Zenon DEF RewriteInv

\* Every step keeps the invariant.
LEMMA RewriteSteps ==
  ASSUME RewriteInv, [RewriteNext]_rewriteVars
  PROVE  RewriteInv'
<1>1. CASE UNCHANGED rewriteVars
  <2>1. UNCHANGED <<live, backups, rewriting, shippedDay, rewriter, rewrite, rewriteHistory>>
    BY <1>1, Zenon DEF rewriteVars
  <2>2. RewriteTypeOK' /\ ExitIsTrue'
    BY <2>1, Zenon DEF RewriteInv, RewriteTypeOK, ExitIsTrue
  <2>3. ASSUME NEW k \in PartitionKeys PROVE PartitionInv(k)'
    <3>1. PartitionInv(k)
      BY Zenon DEF RewriteInv
    <3>2. ThreadHolds(k)'
      BY <3>1, <2>1, Zenon DEF PartitionInv, ThreadHolds
    <3>3. ThreadEnds(k)'
      BY <3>1, <2>1, Zenon DEF PartitionInv, ThreadEnds
    <3> QED BY <3>1, <3>2, <3>3, <2>1, Zenon DEF PartitionInv, Versions
  <2> QED BY <2>2, <2>3, Zenon DEF RewriteInv
<1>2. ASSUME NEW k \in PartitionKeys,
             \/ \E day \in MetadataDays, image \in {"old", "new"} : ShipPartition(k, day, image)
             \/ Open(k) \/ BackUp(k) \/ Upload(k) \/ Copy(k) \/ DeleteTemporary(k)
             \/ ReadBack(k) \/ RewriteFails(k)
      PROVE  RewriteInv'
  BY <1>2, ShipKeeps, OpenKeeps, BackUpKeeps, UploadKeeps, CopyKeeps, DeleteTemporaryKeeps,
     ReadBackKeeps, RequestFailsKeeps
<1>3. CASE \E mode \in {"footers", "dry", "apply"}, backup \in BOOLEAN : StartRewrite(mode, backup)
  BY <1>3, StartKeeps
<1>4. CASE ReportRewrite
  BY <1>4, ReportKeeps
<1>5. CASE RewriteRests
  BY <1>5, RestedKeeps, RewriteParts DEF RewriteRests, RewriteInv
<1>6. CASE RewriteDies
  <2>1. /\ rewriteHistory' \in RewriteHistories
        /\ rewriteHistory'.overtaken = rewriteHistory.overtaken
        /\ rewriteHistory'.backed = rewriteHistory.backed
    BY <1>6, HistoryFields DEF RewriteDies, RewriteHistories
  <2> QED BY <1>6, <2>1, RestedKeeps DEF RewriteDies
<1> QED BY <1>1, <1>2, <1>3, <1>4, <1>5, <1>6, Zenon DEF RewriteNext

\* The invariant is as strong as the property.
LEMMA RewriteInvSound ==
  ASSUME RewriteInv
  PROVE  RewriteSound
<1>1. LiveIsWhatWasShipped
  BY Zenon DEF RewriteInv, PartitionInv, LiveIsWhatWasShipped
<1>2. OriginalsAreBackedUp
  BY HistoryFields, Running DEF PartitionInv, OriginalsAreBackedUp
<1>3. CleanRunLeavesNoneStale
  <2> SUFFICES ASSUME rewrite.at = "exit 0", rewrite.mode = "apply",
                      NEW k \in rewrite.listed \ rewriteHistory.reverted
               PROVE  live[k].version = 1
    BY Zenon DEF CleanRunLeavesNoneStale
  <2>1. k \in PartitionKeys
    BY RewriteParts DEF RewriteInv, Jobs
  <2>2. rewriter[k].at = "done" /\ rewriter[k].outcome # "failed"
    BY DEF RewriteInv, ExitIsTrue
  <2>3. ThreadEnds(k)
    BY <2>1, Running DEF PartitionInv
  <2> QED BY <2>2, <2>3 DEF ThreadEnds
<1> QED BY <1>1, <1>2, <1>3, Zenon DEF RewriteSound, RewriteInv

(* rewrite_metadata_schema.py, for any partitions, days, threads and       *)
(* faults: beside any number of shipments, a partition is what a rollup    *)
(* makes of the day last shipped (unless that shipment came between a      *)
(* read and its copy), its original is in the backup, and a run that says  *)
(* it went well leaves no stale one behind.                                *)
THEOREM RewriteStaysSound == RewriteSpec => []RewriteSound
<1>1. RewriteInit => RewriteInv
  BY RewriteInitially
<1>2. RewriteInv /\ [RewriteNext]_rewriteVars => RewriteInv'
  BY RewriteSteps
<1>3. RewriteInv => RewriteSound
  BY RewriteInvSound
<1> QED BY <1>1, <1>2, <1>3, PTL DEF RewriteSpec

-----------------------------------------------------------------------------
(* The migration of the curated files.                                     *)

(* A canonical column is read from the column of that name, or from the    *)
(* flat one that is renamed to it.                                         *)
LEMMA RenamedTo ==
  ASSUME NEW c \in Columns, NEW m
  PROVE  Rename(m) = Canonical(c) <=> m = Canonical(c) \/ (c \in FlatColumns /\ m = Flat(c))
<1> DEFINE flat == {Flat(d) : d \in FlatColumns}
<1>0. Stamp \notin FlatColumns
  BY MigrationAssumption
<1>1. CASE m \in flat
  <2>1. PICK d \in FlatColumns : m = Flat(d)
    BY <1>1
  <2>2. m[2] = d /\ m # Dotted(c)
    BY <2>1 DEF Flat, Dotted
  <2>3. Rename(m) = Dotted(d)
    BY <1>1, <2>2, Zenon DEF Rename
  <2>4. /\ Dotted(d) = Dotted(c) <=> d = c
        /\ Flat(d) = Flat(c) <=> d = c
        /\ Dotted(d) # Flat(c) /\ Flat(d) # Flat(Stamp)
    BY <1>0 DEF Dotted, Flat
  <2> QED BY <1>0, <2>1, <2>2, <2>3, <2>4, Zenon DEF Canonical
<1>2. CASE m \notin flat
  <2>1. Rename(m) = m
    BY <1>2, Zenon DEF Rename
  <2>2. ~(c \in FlatColumns /\ m = Flat(c))
    BY <1>2, Zenon
  <2> QED BY <2>1, <2>2, Zenon
<1> QED BY <1>1, <1>2

(* Migrating a file keeps what can be read from it.                        *)
LEMMA MigratedData ==
  ASSUME NEW file, ~Ambiguous(file), NEW c \in Columns
  PROVE  DataOf(MigrateTable(file), c) = DataOf(file, c)
<1> DEFINE n == Canonical(c)
           from == CHOOSE m \in DOMAIN file : Rename(m) = n
<1>1. n \in Schema
  BY Zenon DEF Schema
<1>2. DataOf(MigrateTable(file), c) = MigrateTable(file)[n]
  <2>1. DOMAIN MigrateTable(file) = Schema
    BY Zenon DEF MigrateTable
  <2> QED BY <1>1, <2>1, Zenon DEF DataOf
<1>3. MigrateTable(file)[n] =
        IF \E m \in DOMAIN file : Rename(m) = n THEN file[from] ELSE NoData
  BY <1>1, Zenon DEF MigrateTable
<1>4. \A m, k \in DOMAIN file : Rename(m) = n /\ Rename(k) = n => m = k
  BY <1>1, Zenon DEF Ambiguous
<1>5. CASE n \in DOMAIN file
  <2>1. Rename(n) = n
    BY RenamedTo, Zenon
  <2>2. from = n
    BY <1>4, <1>5, <2>1, Zenon
  <2> QED BY <1>2, <1>3, <1>5, <2>1, <2>2, Zenon DEF DataOf
<1>6. CASE n \notin DOMAIN file /\ c \in FlatColumns /\ Flat(c) \in DOMAIN file
  <2>1. Rename(Flat(c)) = n
    BY <1>6, RenamedTo, Zenon
  <2>2. from = Flat(c)
    BY <1>4, <1>6, <2>1, Zenon
  <2> QED BY <1>2, <1>3, <1>6, <2>1, <2>2, Zenon DEF DataOf
<1>7. CASE n \notin DOMAIN file /\ ~(c \in FlatColumns /\ Flat(c) \in DOMAIN file)
  <2>1. ~ \E m \in DOMAIN file : Rename(m) = n
    BY <1>7, RenamedTo, Zenon
  <2> QED BY <1>2, <1>3, <1>7, <2>1, Zenon DEF DataOf
<1> QED BY <1>5, <1>6, <1>7, Zenon

(* A file that is taken to be migrated has no flat name but the stamp's.   *)
LEMMA DottedHasNoFlat ==
  ASSUME NEW names, IsFiniteSet(names), Flat(Stamp) \in names, Classify(names) = "DOTTED",
         NEW c \in FlatColumns
  PROVE  Flat(c) \notin names
<1> DEFINE dotted == {n \in names : IsDotted(n)}
           rest == names \ {Flat(Stamp)}
<1>1. Cardinality(dotted) = Cardinality(names) - 1
  BY Zenon DEF Classify
<1>2. IsFiniteSet(rest) /\ Cardinality(rest) = Cardinality(names) - 1
  BY FS_RemoveElement
<1>3. ~IsDotted(Flat(Stamp)) /\ ~IsDotted(Flat(c)) /\ Flat(c) # Flat(Stamp)
  BY MigrationAssumption DEF IsDotted, Flat
<1>4. dotted \subseteq rest
  BY <1>3
<1>5. dotted = rest
  BY <1>1, <1>2, <1>4, FS_Subset
<1> QED BY <1>3, <1>5

(* The canonical columns are taken to be migrated.                         *)
LEMMA SchemaIsDotted == Classify(Schema) = "DOTTED"
<1> DEFINE dotted == {n \in Schema : IsDotted(n)}
           names == [c \in Columns |-> Canonical(c)]
<1>1. IsFiniteSet(Schema)
  <2>1. names \in Surjection(Columns, Schema)
    BY DEF Surjection, Schema
  <2> QED BY <2>1, MigrationAssumption, FS_Surjection
<1>2. \A c \in Columns : IsDotted(Canonical(c)) <=> c # Stamp
  BY DEF Canonical, IsDotted, Flat, Dotted
<1>3. Flat(Stamp) \in Schema /\ ~IsDotted(Flat(Stamp))
  BY MigrationAssumption, <1>2 DEF Schema, Canonical
<1>4. dotted = Schema \ {Flat(Stamp)}
  <2>1. \A n \in Schema : IsDotted(n) <=> n # Flat(Stamp)
    BY <1>2, <1>3, Zenon DEF Schema, Canonical
  <2> QED BY <2>1
<1>5. Cardinality(dotted) = Cardinality(Schema) - 1
  BY <1>1, <1>3, <1>4, FS_RemoveElement
<1>6. dotted # {}
  <2>1. PICK c \in FlatColumns : c \in Columns /\ c # Stamp
    BY MigrationAssumption
  <2> QED BY <2>1, <1>2, Zenon DEF Schema
<1> QED BY <1>5, <1>6, Zenon DEF Classify

-----------------------------------------------------------------------------
(* The invariant of one file: it is as the rollup wrote it, or migrated;   *)
(* a thread that writes does so for a file as it was, and one that is done *)
(* without an error leaves no flat name.                                   *)
NoFlatName(file) == \A c \in FlatColumns : Flat(c) \notin DOMAIN file

FileInv(f) ==
  /\ \/ curated[f] = originals[f]
     \/ curated[f] = MigrateTable(originals[f]) /\ ~Ambiguous(originals[f])
  /\ migrator[f].at \in {"write", "replace"} =>
       curated[f] = originals[f] /\ ~Ambiguous(originals[f])
  /\ migrator[f].at = "replace" => aside[f] = MigrateTable(originals[f])
  /\ migrator[f].at = "done" =>
       /\ migrator[f].result \in {"skip", "migrated"} => NoFlatName(curated[f])
       /\ migration \in {"apply", "applied"} => migrator[f].result # "would-migrate"
       /\ migrator[f].result # "none"
  /\ migration \in {"previewed", "applied"} => migrator[f].at = "done"

MigrationInv == MigrationTypeOK /\ \A f \in CuratedFiles : FileInv(f)

MigratorSteps == {"none", "queued", "write", "replace", "done"}
Migrators == [at : MigratorSteps, result : {"none", "skip", "would-migrate", "migrated", "error"}]

\* The types of the variables, one by one.
LEMMA MigrationParts ==
  MigrationTypeOK <=>
    /\ originals \in [CuratedFiles -> EraFiles] /\ curated \in [CuratedFiles -> Tables]
    /\ aside \in [CuratedFiles -> Asides] /\ migrator \in [CuratedFiles -> Migrators]
    /\ migration \in {"idle", "dry", "apply", "previewed", "applied"}
    /\ migrations \in Nat /\ migrationFaults \in Nat
<1> QED BY Zenon DEF MigrationTypeOK, Migrators, MigratorSteps

\* A migrated file has the canonical columns and no flat name.
LEMMA MigratedHasNoFlat == \A file : NoFlatName(MigrateTable(file)) /\ DOMAIN MigrateTable(file) = Schema
<1>1. ASSUME NEW file PROVE DOMAIN MigrateTable(file) = Schema
  BY Zenon DEF MigrateTable
<1>2. \A c \in FlatColumns : Flat(c) \notin Schema
  <2> SUFFICES ASSUME NEW c \in FlatColumns, NEW d \in Columns, Flat(c) = Canonical(d) PROVE FALSE
    BY Zenon DEF Schema
  <2>1. c # Stamp
    BY MigrationAssumption
  <2> QED BY <2>1 DEF Canonical, Flat, Dotted
<1> QED BY <1>1, <1>2, Zenon DEF NoFlatName

\* The invariant holds before the first run.
LEMMA MigrationInitially ==
  ASSUME MigrationInit PROVE MigrationInv
<1> USE DEF MigrationInit
<1>1. curated \in [CuratedFiles -> Tables] /\ \A f \in CuratedFiles : curated[f] = originals[f]
  BY DEF Tables
<1>2. Unqueued \in Migrators /\ Unqueued.at = "none"
  BY DEF Unqueued, Migrators, MigratorSteps
<1>3. MigrationTypeOK
  BY <1>1, <1>2, MigrationParts DEF Asides
<1>4. \A f \in CuratedFiles : FileInv(f)
  BY <1>1, <1>2 DEF FileInv
<1> QED BY <1>3, <1>4 DEF MigrationInv

(* An action at one file leaves the others and the run alone.              *)
LEMMA OneFile ==
  ASSUME MigrationInv, NEW f \in CuratedFiles, FileInv(f)',
         curated' \in [CuratedFiles -> Tables], aside' \in [CuratedFiles -> Asides],
         migrator' \in [CuratedFiles -> Migrators], migrationFaults' \in Nat,
         UNCHANGED <<originals, migration, migrations>>,
         \A g \in CuratedFiles \ {f} :
           curated'[g] = curated[g] /\ aside'[g] = aside[g] /\ migrator'[g] = migrator[g]
  PROVE  MigrationInv'
<1>1. ASSUME NEW g \in CuratedFiles \ {f} PROVE FileInv(g)'
  <2>1. FileInv(g)
    BY <1>1, Zenon DEF MigrationInv
  <2>2. /\ curated'[g] = curated[g] /\ aside'[g] = aside[g] /\ migrator'[g] = migrator[g]
        /\ originals' = originals /\ migration' = migration
    BY <1>1, Zenon
  <2> QED BY <2>1, <2>2, ZenonT(30) DEF FileInv
<1>2. MigrationTypeOK'
  <2>1. /\ originals' \in [CuratedFiles -> EraFiles]
        /\ migration' \in {"idle", "dry", "apply", "previewed", "applied"}
        /\ migrations' \in Nat
    BY MigrationParts DEF MigrationInv
  <2> QED BY <2>1, Zenon DEF MigrationTypeOK, Migrators, MigratorSteps
<1> QED BY <1>1, <1>2, Zenon DEF MigrationInv

\* What a thread that ends leaves in its place.
LEMMA FileDone ==
  ASSUME MigrationInv, NEW f \in CuratedFiles, NEW result, FileEnds(f, result),
         result \in {"skip", "would-migrate", "migrated", "error"}
  PROVE  /\ migrator' \in [CuratedFiles -> Migrators]
         /\ migrator'[f].at = "done" /\ migrator'[f].result = result
         /\ \A g \in CuratedFiles \ {f} : migrator'[g] = migrator[g]
<1> DEFINE thread == [at |-> "done", result |-> result]
<1>1. thread \in Migrators /\ thread.at = "done" /\ thread.result = result
  BY DEF Migrators, MigratorSteps
<1>2. migrator' = [migrator EXCEPT ![f] = thread]
  BY Zenon DEF FileEnds
<1> HIDE DEF thread
<1> QED BY <1>1, <1>2, MigrationParts DEF MigrationInv

(* A thread that ends where it leaves the file alone.                      *)
LEMMA FileInvDone ==
  ASSUME NEW f \in CuratedFiles, FileInv(f), UNCHANGED <<curated, originals, migration>>,
         migrator'[f].at = "done",
         \/ migrator'[f].result = "error"
         \/ migrator'[f].result = "would-migrate" /\ migration \notin {"apply", "applied"}
         \/ migrator'[f].result = "skip" /\ NoFlatName(curated[f])
  PROVE  FileInv(f)'
<1>1. \/ curated'[f] = originals'[f]
      \/ curated'[f] = MigrateTable(originals'[f]) /\ ~Ambiguous(originals'[f])
  BY Zenon DEF FileInv
<1>2. migrator'[f].result \in {"skip", "migrated"} => NoFlatName(curated'[f])
  BY SMT
<1>3. /\ migration' \in {"apply", "applied"} => migrator'[f].result # "would-migrate"
      /\ migrator'[f].result # "none"
  BY SMT
<1> QED BY <1>1, <1>2, <1>3 DEF FileInv

\* What a thread that goes on leaves in its place.
LEMMA FileGoesOn ==
  ASSUME MigrationInv, NEW f \in CuratedFiles, NEW step \in {"write", "replace"},
         migrator' = [migrator EXCEPT ![f].at = step]
  PROVE  /\ migrator' \in [CuratedFiles -> Migrators]
         /\ migrator'[f].at = step
         /\ \A g \in CuratedFiles \ {f} : migrator'[g] = migrator[g]
<1> DEFINE thread == [migrator[f] EXCEPT !.at = step]
<1>0. migrator[f] \in Migrators
  BY MigrationParts DEF MigrationInv
<1>1. thread \in Migrators /\ thread.at = step
  BY <1>0 DEF Migrators, MigratorSteps
<1>2. migrator' = [migrator EXCEPT ![f] = thread]
  BY Zenon
<1> HIDE DEF thread
<1> QED BY <1>1, <1>2, MigrationParts DEF MigrationInv

\* A file that is skipped has no flat name, and one that is migrated is as it was.
LEMMA ReadSchemaKeeps ==
  ASSUME MigrationInv, NEW f \in CuratedFiles, ReadSchema(f)
  PROVE  MigrationInv'
<1> DEFINE era == Classify(DOMAIN curated[f])
<1>t. /\ curated \in [CuratedFiles -> Tables] /\ aside \in [CuratedFiles -> Asides]
      /\ migrationFaults \in Nat
  BY MigrationParts DEF MigrationInv
<1>0. /\ UNCHANGED <<curated, aside, originals, migration, migrations, migrationFaults>>
      /\ migrator[f].at = "queued" /\ FileInv(f)
  BY Zenon DEF ReadSchema, MigrationInv
<1>1. CASE era = "DOTTED" /\ FileEnds(f, "skip")
  <2>1. NoFlatName(curated[f])
    <3>1. CASE curated[f] = MigrateTable(originals[f])
      BY <3>1, MigratedHasNoFlat
    <3>2. CASE curated[f] = originals[f]
      <4>1. curated[f] \in EraFiles
        BY <3>2, MigrationParts DEF MigrationInv
      <4> QED BY <1>1, <4>1, DottedHasNoFlat, MigrationAssumption DEF NoFlatName
    <3> QED BY <1>0, <3>1, <3>2 DEF FileInv
  <2>2. FileInv(f)'
    <3>1. migrator'[f].at = "done" /\ migrator'[f].result = "skip"
      BY <1>1, FileDone
    <3> QED BY <1>0, <2>1, <3>1, FileInvDone
  <2> QED BY <1>0, <1>1, <2>2, <1>t, FileDone, OneFile
<1>2. ASSUME NEW result \in {"would-migrate", "error"}, FileEnds(f, result),
             result = "would-migrate" => migration = "dry"
      PROVE  MigrationInv'
  <2>2. FileInv(f)'
    <3>1. migrator'[f].at = "done" /\ migrator'[f].result = result
      BY <1>2, FileDone
    <3>2. migration = "dry" \/ result = "error"
      BY <1>2
    <3> QED BY <1>0, <3>1, <3>2, FileInvDone
  <2> QED BY <1>0, <1>2, <2>2, <1>t, FileDone, OneFile
<1>3. ASSUME era # "DOTTED", ~Ambiguous(curated[f]), migrator' = [migrator EXCEPT ![f].at = "write"]
      PROVE  MigrationInv'
  <2>1. curated[f] # MigrateTable(originals[f])
    BY <1>3, SchemaIsDotted, MigratedHasNoFlat
  <2>2. FileInv(f)'
    BY <1>0, <1>3, <2>1, FileGoesOn, Zenon DEF FileInv
  <2> QED BY <1>0, <1>3, <2>2, <1>t, FileGoesOn, OneFile
<1> QED BY <1>1, <1>2, <1>3 DEF ReadSchema

\* What is written aside is the migrated file.
LEMMA WriteAsideKeeps ==
  ASSUME MigrationInv, NEW f \in CuratedFiles, WriteAside(f)
  PROVE  MigrationInv'
<1>t. /\ curated \in [CuratedFiles -> Tables] /\ aside \in [CuratedFiles -> Asides]
      /\ migrationFaults \in Nat
  BY MigrationParts DEF MigrationInv
<1>0. /\ UNCHANGED <<curated, originals, migration, migrations, migrationFaults>>
      /\ migrator[f].at = "write" /\ FileInv(f)
      /\ migrator' = [migrator EXCEPT ![f].at = "replace"]
      /\ aside' = [aside EXCEPT ![f] = MigrateTable(curated[f])]
  BY Zenon DEF WriteAside, MigrationInv
<1>1. /\ aside' \in [CuratedFiles -> Asides] /\ aside'[f] = MigrateTable(curated[f])
      /\ \A g \in CuratedFiles \ {f} : aside'[g] = aside[g]
  BY <1>0, MigrationParts DEF MigrationInv, Asides
<1>2. FileInv(f)'
  <2>1. migrator'[f].at = "replace"
    BY <1>0, FileGoesOn
  <2>2. migration \notin {"previewed", "applied"}
    BY <1>0 DEF FileInv
  <2>3. curated'[f] = originals'[f] /\ ~Ambiguous(originals'[f])
    BY <1>0, Zenon DEF FileInv
  <2>4. aside'[f] = MigrateTable(originals'[f])
    BY <1>0, <1>1, Zenon DEF FileInv
  <2> QED BY <1>0, <2>1, <2>2, <2>3, <2>4 DEF FileInv
<1> QED BY <1>0, <1>1, <1>2, <1>t, FileGoesOn, OneFile

\* The migrated file takes the place of the one it was made of.
LEMMA ReplaceKeeps ==
  ASSUME MigrationInv, NEW f \in CuratedFiles, Replace(f)
  PROVE  MigrationInv'
<1>t. /\ curated \in [CuratedFiles -> Tables] /\ aside \in [CuratedFiles -> Asides]
      /\ migrationFaults \in Nat
  BY MigrationParts DEF MigrationInv
<1>0. /\ UNCHANGED <<originals, migration, migrations, migrationFaults>>
      /\ migrator[f].at = "replace" /\ FileInv(f) /\ FileEnds(f, "migrated")
      /\ curated' = [curated EXCEPT ![f] = aside[f]]
      /\ aside' = [aside EXCEPT ![f] = NoParquet]
  BY Zenon DEF Replace, MigrationInv
<1>1. aside[f] = MigrateTable(originals[f]) /\ ~Ambiguous(originals[f])
  BY <1>0 DEF FileInv
<1>2. MigrateTable(originals[f]) \in Tables
  BY MigrationParts DEF MigrationInv, Tables
<1>3. /\ curated' \in [CuratedFiles -> Tables] /\ curated'[f] = MigrateTable(originals[f])
      /\ \A g \in CuratedFiles \ {f} : curated'[g] = curated[g]
  BY <1>0, <1>1, <1>2, MigrationParts DEF MigrationInv
<1>4. /\ aside' \in [CuratedFiles -> Asides]
      /\ \A g \in CuratedFiles \ {f} : aside'[g] = aside[g]
  BY <1>0, MigrationParts DEF MigrationInv, Asides
<1>5. FileInv(f)'
  <2>1. migrator'[f].at = "done" /\ migrator'[f].result = "migrated"
    BY <1>0, FileDone
  <2>2. NoFlatName(curated'[f])
    BY <1>3, MigratedHasNoFlat
  <2>3. curated'[f] = MigrateTable(originals'[f]) /\ ~Ambiguous(originals'[f])
    BY <1>0, <1>1, <1>3
  <2> QED BY <2>1, <2>2, <2>3 DEF FileInv
<1> QED BY <1>0, <1>3, <1>4, <1>5, <1>t, FileDone, OneFile

\* A thread that fails leaves its file alone.
LEMMA MigrateFailsKeeps ==
  ASSUME MigrationInv, NEW f \in CuratedFiles, MigrateFails(f)
  PROVE  MigrationInv'
<1>t. /\ curated \in [CuratedFiles -> Tables] /\ aside \in [CuratedFiles -> Asides]
      /\ migrationFaults \in Nat
  BY MigrationParts DEF MigrationInv
<1>0. /\ UNCHANGED <<curated, aside, originals, migration, migrations>>
      /\ migrationFaults' = migrationFaults + 1 /\ FileInv(f) /\ FileEnds(f, "error")
  BY Zenon DEF MigrateFails, MigrationInv
<1>1. migrationFaults' \in Nat
  BY <1>0, MigrationParts DEF MigrationInv
<1>2. FileInv(f)'
  <2>1. migrator'[f].at = "done" /\ migrator'[f].result = "error"
    BY <1>0, FileDone
  <2> QED BY <1>0, <2>1, FileInvDone
<1> QED BY <1>0, <1>1, <1>2, <1>t, FileDone, OneFile

(* The run's own steps.                                                    *)
LEMMA RunKeeps ==
  ASSUME MigrationInv, UNCHANGED <<curated, aside, originals>>,
         migrations' \in Nat, migrationFaults' \in Nat,
         migration' \in {"idle", "dry", "apply", "previewed", "applied"},
         \/ /\ UNCHANGED migrator
            /\ migration' \in {"previewed", "applied"} => \A f \in CuratedFiles : migrator[f].at = "done"
            /\ migration' = "applied" => migration = "apply"
            /\ migration' # "apply"
         \/ /\ migration' \in {"idle", "dry", "apply"}
            /\ \E step \in {"none", "queued"} :
                 migrator' = [f \in CuratedFiles |-> [at |-> step, result |-> "none"]]
  PROVE  MigrationInv'
<1>1. migrator' \in [CuratedFiles -> Migrators]
  BY MigrationParts DEF MigrationInv, Migrators, MigratorSteps
<1>2. MigrationTypeOK'
  <2>1. /\ originals' \in [CuratedFiles -> EraFiles] /\ curated' \in [CuratedFiles -> Tables]
        /\ aside' \in [CuratedFiles -> Asides]
    BY MigrationParts, Zenon DEF MigrationInv
  <2> QED BY <1>1, <2>1, Zenon DEF MigrationTypeOK, Migrators, MigratorSteps
<1>3. ASSUME NEW f \in CuratedFiles PROVE FileInv(f)'
  <2>1. FileInv(f)
    BY Zenon DEF MigrationInv
  <2>2. CASE UNCHANGED migrator
    BY <2>1, <2>2 DEF FileInv, NoFlatName
  <2>3. CASE migrator'[f].at \in {"none", "queued"} /\ migration' \in {"idle", "dry", "apply"}
    BY <2>1, <2>3 DEF FileInv
  <2> QED BY <2>2, <2>3
<1> QED BY <1>2, <1>3, Zenon DEF MigrationInv

\* Every step keeps the invariant.
LEMMA MigrationSteps ==
  ASSUME MigrationInv, [MigrationNext]_migrationVars
  PROVE  MigrationInv'
<1>n. migrations + 1 \in Nat /\ migrationFaults + 1 \in Nat /\ migrations \in Nat /\ migrationFaults \in Nat
  BY MigrationParts DEF MigrationInv
<1>1. CASE UNCHANGED migrationVars
  BY <1>1, Zenon DEF migrationVars, MigrationInv, MigrationTypeOK, FileInv, NoFlatName
<1>2. ASSUME NEW mode \in {"dry", "apply"}, StartMigration(mode) PROVE MigrationInv'
  BY <1>2, <1>n, RunKeeps DEF StartMigration
<1>3. ASSUME NEW f \in CuratedFiles,
             ReadSchema(f) \/ WriteAside(f) \/ Replace(f) \/ MigrateFails(f)
      PROVE  MigrationInv'
  BY <1>3, ReadSchemaKeeps, WriteAsideKeeps, ReplaceKeeps, MigrateFailsKeeps
<1>4. CASE Tally
  BY <1>4, <1>n, RunKeeps DEF Tally
<1>5. CASE MigrationRests
  BY <1>5, <1>n, RunKeeps DEF MigrationRests
<1>6. CASE MigrationDies
  BY <1>6, <1>n, RunKeeps DEF MigrationDies, Unqueued
<1> QED BY <1>1, <1>2, <1>3, <1>4, <1>5, <1>6, Zenon DEF MigrationNext

\* The invariant is as strong as the property.
LEMMA MigrationInvSound ==
  ASSUME MigrationInv PROVE MigrationSound
<1>f. \A f \in CuratedFiles : FileInv(f)
  BY Zenon DEF MigrationInv
<1>1. EveryColumnKept
  BY <1>f, MigratedData, Zenon DEF EveryColumnKept, FileInv
<1>2. AmbiguousLeftAlone
  BY <1>f, Zenon DEF AmbiguousLeftAlone, FileInv
<1>3. ASSUME NEW f \in CuratedFiles, curated[f] # originals[f]
      PROVE  DOMAIN curated[f] = Schema /\ Classify(DOMAIN curated[f]) = "DOTTED"
  BY <1>f, <1>3, MigratedHasNoFlat, SchemaIsDotted, Zenon DEF FileInv
<1>4. ASSUME migration = "applied", \A f \in CuratedFiles : migrator[f].result # "error",
             NEW f \in CuratedFiles
      PROVE  NoFlatName(curated[f])
  <2>1. migrator[f].at = "done" /\ migrator[f].result \notin {"error", "none", "would-migrate"}
    BY <1>f, <1>4 DEF FileInv
  <2>2. migrator[f].result \in {"none", "skip", "would-migrate", "migrated", "error"}
    BY MigrationParts DEF MigrationInv, Migrators
  <2> QED BY <1>f, <2>1, <2>2 DEF FileInv
<1> QED BY <1>1, <1>2, <1>3, <1>4, Zenon DEF MigrationSound, AppliedRunUnifies, MigrationInv, NoFlatName

(* migrate_rt_schema.py, for any schema, rename map and files: whatever    *)
(* fails, is killed and repeated, no canonical column of any file loses    *)
(* what it was written with, and a run without errors leaves no flat name. *)
THEOREM MigrationStaysSound == MigrationSpec => []MigrationSound
<1>1. MigrationInit => MigrationInv
  BY MigrationInitially
<1>2. MigrationInv /\ [MigrationNext]_migrationVars => MigrationInv'
  BY MigrationSteps
<1>3. MigrationInv => MigrationSound
  BY MigrationInvSound
<1> QED BY <1>1, <1>2, <1>3, PTL DEF MigrationSpec
=============================================================================

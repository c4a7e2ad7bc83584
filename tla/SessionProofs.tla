--------------------------- MODULE SessionProofs ---------------------------
(***************************************************************************)
(* The safety properties of Session for every value of the constants.      *)
(***************************************************************************)
EXTENDS Session, WellFoundedInduction, TLAPS

-----------------------------------------------------------------------------
(* The reporter *)

\* Before the first close nothing flushes; from then on the flush of a formatter
\* waits for a tail that has every report owed to the closes, and it has landed
\* only when its chain was written up to there.  A close is answered only when
\* every flush has landed.
FlushOK ==
  /\ \A i \in Closes : close[i] = "answered" => Landed
  /\ \A f \in Formatters :
       /\ flush[f] # "none" => owed <= tail[f]
       /\ flush[f] = "landed" => tail[f] <= settled[f]
  /\ \A i \in Closes : close[1] = "none" => close[i] = "none"

ReporterInv == ReporterTypeOK /\ FlushOK

\* The reporter's steps keep it; a report emitted only lengthens the chains.
LEMMA ReporterInvariant ==
  ASSUME ReporterInv, ReporterNext \/ ReportEmitted \/ UNCHANGED reporterVars
  PROVE  ReporterInv'
<1> USE ReporterAssumption DEF ReporterInv, ReporterTypeOK, FlushOK, Landed, Closes
<1>1. CASE ReportEmitted
  BY <1>1 DEF ReportEmitted
<1>2. ASSUME NEW f \in Formatters, WriteSettles(f)
      PROVE  ReporterInv'
  BY <1>2 DEF WriteSettles
<1>3. ASSUME NEW f \in Formatters, FlushResumes(f)
      PROVE  ReporterInv'
  <2>1. CASE tail[f] = emitted
    BY <1>3, <2>1 DEF FlushResumes
  <2>2. CASE tail[f] # emitted
    <3>1. /\ tail' = [tail EXCEPT ![f] = emitted]
          /\ UNCHANGED <<emitted, settled, flush, close, owed>>
          /\ flush[f] = "waiting"
      BY <1>3, <2>2 DEF FlushResumes
    <3>2. \A g \in Formatters : /\ flush[g] # "none" => owed <= tail'[g]
                                /\ flush[g] = "landed" => tail'[g] <= settled[g]
      BY <3>1
    <3>3. tail' \in [Formatters -> 0 .. emitted]
      BY <3>1
    <3> QED
      BY <3>1, <3>2, <3>3
  <2> QED
    BY <2>1, <2>2
<1>4. ASSUME NEW i \in Closes, AskClose(i)
      PROVE  ReporterInv'
  BY <1>4 DEF AskClose
<1>5. ASSUME NEW i \in Closes, Answer(i)
      PROVE  ReporterInv'
  BY <1>5 DEF Answer
<1>6. CASE UNCHANGED reporterVars
  BY <1>6 DEF reporterVars
<1> QED
  BY <1>1, <1>2, <1>3, <1>4, <1>5, <1>6 DEF ReporterNext

LEMMA ReporterStep ==
  ASSUME [Next]_vars
  PROVE  ReporterNext \/ ReportEmitted \/ UNCHANGED reporterVars
BY DEF Next, Report, vars

\* CloseAfterReports: no close is answered before every report emitted before the
\* first of them was dealt with by every formatter.
THEOREM ClosesComeAfterReports == Spec => []CloseAfterReports
<1>1. Init => ReporterInv
  BY ReporterAssumption DEF Init, ReporterInit, ReporterInv, ReporterTypeOK, FlushOK, Closes
<1>2. ReporterInv /\ [Next]_vars => ReporterInv'
  BY ReporterInvariant, ReporterStep
<1>3. ReporterInv => CloseAfterReports
  <2> SUFFICES ASSUME ReporterInv, NEW i \in Closes, close[i] = "answered", NEW f \in Formatters
               PROVE  settled[f] >= owed
    BY DEF CloseAfterReports
  <2>1. flush[f] = "landed" /\ owed <= tail[f] /\ tail[f] <= settled[f]
    BY DEF ReporterInv, FlushOK, Landed
  <2> QED
    BY <2>1, ReporterAssumption DEF ReporterInv, ReporterTypeOK
<1> QED
  BY <1>1, <1>2, <1>3, PTL DEF Spec

\* FlushDrains: no flush ends while a report is queued at its formatter.
THEOREM FlushesDrain == Spec => FlushDrains
<1> DEFINE Drains == \A f \in Formatters : flush'[f] = "landed" /\ flush[f] # "landed"
                                             => settled[f] = emitted
<1>1. Init => ReporterInv
  BY ReporterAssumption DEF Init, ReporterInit, ReporterInv, ReporterTypeOK, FlushOK, Closes
<1>2. ReporterInv /\ [Next]_vars => ReporterInv'
  BY ReporterInvariant, ReporterStep
<1>3. ReporterInv /\ [Next]_vars => [Drains]_reporterVars
  <2> SUFFICES ASSUME ReporterInv, ReporterNext \/ ReportEmitted,
                      NEW f \in Formatters, flush'[f] = "landed", flush[f] # "landed"
               PROVE  settled[f] = emitted
    BY ReporterStep
  <2> USE ReporterAssumption DEF ReporterInv, ReporterTypeOK
  <2>1. ASSUME NEW g \in Formatters, FlushResumes(g)
        PROVE  settled[f] = emitted
    BY <2>1 DEF FlushResumes
  <2>2. ASSUME NEW g \in Formatters, WriteSettles(g)
        PROVE  FALSE
    BY <2>2 DEF WriteSettles
  <2>3. ASSUME NEW i \in Closes, AskClose(i)
        PROVE  FALSE
    BY <2>3 DEF AskClose
  <2>4. ASSUME NEW i \in Closes, Answer(i)
        PROVE  FALSE
    BY <2>4 DEF Answer
  <2>5. CASE ReportEmitted
    BY <2>5 DEF ReportEmitted
  <2> QED
    BY <2>1, <2>2, <2>3, <2>4, <2>5 DEF ReporterNext
<1> QED
  BY <1>1, <1>2, <1>3, PTL DEF Spec, FlushDrains

\* What ClosesAnswered rests on, and liveness alone does not say: a close that waits
\* can be answered at once, or some formatter it waits for has a write to settle or a
\* flush to resume.  So only a write that never settles can hold a close, whatever
\* is reported meanwhile.
CloseIsUnderWay ==
  \A i \in Closes : close[i] = "waiting" =>
    \/ Landed
    \/ \E f \in Formatters : /\ flush[f] = "waiting"
                             /\ settled[f] < emitted \/ settled[f] >= tail[f]

\* Once the first close came every formatter has its flush.
EveryoneFlushes ==
  \A i \in Closes : close[i] # "none" => \A f \in Formatters : flush[f] # "none"

THEOREM ClosesUnderWay == Spec => []CloseIsUnderWay
<1>1. Init => ReporterInv /\ EveryoneFlushes
  BY ReporterAssumption
  DEF Init, ReporterInit, ReporterInv, ReporterTypeOK, FlushOK, EveryoneFlushes, Closes
<1>2. ReporterInv /\ [Next]_vars => ReporterInv'
  BY ReporterInvariant, ReporterStep
<1>3. ReporterInv /\ EveryoneFlushes /\ [Next]_vars => EveryoneFlushes'
  <2> SUFFICES ASSUME ReporterInv, EveryoneFlushes,
                      ReporterNext \/ ReportEmitted \/ UNCHANGED reporterVars
               PROVE  EveryoneFlushes'
    BY ReporterStep
  <2> USE DEF EveryoneFlushes, ReporterInv, ReporterTypeOK
  <2>1. ASSUME NEW f \in Formatters, WriteSettles(f)
        PROVE  EveryoneFlushes'
    BY <2>1 DEF WriteSettles
  <2>2. ASSUME NEW f \in Formatters, FlushResumes(f)
        PROVE  EveryoneFlushes'
    BY <2>2 DEF FlushResumes
  <2>3. ASSUME NEW i \in Closes, AskClose(i)
        PROVE  EveryoneFlushes'
    BY <2>3, ReporterAssumption DEF AskClose, Closes
  <2>4. ASSUME NEW i \in Closes, Answer(i)
        PROVE  EveryoneFlushes'
    BY <2>4 DEF Answer
  <2>5. CASE ReportEmitted \/ UNCHANGED reporterVars
    BY <2>5 DEF ReportEmitted, reporterVars
  <2> QED
    BY <2>1, <2>2, <2>3, <2>4, <2>5 DEF ReporterNext
<1>4. ReporterInv /\ EveryoneFlushes => CloseIsUnderWay
  <2> SUFFICES ASSUME ReporterInv, EveryoneFlushes, NEW i \in Closes, close[i] = "waiting", ~Landed
               PROVE  \E f \in Formatters : /\ flush[f] = "waiting"
                                            /\ settled[f] < emitted \/ settled[f] >= tail[f]
    BY DEF CloseIsUnderWay
  <2>1. PICK f \in Formatters : flush[f] # "landed"
    BY DEF Landed
  <2>2. flush[f] = "waiting"
    BY <2>1 DEF EveryoneFlushes, ReporterInv, ReporterTypeOK, FlushOK
  <2>3. settled[f] \in Nat /\ tail[f] \in Nat /\ emitted \in Nat /\ tail[f] <= emitted
    BY ReporterAssumption DEF ReporterInv, ReporterTypeOK
  <2> QED
    BY <2>2, <2>3
<1> QED
  BY <1>1, <1>2, <1>3, <1>4, PTL DEF Spec

-----------------------------------------------------------------------------
(* The loading of rules *)

\* An override leaves a rule a rule of its name, and its own fields are as the
\* entry says.
LEMMA OverriddenRule ==
  ASSUME NEW rule \in Rules, NEW entry, EntryOK(entry)
  PROVE  /\ Overridden(rule, entry) \in Rules
         /\ Overridden(rule, entry).name = rule.name
         /\ Sets(entry, "severity") => Overridden(rule, entry).severity = entry.severity
         /\ Sets(entry, "type") => Overridden(rule, entry).type = entry.type
BY DEF Overridden, Rules, EntryOK

\* What the user's entry sets is what the rule has.
Obeys(rule, entry) ==
  /\ Sets(entry, "severity") => rule.severity = entry.severity
  /\ Sets(entry, "type") => rule.type = entry.type

LEMMA ConfiguredRule ==
  ASSUME NEW rule \in Rules, NEW profile, EntryOK(profile), NEW entry, EntryOK(entry)
  PROVE  /\ Configured(rule, profile, entry) \in Rules
         /\ Configured(rule, profile, entry).name = rule.name
         /\ Obeys(Configured(rule, profile, entry), entry)
<1> DEFINE profiled == Overridden(rule, profile)
<1>1. profiled \in Rules /\ profiled.name = rule.name
  BY OverriddenRule
<1> HIDE DEF profiled
<1>2. /\ Overridden(profiled, entry) \in Rules
      /\ Overridden(profiled, entry).name = profiled.name
      /\ Sets(entry, "severity") => Overridden(profiled, entry).severity = entry.severity
      /\ Sets(entry, "type") => Overridden(profiled, entry).type = entry.type
  BY <1>1, OverriddenRule
<1> QED
  BY <1>1, <1>2 DEF Configured, Obeys, profiled

\* Every rule a load yields can run and obeys the user, and no two have one name.
RuleOK(l, userConfig) ==
  /\ l.from \in Sources /\ l.rule \in Rules
  /\ CanRun(l.rule) /\ Obeys(l.rule, userConfig[l.rule.name])

LEMMA LoadedRules ==
  ASSUME NEW library \in Libraries, NEW userConfig \in Configs, NEW threshold \in Severities,
         ~LoadFails(library, userConfig, threshold),
         NEW l \in Loaded(library, userConfig, threshold)
  PROVE  RuleOK(l, userConfig)
<1>0. PICK s \in Sources :
        \E rule \in RulesOf(library[s]) :
          LET profile == ProfileOf(library[s], rule) IN
          /\ Keeps(threshold, Configured(rule, profile, userConfig[rule.name]))
          /\ l = [from |-> s, rule |-> Configured(rule, profile, userConfig[rule.name])]
  BY DEF Loaded
<1>1. PICK rule \in RulesOf(library[s]) :
        LET profile == ProfileOf(library[s], rule) IN
        /\ Keeps(threshold, Configured(rule, profile, userConfig[rule.name]))
        /\ l = [from |-> s, rule |-> Configured(rule, profile, userConfig[rule.name])]
  BY <1>0
<1> DEFINE profile == ProfileOf(library[s], rule)
           entry == userConfig[rule.name]
<1>2. rule \in Rules /\ rule.name \in Names
  BY InputAssumption DEF Rules
<1>3. EntryOK(profile) /\ EntryOK(entry)
  BY <1>2, InputAssumption DEF ProfileOf, NoEntry, EntryOK, Sets
<1>4. ~Rejects(rule, profile, entry, threshold)
  BY DEF LoadFails, FailsToLoad
<1>5. CanRun(Configured(rule, profile, entry))
  BY <1>1, <1>4 DEF Rejects
<1> HIDE DEF profile, entry
<1>6. /\ Configured(rule, profile, entry) \in Rules
      /\ Configured(rule, profile, entry).name = rule.name
      /\ Obeys(Configured(rule, profile, entry), entry)
  BY <1>2, <1>3, ConfiguredRule
<1>7. l.from = s /\ l.rule = Configured(rule, profile, entry)
  BY <1>1 DEF profile, entry
<1> QED
  BY <1>5, <1>6, <1>7 DEF RuleOK, entry

LEMMA KeepsMore ==
  ASSUME NEW rule \in Rules, NEW low \in Severities, NEW high \in Severities,
         high # "off", SeverityLevel[low] <= SeverityLevel[high], Keeps(low, rule)
  PROVE  Keeps(high, rule)
BY DEF Keeps, Rules, Severities, SeverityLevel

\* The threshold only filters: a stricter one loads no other rules than a looser one,
\* as they are configured there, and it rejects no library the looser one accepts.
THEOREM ThresholdFilters ==
  ASSUME NEW library \in Libraries, NEW userConfig \in Configs,
         NEW low \in Severities, NEW high \in Severities,
         high # "off", SeverityLevel[low] <= SeverityLevel[high]
  PROVE  /\ Loaded(library, userConfig, low) \subseteq Loaded(library, userConfig, high)
         /\ LoadFails(library, userConfig, low) => LoadFails(library, userConfig, high)
<1>1. ASSUME NEW s \in Sources, NEW rule \in RulesOf(library[s])
      PROVE  Configured(rule, ProfileOf(library[s], rule), userConfig[rule.name]) \in Rules
  <2>1. rule \in Rules /\ rule.name \in Names
    BY InputAssumption DEF Rules
  <2>2. EntryOK(ProfileOf(library[s], rule)) /\ EntryOK(userConfig[rule.name])
    BY <2>1, InputAssumption DEF ProfileOf, NoEntry, EntryOK, Sets
  <2> QED
    BY <2>1, <2>2, ConfiguredRule
<1>2. ASSUME NEW l \in Loaded(library, userConfig, low)
      PROVE  l \in Loaded(library, userConfig, high)
  <2> DEFINE As(s, rule) == Configured(rule, ProfileOf(library[s], rule), userConfig[rule.name])
  <2>1. PICK s \in Sources : \E rule \in RulesOf(library[s]) :
          Keeps(low, As(s, rule)) /\ l = [from |-> s, rule |-> As(s, rule)]
    BY DEF Loaded
  <2>2. PICK rule \in RulesOf(library[s]) :
          Keeps(low, As(s, rule)) /\ l = [from |-> s, rule |-> As(s, rule)]
    BY <2>1
  <2>3. Keeps(high, As(s, rule))
    BY <1>1, <2>2, KeepsMore
  <2> QED
    BY <2>2, <2>3 DEF Loaded
<1>3. ASSUME NEW s \in Sources, FailsToLoad(library[s], userConfig, low)
      PROVE  FailsToLoad(library[s], userConfig, high)
  <2>1. ASSUME NEW rule \in RulesOf(library[s]),
               Rejects(rule, ProfileOf(library[s], rule), userConfig[rule.name], low)
        PROVE  Rejects(rule, ProfileOf(library[s], rule), userConfig[rule.name], high)
    BY <1>1, <2>1, KeepsMore DEF Rejects
  <2> QED
    BY <1>3, <2>1 DEF FailsToLoad
<1> QED
  BY <1>2, <1>3 DEF LoadFails

-----------------------------------------------------------------------------
(* createRuns *)

LEMMA Least ==
  ASSUME NEW S, S \subseteq Nat, S # {}
  PROVE  \E m \in S : \A n \in S : m <= n
<1>1. PICK m \in S : \A n \in S : ~ (<<n, m>> \in OpToRel(<, Nat))
  BY WFMin, NatLessThanWellFounded
<1>2. \A n \in S : ~ (n < m)
  BY <1>1 DEF OpToRel
<1> QED
  BY <1>2

\* The results placed on a case carry its number.
CallsOK(entries) ==
  \A k \in DOMAIN entries : \A c \in DOMAIN entries[k] :
    \A r \in entries[k][c].placed : r.call = k /\ r.case = c

RunsAt(entries, k, edge) == \E c \in DOMAIN entries[k] : edge \in entries[k][c].ran

\* An unplaced result some call ran the transaction of has one position: the first
\* case of the first call that ran it.
LEMMA FirstPosition ==
  ASSUME NEW done \in Done, NEW r \in done.returned, r \notin AllPlaced(done.entries),
         NEW k0 \in DOMAIN done.entries, RunsAt(done.entries, k0, r.at)
  PROVE  \E k \in DOMAIN done.entries : \E c \in DOMAIN done.entries[k] :
           r \in Synthesized(done, k, c)
<1> DEFINE entries == done.entries
           S == {k \in DOMAIN entries : RunsAt(entries, k, r.at)}
<1>1. entries \in Seq(Seq(AllCases)) /\ DOMAIN entries = 1 .. Len(entries)
  BY DEF Done
<1>2. S \subseteq Nat /\ k0 \in S
  BY <1>1
<1>3. PICK k \in S : \A n \in S : k <= n
  BY <1>2, Least
<1> DEFINE T == {c \in DOMAIN entries[k] : r.at \in entries[k][c].ran}
<1>4. entries[k] \in Seq(AllCases) /\ DOMAIN entries[k] = 1 .. Len(entries[k])
  BY <1>1
<1>5. T \subseteq Nat /\ T # {}
  BY <1>4 DEF RunsAt
<1>6. PICK c \in T : \A n \in T : c <= n
  BY <1>5, Least
<1>7. ~AlreadyConsumed(entries, k, r)
  <2> SUFFICES ASSUME NEW j \in 1 .. k - 1, RunsAt(entries, j, r.at)
               PROVE  FALSE
    BY DEF AlreadyConsumed, RunsAt
  <2>1. j \in S
    BY <1>1, <1>3
  <2> QED
    BY <2>1, <1>1, <1>2, <1>3
<1>8. IsPosition(entries[k], c, r.at)
  <2> SUFFICES ASSUME NEW b \in 1 .. c - 1, r.at \in entries[k][b].ran
               PROVE  FALSE
    BY <1>6 DEF IsPosition
  <2>1. b \in T
    BY <1>4, <1>6
  <2> QED
    BY <2>1, <1>4, <1>5, <1>6
<1> QED
  BY <1>7, <1>8 DEF Synthesized

\* No result has two positions.
LEMMA OnePosition ==
  ASSUME NEW done \in Done, NEW r,
         NEW k \in DOMAIN done.entries, NEW c \in DOMAIN done.entries[k],
         NEW j \in DOMAIN done.entries, NEW b \in DOMAIN done.entries[j],
         r \in Synthesized(done, k, c), r \in Synthesized(done, j, b)
  PROVE  j = k /\ b = c
<1> DEFINE entries == done.entries
<1>1. entries \in Seq(Seq(AllCases)) /\ DOMAIN entries = 1 .. Len(entries)
  BY DEF Done
<1>2. /\ ~AlreadyConsumed(entries, k, r) /\ IsPosition(entries[k], c, r.at)
      /\ ~AlreadyConsumed(entries, j, r) /\ IsPosition(entries[j], b, r.at)
  BY DEF Synthesized
<1>3. RunsAt(entries, k, r.at) /\ RunsAt(entries, j, r.at)
  BY <1>2 DEF IsPosition, RunsAt
<1>4. ASSUME j < k
      PROVE  FALSE
  <2>1. j \in 1 .. k - 1
    BY <1>1, <1>4
  <2> QED
    BY <2>1, <1>2, <1>3 DEF AlreadyConsumed, RunsAt
<1>8. ASSUME k < j
      PROVE  FALSE
  <2>1. k \in 1 .. j - 1
    BY <1>1, <1>8
  <2> QED
    BY <2>1, <1>2, <1>3 DEF AlreadyConsumed, RunsAt
<1>5. j = k
  BY <1>1, <1>4, <1>8
<1>6. entries[k] \in Seq(AllCases) /\ DOMAIN entries[k] = 1 .. Len(entries[k])
  BY <1>1
<1>7. ~(b < c) /\ ~(c < b)
  <2>1. b \in 1 .. Len(entries[k]) /\ c \in 1 .. Len(entries[k]) /\ Len(entries[k]) \in Nat
    BY <1>5, <1>6
  <2>2. ASSUME b < c
        PROVE  FALSE
    <3>1. b \in 1 .. c - 1
      BY <2>1, <2>2
    <3> QED
      BY <3>1, <1>2, <1>5 DEF IsPosition
  <2>3. ASSUME c < b
        PROVE  FALSE
    <3>1. c \in 1 .. b - 1
      BY <2>1, <2>3
    <3> QED
      BY <3>1, <1>2, <1>5 DEF IsPosition
  <2> QED
    BY <2>2, <2>3
<1> QED
  BY <1>5, <1>6, <1>7

\* A result belongs to at most one case of its rule, a placed one to its own.
LEMMA OneCase ==
  ASSUME NEW done \in Done, CallsOK(done.entries), NEW r,
         NEW k \in DOMAIN done.entries, NEW c \in DOMAIN done.entries[k],
         NEW j \in DOMAIN done.entries, NEW b \in DOMAIN done.entries[j],
         r \in Attributed(done, k, c), r \in Attributed(done, j, b)
  PROVE  j = k /\ b = c
<1>1. CASE r \in AllPlaced(done.entries)
  <2>1. r \in done.entries[k][c].placed /\ r \in done.entries[j][b].placed
    BY <1>1 DEF Attributed, Synthesized
  <2> QED
    BY <2>1 DEF CallsOK
<1>2. CASE r \notin AllPlaced(done.entries)
  <2>1. r \in Synthesized(done, k, c) /\ r \in Synthesized(done, j, b)
    BY <1>2 DEF Attributed, AllPlaced
  <2> QED
    BY <2>1, OnePosition
<1> QED
  BY <1>1, <1>2

TestExecutions(name, done) == CaseExecutions(name, done) \cup LoneExecutions(name, done)

\* One execution has the result, a placed one that of its case.
SoleExecution(name, done, r) ==
  \E x \in TestExecutions(name, done) :
    /\ x.rule = name /\ r \in x.results
    /\ r \in AllPlaced(done.entries) => x.call = r.call /\ x.case = r.case
    /\ \A y \in TestExecutions(name, done) : r \in y.results => y = x

\* The executions of one rule share out its results.
LEMMA Attribution ==
  ASSUME NEW done \in Done, CallsOK(done.entries), NEW name,
         NEW r \in done.returned \cup AllPlaced(done.entries)
  PROVE  SoleExecution(name, done, r)
<1> DEFINE entries == done.entries
           CaseExecution(k, c) == Execution(name, k, c, Attributed(done, k, c),
                                    CaseStatus(entries[k][c], Attributed(done, k, c)))
           X == TestExecutions(name, done)
<1>1. ASSUME NEW k \in DOMAIN entries, NEW c \in DOMAIN entries[k],
             r \in Attributed(done, k, c),
             r \in AllPlaced(entries) => k = r.call /\ c = r.case
      PROVE  SoleExecution(name, done, r)
  <2> DEFINE x == CaseExecution(k, c)
  <2>1. x \in X
    BY DEF TestExecutions, CaseExecutions
  <2>2. x.rule = name /\ x.results = Attributed(done, k, c) /\ x.call = k /\ x.case = c
    BY DEF Execution
  <2>3. ASSUME NEW y \in X, r \in y.results
        PROVE  y = x
    <3>1. CASE y \in CaseExecutions(name, done)
      <4>1. PICK j \in DOMAIN entries : \E b \in DOMAIN entries[j] : y = CaseExecution(j, b)
        BY <3>1 DEF CaseExecutions
      <4>2. PICK b \in DOMAIN entries[j] : y = CaseExecution(j, b)
        BY <4>1
      <4>3. r \in Attributed(done, j, b)
        BY <2>3, <4>2 DEF Execution
      <4>4. j = k /\ b = c
        BY <1>1, <4>3, OneCase
      <4> QED
        BY <4>2, <4>4
    <3>2. CASE y \in LoneExecutions(name, done)
      <4>1. r \in Unattributed(done)
        BY <2>3, <3>2 DEF LoneExecutions, Execution
      <4> QED
        BY <4>1, <1>1 DEF Unattributed
    <3> QED
      BY <3>1, <3>2 DEF TestExecutions
  <2> HIDE DEF x
  <2> QED
    BY <1>1, <2>1, <2>2, <2>3 DEF SoleExecution
<1>2. CASE r \in AllPlaced(entries)
  <2>1. PICK k \in DOMAIN entries : \E c \in DOMAIN entries[k] : r \in entries[k][c].placed
    BY <1>2 DEF AllPlaced
  <2>2. PICK c \in DOMAIN entries[k] : r \in entries[k][c].placed
    BY <2>1
  <2>3. r \in Attributed(done, k, c) /\ k = r.call /\ c = r.case
    BY <2>2 DEF Attributed, CallsOK
  <2> QED
    BY <1>1, <2>3
<1>3. CASE r \notin AllPlaced(entries) /\ \E k \in DOMAIN entries : RunsAt(entries, k, r.at)
  <2>1. PICK k \in DOMAIN entries : \E c \in DOMAIN entries[k] : r \in Synthesized(done, k, c)
    BY <1>3, FirstPosition
  <2>2. PICK c \in DOMAIN entries[k] : r \in Synthesized(done, k, c)
    BY <2>1
  <2>3. r \in Attributed(done, k, c)
    BY <2>2 DEF Attributed
  <2> QED
    BY <1>1, <1>3, <2>3
<1>4. CASE r \notin AllPlaced(entries) /\ \A k \in DOMAIN entries : ~RunsAt(entries, k, r.at)
  <2>1. r \in Unattributed(done)
    BY <1>4 DEF Unattributed, Attributed, AllPlaced, Synthesized, IsPosition, RunsAt
  <2> DEFINE x == Execution(name, 0, 0, {r}, IF "violation" \in r.signals THEN "failed"
                                             ELSE "skipped")
  <2>2. x \in X
    BY <2>1 DEF TestExecutions, LoneExecutions
  <2>3. x.rule = name /\ r \in x.results
    BY DEF Execution
  <2>4. ASSUME NEW y \in X, r \in y.results
        PROVE  y = x
    <3>1. CASE y \in CaseExecutions(name, done)
      BY <2>1, <2>4, <3>1 DEF CaseExecutions, Execution, Unattributed
    <3>2. CASE y \in LoneExecutions(name, done)
      BY <2>4, <3>2 DEF LoneExecutions, Execution
    <3> QED
      BY <3>1, <3>2 DEF TestExecutions
  <2> HIDE DEF x
  <2> QED
    BY <1>4, <2>2, <2>3, <2>4 DEF SoleExecution
<1> QED
  BY <1>2, <1>3, <1>4

-----------------------------------------------------------------------------
(* The invariant of the workflow *)

\* The loaded rules can run, obey the user and have names of their own.
LoadedOK ==
  /\ \A l \in loaded : RuleOK(l, config)
  /\ \A a, b \in loaded : a.rule.name = b.rule.name => a = b

\* The rules the runner came to run in its mode, and each left its results or is
\* running: no rule was passed over.
RunOK ==
  /\ phase = "idle" => /\ loaded = {} /\ visited = {} /\ current = NoRule
                       /\ calls = <<>> /\ DOMAIN ruleResults = {}
  /\ \A n \in visited : \E l \in loaded : l.rule.name = n /\ RunsInMode(l.rule, mode)
  /\ visited = DOMAIN ruleResults \cup ({current} \ {NoRule})
  /\ current \notin DOMAIN ruleResults

\* Only the tester's context records cases, with their calls' and their own numbers.
EntriesOK ==
  /\ CallsOK(calls) /\ (mode # "test" \/ current = NoRule => calls = <<>>)
  /\ \A n \in DOMAIN ruleResults :
       /\ CallsOK(ruleResults[n].entries)
       /\ mode # "test" => ruleResults[n].entries = <<>>

\* The reply is made of what the rules left, when all were called.
ReplyOK ==
  phase = "replied" =>
    /\ current = NoRule /\ AllVisited
    /\ executions = UNION {RuleExecutions(n, ruleResults[n]) : n \in DOMAIN ruleResults}
    /\ listed = {l.rule.name : l \in {l \in loaded : RunsInMode(l.rule, mode)}}

WorkflowInv == WorkflowTypeOK /\ LoadedOK /\ RunOK /\ EntriesOK /\ ReplyOK

\* The cases of every method of the context run transactions of the format, and
\* find and place findings.
CaseOK(case) ==
  /\ case.status \in Statuses /\ case.ran \subseteq Edges
  /\ case.found \subseteq Findings(Places) /\ case.placed \subseteq Findings(Places)

LEMMA BarrenCases ==
  ASSUME NEW statuses \in SUBSET Statuses, NEW ran \in SUBSET SUBSET Edges,
         NEW case \in Barren(statuses, ran)
  PROVE  CaseOK(case)
BY DEF Barren, CaseOK, Case

LEMMA TypedCases ==
  /\ \A case \in ValidateCases : CaseOK(case)
  /\ \A case \in GroupCases : CaseOK(case)
  /\ \A case \in PipelineCases : CaseOK(case)
  /\ \A case \in InspectedCases : CaseOK(case)
<1>0. /\ {"failed", "skipped"} \in SUBSET Statuses /\ Statuses \in SUBSET Statuses
      /\ OneAtMost \in SUBSET SUBSET Edges /\ SUBSET Edges \in SUBSET SUBSET Edges
      /\ "passed" \in Statuses /\ "failed" \in Statuses
  BY DEF OneAtMost, Statuses
<1>1. ASSUME NEW case \in ValidateCases
      PROVE  CaseOK(case)
  <2>1. CASE case \in Barren({"failed", "skipped"}, OneAtMost)
    BY <1>0, <2>1, BarrenCases
  <2>2. CASE \E e \in Edges, F \in Few(Findings(Places)) :
               case = Case("passed", {e}, F, {f \in F : f.at = e})
    BY <1>0, <2>2 DEF CaseOK, Case, Few
  <2> QED
    BY <1>1, <2>1, <2>2 DEF ValidateCases
<1>2. ASSUME NEW case \in GroupCases
      PROVE  CaseOK(case)
  <2>1. CASE case \in Barren({"failed", "skipped"}, SUBSET Edges)
    BY <1>0, <2>1, BarrenCases
  <2>2. CASE \E R \in SUBSET Edges, F \in Few(Findings(Places)) : case = Case("passed", R, F, F)
    BY <1>0, <2>2 DEF CaseOK, Case, Few
  <2> QED
    BY <1>2, <2>1, <2>2 DEF GroupCases
<1>3. ASSUME NEW case \in PipelineCases
      PROVE  CaseOK(case)
  <2>1. CASE case \in Barren(Statuses, SUBSET Edges)
    BY <1>0, <2>1, BarrenCases
  <2>2. ASSUME NEW R \in SUBSET Edges, NEW f \in Findings(R \cup {"elsewhere"}),
               case = Case("failed", R, {f}, {f})
        PROVE  CaseOK(case)
    <3>1. f \in Findings(Places)
      BY DEF Findings, Places
    <3> QED
      BY <1>0, <2>2, <3>1 DEF CaseOK, Case
  <2>3. CASE case \notin Barren(Statuses, SUBSET Edges)
    <3>1. PICK R \in SUBSET Edges :
            case \in {Case("failed", R, {f}, {f}) :
                        f \in {f \in Findings(R \cup {"elsewhere"}) : f.signals = {"violation"}}}
      BY <1>3, <2>3 DEF PipelineCases
    <3> QED
      BY <3>1, <2>2
  <2> QED
    BY <2>1, <2>3
<1>4. ASSUME NEW case \in InspectedCases
      PROVE  CaseOK(case)
  BY <1>0, <1>4, BarrenCases DEF InspectedCases
<1> QED
  BY <1>1, <1>2, <1>3, <1>4

LEMMA NumberedResults ==
  ASSUME NEW k \in Nat, NEW c \in Nat, NEW F \in SUBSET Findings(Places)
  PROVE  /\ Numbered(k, c, F) \subseteq AllResults
         /\ \A r \in Numbered(k, c, F) : r.call = k /\ r.case = c
BY DEF Numbered, Findings, AllResults

\* What a call leaves has the type and the numbers it should.
LEMMA EntryOfCall ==
  ASSUME NEW k \in Nat, NEW n \in Nat, NEW CaseSet, \A case \in CaseSet : CaseOK(case),
         NEW cs \in [1 .. n -> CaseSet]
  PROVE  /\ Entry(k, cs) \in Seq(AllCases) /\ DOMAIN Entry(k, cs) = 1 .. n
         /\ \A c \in 1 .. n : \A r \in Entry(k, cs)[c].placed : r.call = k /\ r.case = c
         /\ FoundIn(k, cs) \subseteq AllResults
<1>1. \A c \in 1 .. n : CaseOK(cs[c])
  OBVIOUS
<1>2. ASSUME NEW c \in 1 .. n
      PROVE  /\ Numbered(k, c, cs[c].placed) \subseteq AllResults
             /\ Numbered(k, c, cs[c].found) \subseteq AllResults
             /\ \A r \in Numbered(k, c, cs[c].placed) : r.call = k /\ r.case = c
  <2>1. cs[c].placed \in SUBSET Findings(Places) /\ cs[c].found \in SUBSET Findings(Places)
    BY <1>1 DEF CaseOK
  <2> QED
    BY <2>1, NumberedResults
<1>3. DOMAIN cs = 1 .. n /\ DOMAIN Entry(k, cs) = 1 .. n
  BY DEF Entry
<1>4. ASSUME NEW c \in 1 .. n
      PROVE  /\ Entry(k, cs)[c] = [passed |-> cs[c].status = "passed", ran |-> cs[c].ran,
                                   placed |-> Numbered(k, c, cs[c].placed)]
             /\ Entry(k, cs)[c] \in AllCases
  <2>1. Entry(k, cs)[c] = [passed |-> cs[c].status = "passed", ran |-> cs[c].ran,
                           placed |-> Numbered(k, c, cs[c].placed)]
    BY <1>3 DEF Entry
  <2>2. (cs[c].status = "passed") \in BOOLEAN /\ cs[c].ran \in SUBSET Edges
    BY <1>1 DEF CaseOK
  <2> QED
    BY <2>1, <2>2, <1>2 DEF AllCases
<1>5. Entry(k, cs) \in [1 .. n -> AllCases]
  <2>1. Entry(k, cs) = [c \in 1 .. n |-> Entry(k, cs)[c]]
    BY <1>3 DEF Entry
  <2> QED
    BY <2>1, <1>4
<1>6. Entry(k, cs) \in Seq(AllCases)
  BY <1>5
<1>7. FoundIn(k, cs) \subseteq AllResults
  BY <1>2, <1>3 DEF FoundIn
<1> QED
  BY <1>2, <1>3, <1>4, <1>6, <1>7

\* The loaded rule the runner comes to has its function: it is not passed over.
LEMMA NotPassedOver ==
  ASSUME WorkflowTypeOK, LoadedOK, NEW l \in loaded, RunsInMode(l.rule, mode)
  PROVE  mode \in l.rule.fns
<1>1. CanRun(l.rule) /\ l.rule \in Rules
  BY DEF LoadedOK, RuleOK
<1>2. mode \in l.rule.type /\ l.rule.type # {"informational"}
  BY DEF RunsInMode, IsEnabled
<1> QED
  BY <1>1, <1>2 DEF CanRun

LEMMA WorkflowInitially == Init => WorkflowInv
<1> SUFFICES ASSUME Init
             PROVE  WorkflowInv
  OBVIOUS
<1>1. WorkflowTypeOK
  BY WorkflowAssumption DEF Init, WorkflowInit, WorkflowTypeOK, Modes
<1>2. LoadedOK /\ RunOK /\ EntriesOK /\ ReplyOK
  BY WorkflowAssumption DEF Init, WorkflowInit, LoadedOK, RunOK, EntriesOK, CallsOK, ReplyOK
<1> QED
  BY <1>1, <1>2 DEF WorkflowInv

\* A workflow that ends, in whatever way, leaves nothing.
LEMMA IdleKeeps ==
  ASSUME WorkflowInv, Idle, UNCHANGED effort
  PROVE  WorkflowInv'
<1>1. WorkflowTypeOK'
  BY WorkflowAssumption DEF Idle, WorkflowInv, WorkflowTypeOK, Modes
<1>2. (LoadedOK /\ RunOK /\ EntriesOK /\ ReplyOK)'
  BY WorkflowAssumption DEF Idle, LoadedOK, RunOK, EntriesOK, CallsOK, ReplyOK
<1> QED
  BY <1>1, <1>2 DEF WorkflowInv

LEMMA StartKeeps ==
  ASSUME WorkflowInv, NEW m \in Modes, NEW library \in Libraries, NEW userConfig \in Configs,
         NEW threshold \in Severities, Start(m, library, userConfig, threshold)
  PROVE  WorkflowInv'
<1> USE DEF WorkflowInv, Start
<1>1. \A l \in loaded' : RuleOK(l, config')
  BY LoadedRules
<1>2. LoadedOK'
  <2>1. \A a, b \in loaded' : a.rule.name = b.rule.name => a = b
    BY DEF Duplicated
  <2> QED
    BY <1>1, <2>1 DEF LoadedOK
<1>3. WorkflowTypeOK'
  <2>1. DOMAIN config' = Names /\ \A l \in loaded' : l.from \in Sources /\ l.rule \in Rules
    BY <1>1, InputAssumption DEF RuleOK
  <2>2. effort' \in 0 .. MaxEffort
    BY WorkflowAssumption DEF WorkflowTypeOK
  <2> QED
    BY <2>1, <2>2 DEF WorkflowTypeOK, ruleVars
<1>4. RunOK'
  BY DEF RunOK, ruleVars
<1>5. EntriesOK'
  BY DEF RunOK, EntriesOK, CallsOK, ruleVars
<1>6. ReplyOK'
  BY DEF ReplyOK
<1> QED
  BY <1>2, <1>3, <1>4, <1>5, <1>6

LEMMA RunRuleKeeps ==
  ASSUME WorkflowInv, NEW l \in loaded, RunRule(l.rule)
  PROVE  WorkflowInv'
<1> USE DEF WorkflowInv, RunRule
<1>1. RunsInMode(l.rule, mode) /\ l.rule.name \in Names
  BY DEF Running, WorkflowTypeOK, Rules
<1>2. current' = l.rule.name
  BY <1>1, NotPassedOver
<1>3. WorkflowTypeOK'
  BY <1>1, <1>2 DEF WorkflowTypeOK
<1>4. RunOK'
  BY <1>1, <1>2, WorkflowAssumption DEF RunOK
<1>5. LoadedOK' /\ EntriesOK' /\ ReplyOK'
  BY DEF LoadedOK, EntriesOK, CallsOK, ReplyOK
<1> QED
  BY <1>3, <1>4, <1>5

LEMMA CallsKeep ==
  ASSUME WorkflowInv, NEW CaseSet, \A case \in CaseSet : CaseOK(case), Calls(CaseSet)
  PROVE  WorkflowInv'
<1> USE DEF WorkflowInv
<1>0. PICK n \in 1 .. MaxEffort - effort :
        /\ effort' = effort + n
        /\ \E cs \in [1 .. n -> CaseSet] :
             /\ calls' = Append(calls, Entry(Len(calls) + 1, cs))
             /\ found' = found \cup FoundIn(Len(calls) + 1, cs)
  BY DEF Calls
<1>1. PICK cs \in [1 .. n -> CaseSet] :
        /\ calls' = Append(calls, Entry(Len(calls) + 1, cs))
        /\ found' = found \cup FoundIn(Len(calls) + 1, cs)
  BY <1>0
<1> DEFINE k == Len(calls) + 1
           entry == Entry(k, cs)
<1>2. calls \in Seq(Seq(AllCases)) /\ k \in Nat /\ n \in Nat
  BY WorkflowAssumption DEF WorkflowTypeOK
<1> HIDE DEF k
<1>3. /\ entry \in Seq(AllCases) /\ DOMAIN entry = 1 .. n
      /\ \A c \in 1 .. n : \A r \in entry[c].placed : r.call = k /\ r.case = c
      /\ FoundIn(k, cs) \subseteq AllResults
  <2>1. \A case \in CaseSet : CaseOK(case)
    OBVIOUS
  <2> HIDE DEF WorkflowInv
  <2> QED
    BY <1>2, <2>1, EntryOfCall
<1> HIDE DEF entry
<1>4. calls' = Append(calls, entry) /\ calls' \in Seq(Seq(AllCases)) /\ k = Len(calls) + 1
  BY <1>1, <1>2, <1>3 DEF entry, k
<1>5. WorkflowTypeOK'
  <2>1. found' \subseteq AllResults
    BY <1>1, <1>3 DEF WorkflowTypeOK, k
  <2>2. effort' \in 0 .. MaxEffort
    BY <1>0, WorkflowAssumption DEF WorkflowTypeOK
  <2> QED
    BY <1>4, <2>1, <2>2 DEF Calls, WorkflowTypeOK
<1>6. CallsOK(calls')
  <2> SUFFICES ASSUME NEW j \in DOMAIN calls', NEW c \in DOMAIN calls'[j],
                      NEW r \in calls'[j][c].placed
               PROVE  r.call = j /\ r.case = c
    BY DEF CallsOK
  <2>1. CASE j = k
    BY <1>2, <1>3, <1>4, <2>1
  <2>2. CASE j # k
    <3>1. j \in DOMAIN calls /\ calls'[j] = calls[j]
      BY <1>2, <1>4, <2>2
    <3> QED
      BY <3>1 DEF EntriesOK, CallsOK
  <2> QED
    BY <2>1, <2>2
<1>7. EntriesOK'
  BY <1>6 DEF Calls, EntriesOK
<1>8. RunOK' /\ LoadedOK' /\ ReplyOK'
  BY DEF Calls, RunOK, LoadedOK, ReplyOK
<1> QED
  BY <1>5, <1>7, <1>8

LEMMA ReturnKeeps ==
  ASSUME WorkflowInv, RuleReturns
  PROVE  WorkflowInv'
<1> USE DEF WorkflowInv, RuleReturns, RuleEnds
<1>1. PICK kept \in SUBSET found, own \in Few(Findings(Places)) :
        ruleResults' = [n \in DOMAIN ruleResults \cup {current} |->
                          IF n = current THEN [returned |-> kept \cup Numbered(0, 0, own),
                                               entries |-> calls]
                                         ELSE ruleResults[n]]
  OBVIOUS
<1>2. [returned |-> kept \cup Numbered(0, 0, own), entries |-> calls] \in Done
  <2>1. Numbered(0, 0, own) \subseteq AllResults
    BY NumberedResults DEF Few
  <2> QED
    BY <2>1 DEF Done, WorkflowTypeOK
<1>3. WorkflowTypeOK'
  <2>1. \A n \in DOMAIN ruleResults' : ruleResults'[n] \in Done
    BY <1>1, <1>2 DEF WorkflowTypeOK
  <2>2. DOMAIN ruleResults' \subseteq visited' /\ calls' \in Seq(Seq(AllCases))
    BY <1>1 DEF RunOK
  <2> QED
    BY <2>1, <2>2 DEF WorkflowTypeOK
<1>4. RunOK'
  <2>1. DOMAIN ruleResults' = DOMAIN ruleResults \cup {current}
    BY <1>1
  <2>2. visited' = DOMAIN ruleResults' \cup ({current'} \ {NoRule})
    BY <2>1 DEF RunOK
  <2>3. current' \notin DOMAIN ruleResults'
    BY <2>1, WorkflowAssumption DEF WorkflowTypeOK
  <2> QED
    BY <2>1, <2>2, <2>3 DEF RunOK
<1>5. EntriesOK'
  BY <1>1 DEF EntriesOK, CallsOK
<1>6. LoadedOK' /\ ReplyOK'
  BY DEF LoadedOK, ReplyOK
<1> QED
  BY <1>3, <1>4, <1>5, <1>6

LEMMA ReplyKeeps ==
  ASSUME WorkflowInv, Replies
  PROVE  WorkflowInv'
<1> USE DEF WorkflowInv, Replies, ruleVars
<1>1. WorkflowTypeOK'
  BY DEF WorkflowTypeOK, Rules
<1>2. LoadedOK' /\ RunOK' /\ EntriesOK'
  BY DEF LoadedOK, RunOK, EntriesOK
<1>3. ReplyOK'
  BY DEF ReplyOK, AllVisited, Running, RuleExecutions
<1> QED
  BY <1>1, <1>2, <1>3

LEMMA WorkflowStep ==
  ASSUME WorkflowInv, [Next]_vars
  PROVE  WorkflowInv'
<1>1. ASSUME NEW library \in Libraries, NEW userConfig \in Configs, NEW threshold \in Severities,
             StartFails(library, userConfig, threshold)
      PROVE  WorkflowInv'
  <2>1. WorkflowTypeOK'
    BY <1>1, WorkflowAssumption DEF StartFails, WorkflowInv, WorkflowTypeOK, ruleVars
  <2>2. (LoadedOK /\ RunOK /\ EntriesOK /\ ReplyOK)'
    BY <1>1 DEF StartFails, WorkflowInv, LoadedOK, RunOK, EntriesOK, ReplyOK, ruleVars
  <2> QED
    BY <2>1, <2>2 DEF WorkflowInv
<1>2. CASE Validates \/ ValidatesGroups \/ TestsPipeline \/ InspectsPipeline
  BY <1>2, CallsKeep, TypedCases
     DEF Validates, ValidatesGroups, TestsPipeline, InspectsPipeline
<1>3. CASE RuleThrows \/ ReplyFails \/ Finalize
  BY <1>3, IdleKeeps DEF RuleThrows, ReplyFails, Finalize
<1>4. CASE Workflow
  BY <1>1, <1>2, <1>3, <1>4, StartKeeps, RunRuleKeeps, ReturnKeeps, ReplyKeeps DEF Workflow
<1>5. CASE UNCHANGED workflowVars
  <2>1. WorkflowTypeOK'
    BY <1>5 DEF WorkflowInv, WorkflowTypeOK, workflowVars, ruleVars
  <2>2. (LoadedOK /\ RunOK /\ EntriesOK)'
    BY <1>5 DEF WorkflowInv, LoadedOK, RunOK, EntriesOK, workflowVars, ruleVars
  <2>3. ReplyOK'
    BY <1>5 DEF WorkflowInv, ReplyOK, AllVisited, Running, RuleExecutions, workflowVars, ruleVars
  <2> QED
    BY <2>1, <2>2, <2>3 DEF WorkflowInv
<1> QED
  BY <1>3, <1>4, <1>5 DEF Next, Report, vars

LEMMA WorkflowInvariance == Spec => []WorkflowInv
BY WorkflowInitially, WorkflowStep, PTL DEF Spec

-----------------------------------------------------------------------------
(* The properties of the report *)

\* TypeOK: the session stays of its type.
THEOREM TypeCorrect == Spec => []TypeOK
<1>1. Init => ReporterInv
  BY ReporterAssumption DEF Init, ReporterInit, ReporterInv, ReporterTypeOK, FlushOK, Closes
<1>2. ReporterInv /\ [Next]_vars => ReporterInv'
  BY ReporterInvariant, ReporterStep
<1>3. WorkflowInv /\ ReporterInv => TypeOK
  BY DEF WorkflowInv, ReporterInv, TypeOK
<1> QED
  BY <1>1, <1>2, <1>3, WorkflowInvariance, PTL DEF Spec

\* The executions of a rule bear its name, and a violation fails the one it is in.
LEMMA TestExecutionOK ==
  ASSUME NEW done \in Done, NEW name, NEW x \in TestExecutions(name, done)
  PROVE  /\ x.rule = name
         /\ Carries(x.results, "violation") <=> x.status = "failed"
         /\ x.results \subseteq done.returned \cup AllPlaced(done.entries)
<1>1. CASE x \in LoneExecutions(name, done)
  BY <1>1 DEF LoneExecutions, Execution, Carries, Unattributed
<1>2. CASE x \in CaseExecutions(name, done)
  <2>1. PICK k \in DOMAIN done.entries :
          x \in {Execution(name, k, c, Attributed(done, k, c),
                           CaseStatus(done.entries[k][c], Attributed(done, k, c))) :
                   c \in DOMAIN done.entries[k]}
    BY <1>2 DEF CaseExecutions
  <2>2. PICK c \in DOMAIN done.entries[k] :
          x = Execution(name, k, c, Attributed(done, k, c),
                        CaseStatus(done.entries[k][c], Attributed(done, k, c)))
    BY <2>1
  <2> DEFINE results == Attributed(done, k, c)
  <2>3. results \subseteq done.returned \cup AllPlaced(done.entries)
    BY DEF Attributed, Synthesized, AllPlaced
  <2>4. x.rule = name /\ x.results = results
        /\ x.status = CaseStatus(done.entries[k][c], results)
    BY <2>2 DEF Execution
  <2> HIDE DEF results
  <2> QED
    BY <2>3, <2>4 DEF CaseStatus
<1> QED
  BY <1>1, <1>2 DEF TestExecutions

LEMMA LeafExecutionOK ==
  ASSUME NEW done \in Done, NEW name
  PROVE  /\ \A x \in LeafExecutions(name, done) :
              /\ x.rule = name
              /\ x.status = "failed" => Carries(done.returned, "violation")
         /\ Carries(done.returned, "violation") =>
              \E x \in LeafExecutions(name, done) : x.status = "failed"
<1> DEFINE Leaf(r) == Execution(name, 0, 0, {r}, IF "violation" \in r.signals THEN "failed"
                                  ELSE IF "rule-skip" \in r.signals THEN "skipped" ELSE "passed")
<1>1. \A r \in done.returned : Leaf(r) \in LeafExecutions(name, done)
  BY DEF LeafExecutions
<1>2. \A x \in LeafExecutions(name, done) : \E r \in done.returned : x = Leaf(r)
  BY DEF LeafExecutions
<1>3. \A r : /\ Leaf(r).rule = name
             /\ Leaf(r).status = "failed" <=> "violation" \in r.signals
  BY DEF Execution
<1> HIDE DEF Leaf
<1> QED
  BY <1>1, <1>2, <1>3 DEF Carries

\* AttributedOnce: every result of a test report is told by one execution.
THEOREM ResultsAttributedOnce == Spec => []AttributedOnce
<1>1. WorkflowInv => AttributedOnce
  <2> SUFFICES ASSUME WorkflowInv, phase = "replied", mode = "test", NEW n \in DOMAIN ruleResults,
                      NEW r \in ruleResults[n].returned \cup AllPlaced(ruleResults[n].entries)
               PROVE  \E x \in executions :
                        /\ x.rule = n /\ r \in x.results
                        /\ r \in AllPlaced(ruleResults[n].entries)
                             => x.call = r.call /\ x.case = r.case
                        /\ \A y \in executions : y.rule = n /\ r \in y.results => y = x
    BY DEF AttributedOnce
  <2>1. \A m \in DOMAIN ruleResults : ruleResults[m] \in Done /\ CallsOK(ruleResults[m].entries)
    BY DEF WorkflowInv, WorkflowTypeOK, EntriesOK
  <2>2. executions = UNION {TestExecutions(m, ruleResults[m]) : m \in DOMAIN ruleResults}
    BY DEF WorkflowInv, ReplyOK, RuleExecutions, TestExecutions
  <2>3. SoleExecution(n, ruleResults[n], r)
    BY <2>1, Attribution
  <2>4. PICK x \in TestExecutions(n, ruleResults[n]) :
          /\ x.rule = n /\ r \in x.results
          /\ r \in AllPlaced(ruleResults[n].entries) => x.call = r.call /\ x.case = r.case
          /\ \A y \in TestExecutions(n, ruleResults[n]) : r \in y.results => y = x
    BY <2>3 DEF SoleExecution
  <2>5. ASSUME NEW y \in executions, y.rule = n, r \in y.results
        PROVE  y = x
    <3>1. PICK m \in DOMAIN ruleResults : y \in TestExecutions(m, ruleResults[m])
      BY <2>2
    <3>2. m = n
      BY <2>1, <2>5, <3>1, TestExecutionOK
    <3> QED
      BY <2>4, <2>5, <3>1, <3>2
  <2> QED
    BY <2>2, <2>4, <2>5
<1> QED
  BY <1>1, WorkflowInvariance, PTL

\* ViolationsDecide: the exit code tells whether a rule found a violation.
THEOREM ViolationsDecideVerdict == Spec => []ViolationsDecide
<1> DEFINE Violated(n) == \/ Carries(ruleResults[n].returned, "violation")
                          \/ Carries(AllPlaced(ruleResults[n].entries), "violation")
<1>1. WorkflowInv => ViolationsDecide
  <2> SUFFICES ASSUME WorkflowInv, phase = "replied"
               PROVE  HasFindings(executions) <=> \E n \in DOMAIN ruleResults : Violated(n)
    BY DEF ViolationsDecide
  <2>1. executions = UNION {RuleExecutions(n, ruleResults[n]) : n \in DOMAIN ruleResults}
    BY DEF WorkflowInv, ReplyOK
  <2>2. ASSUME NEW n \in DOMAIN ruleResults
        PROVE  Violated(n) <=> \E x \in RuleExecutions(n, ruleResults[n]) : x.status = "failed"
    <3> DEFINE done == ruleResults[n]
    <3>1. done \in Done /\ CallsOK(done.entries) /\ (mode # "test" => done.entries = <<>>)
      BY DEF WorkflowInv, WorkflowTypeOK, EntriesOK
    <3>2. CASE mode # "test"
      <4>1. AllPlaced(done.entries) = {}
        BY <3>1, <3>2 DEF AllPlaced
      <4>2. RuleExecutions(n, done) = LeafExecutions(n, done)
        BY <3>2 DEF RuleExecutions
      <4> HIDE DEF done
      <4>3. Carries(done.returned, "violation")
              <=> \E x \in LeafExecutions(n, done) : x.status = "failed"
        BY <3>1, LeafExecutionOK
      <4> QED
        BY <4>1, <4>2, <4>3 DEF Carries, done
    <3>3. CASE mode = "test"
      <4>1. RuleExecutions(n, done) = TestExecutions(n, done)
        BY <3>3 DEF RuleExecutions, TestExecutions
      <4> HIDE DEF done
      <4>2. ASSUME NEW x \in TestExecutions(n, done), x.status = "failed"
            PROVE  Carries(done.returned, "violation") \/ Carries(AllPlaced(done.entries), "violation")
        BY <3>1, <4>2, TestExecutionOK DEF Carries
      <4>3. ASSUME NEW r \in done.returned \cup AllPlaced(done.entries), "violation" \in r.signals
            PROVE  \E x \in TestExecutions(n, done) : x.status = "failed"
        <5>1. PICK x \in TestExecutions(n, done) : r \in x.results
          BY <3>1, Attribution DEF SoleExecution
        <5> QED
          BY <3>1, <4>3, <5>1, TestExecutionOK DEF Carries
      <4> QED
        BY <4>1, <4>2, <4>3 DEF Carries, done
    <3> QED
      BY <3>2, <3>3
  <2> HIDE DEF Violated
  <2> QED
    BY <2>1, <2>2 DEF HasFindings
<1> QED
  BY <1>1, WorkflowInvariance, PTL

\* RanAsConfigured: the rules a report lists were called, as the user configured
\* them.
THEOREM RunsAsConfigured == Spec => []RanAsConfigured
<1>1. WorkflowInv => RanAsConfigured
  <2> SUFFICES ASSUME WorkflowInv, phase = "replied"
               PROVE  /\ listed = DOMAIN ruleResults
                      /\ \A n \in listed :
                           /\ Sets(config[n], "severity") => config[n].severity # "off"
                           /\ Sets(config[n], "type") => mode \in config[n].type
    BY DEF RanAsConfigured
  <2>1. /\ current = NoRule /\ AllVisited
        /\ listed = {l.rule.name : l \in {l \in loaded : RunsInMode(l.rule, mode)}}
    BY DEF WorkflowInv, ReplyOK
  <2>2. visited = DOMAIN ruleResults
    BY <2>1 DEF WorkflowInv, RunOK
  <2>3. listed = visited
    BY <2>1 DEF WorkflowInv, RunOK, AllVisited, Running
  <2>4. ASSUME NEW n \in listed
        PROVE  /\ Sets(config[n], "severity") => config[n].severity # "off"
               /\ Sets(config[n], "type") => mode \in config[n].type
    <3>1. PICK l \in loaded : l.rule.name = n /\ RunsInMode(l.rule, mode)
      BY <2>1
    <3>2. Obeys(l.rule, config[n])
      BY <3>1 DEF WorkflowInv, LoadedOK, RuleOK
    <3> QED
      BY <3>1, <3>2 DEF Obeys, RunsInMode, IsEnabled
  <2> QED
    BY <2>2, <2>3, <2>4
<1> QED
  BY <1>1, WorkflowInvariance, PTL
=============================================================================

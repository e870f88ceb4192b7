---------------------------- MODULE SelectionProofs ----------------------------
(***************************************************************************)
(* Proofs about Selection, for every set of classes, filters, keys, events *)
(* and clock readings.                                                     *)
(***************************************************************************)
EXTENDS Selection, Glob, TLAPS

-----------------------------------------------------------------------------
(* The subscription. *)

\* Why AcceptedIsSubscribed holds: while the module is loaded SUBSCRIBED_EXTRA is
\* the part of the mask beyond NOTIFY_ALL and the setter keeps the filter inside
\* it; while it is not, and no failed load has left its mark, the sentinel is back.
SubscriptionInv ==
  /\ loaded => /\ subscribed \subseteq Extra
               /\ mask = AllClasses \cup subscribed
               /\ filter.parsed.classes \cap Extra \subseteq subscribed
  /\ (~loaded /\ ~stale) => subscribed = Uninit

LEMMA SentinelApart == ASSUME NEW x \in SUBSET Extra PROVE x # Uninit
BY Zenon, SelectionAssumption DEF Uninit

\* A text the setter accepts under a subscription names no class beyond it.
LEMMA AcceptedWithin ==
  ASSUME NEW f, subscribed \subseteq Extra, FilterAccepted(f)
  PROVE  ParseFilter(f).classes \cap Extra \subseteq subscribed
BY Zenon, SentinelApart DEF FilterAccepted, Missing

LEMMA ConfigFields == \A r, p : Config(r, p).raw = r /\ Config(r, p).parsed = p
BY Zenon DEF Config

LEMMA SubscriptionStep == SubscriptionInv /\ [Next]_vars => SubscriptionInv'
<1> SUFFICES ASSUME SubscriptionInv, [Next]_vars PROVE SubscriptionInv'
  BY Zenon
<1>1. ASSUME NEW f \in FilterTexts, NEW k \in KeyTexts, NEW d \in DbTexts, NEW on \in BOOLEAN,
             Load(f, k, d, on)
      PROVE  SubscriptionInv'
  BY Zenon, <1>1, ConfigFields DEF Load, SubscriptionInv, ExtraOf, ParseFilter
<1>2. ASSUME NEW f \in FilterTexts, NEW k \in KeyTexts, NEW d \in DbTexts, NEW kept \in BOOLEAN,
             LoadRejected(f, k, d, kept)
      PROVE  SubscriptionInv'
  BY Zenon, <1>2 DEF LoadRejected, Leave, SubscriptionInv, Uninit, config
<1>3. ASSUME NEW f \in FilterTexts, NEW k \in KeyTexts, NEW d \in DbTexts, NEW kept \in BOOLEAN,
             LoadFailsLate(f, k, d, kept)
      PROVE  SubscriptionInv'
  BY Zenon, <1>3 DEF LoadFailsLate, Leave, SubscriptionInv, Uninit, config
<1>4. ASSUME NEW kept \in BOOLEAN, LoadFailsEarly(kept) PROVE SubscriptionInv'
  BY Zenon, <1>4 DEF LoadFailsEarly, Leave, SubscriptionInv, Uninit, config
<1>5. ASSUME NEW kept \in BOOLEAN, Unload(kept) PROVE SubscriptionInv'
  BY Zenon, <1>5 DEF Unload, Leave, SubscriptionInv, Uninit
<1>6. ASSUME NEW f \in FilterTexts, SetFilter(f) PROVE SubscriptionInv'
  <2>1. CASE FilterAccepted(f)
    BY <1>6, <2>1, AcceptedWithin, ConfigFields DEF SetFilter, SubscriptionInv, Uninit
  <2>2. CASE ~FilterAccepted(f)
    BY Zenon, <1>6, <2>2 DEF SetFilter, SubscriptionInv, Uninit
  <2> QED BY Zenon, <2>1, <2>2
<1>7. CASE UNCHANGED <<subscribed, loaded, mask, filter, stale>>
  BY Zenon, <1>7 DEF SubscriptionInv, Uninit
<1> QED
  <2>1. ASSUME NEW e \in Events,
               NotifySkipped(e) \/ NotifyWritten(e) \/ NotifyLost(e) \/ NotifyDropped(e)
        PROVE  UNCHANGED <<subscribed, loaded, mask, filter, stale>>
    BY Zenon, <2>1 DEF NotifySkipped, NotifyWritten, NotifyLost, NotifyDropped, config
  <2>2. ASSUME Flush \/ (\E m \in BOOLEAN : SetMaster(m)) \/ (\E t \in Times : SetClock(t))
        PROVE  UNCHANGED <<subscribed, loaded, mask, filter, stale>>
    BY Zenon, <2>2 DEF Flush, SetMaster, SetClock, config
  <2>3. ASSUME \/ \E k \in KeyTexts : SetKeyFilter(k)
               \/ \E d \in DbTexts : SetSourceDbs(d)
               \/ \E on \in BOOLEAN : SetEnabled(on)
        PROVE  UNCHANGED <<subscribed, loaded, mask, filter, stale>>
    BY Zenon, <2>3 DEF SetKeyFilter, SetSourceDbs, SetEnabled
  <2>4. CASE UNCHANGED vars
    BY Zenon, <1>7, <2>4 DEF vars, config
  <2> QED
    BY Zenon, <1>1, <1>2, <1>3, <1>4, <1>5, <1>6, <1>7, <2>1, <2>2, <2>3, <2>4
       DEF Next, Loading, Configure, Notification

LEMMA SubscriptionInit == Init => SubscriptionInv
BY Zenon DEF Init, SubscriptionInv

LEMMA SubscriptionInvariant == Spec => []SubscriptionInv
BY SubscriptionInit, SubscriptionStep, PTL DEF Spec

\* A filter that the module holds names @missed or @new only if the server
\* delivers it, whatever loads, failed loads, unloads and CONFIG SETs came before.
THEOREM SubscriptionCorrect == Spec => []AcceptedIsSubscribed
<1>1. SubscriptionInv => AcceptedIsSubscribed
  BY Zenon DEF SubscriptionInv, AcceptedIsSubscribed
<1> QED BY <1>1, SubscriptionInvariant, PTL

\* The setter accepts every well-formed filter at a load, unless the image kept
\* the subscription of a load that failed behind it.
THEOREM LoadCorrect == Spec => []LoadFilterAccepted
<1>1. SubscriptionInv => LoadFilterAccepted
  BY Zenon DEF SubscriptionInv, LoadFilterAccepted, FilterAccepted, Missing
<1> QED BY <1>1, SubscriptionInvariant, PTL

-----------------------------------------------------------------------------
(* The counters. *)

Counters == {"silent", "self", "filtered", "key", "db", "invalid", "forwarded", "lost"}

AccountInv == count \in [Counters -> Nat] /\ notified \in Nat /\ Accounted

LEMMA ZeroesAccounted ==
  Zeroes \in [Counters -> Nat] /\ (count' = Zeroes /\ notified' = 0 => AccountInv')
BY DEF Zeroes, Counters, AccountInv, Accounted

LEMMA CountOne ==
  ASSUME AccountInv, NEW c \in Counters, Count(c), notified' = notified + 1
  PROVE  AccountInv'
<1>1. count' = [count EXCEPT ![c] = @ + 1] /\ count \in [Counters -> Nat]
  BY Zenon DEF Count, AccountInv
<1>2. \A d \in Counters : count[d] \in Nat /\ count'[d] = IF d = c THEN count[d] + 1 ELSE count[d]
  BY Zenon, <1>1
<1>3. count' \in [Counters -> Nat]
  BY <1>1, <1>2
<1>4. notified = count["silent"] + count["self"] + count["filtered"] + count["key"] + count["db"]
                 + count["invalid"] + count["forwarded"] + count["lost"]
  BY Zenon DEF AccountInv, Accounted
<1>5. notified' = count'["silent"] + count'["self"] + count'["filtered"] + count'["key"]
                  + count'["db"] + count'["invalid"] + count'["forwarded"] + count'["lost"]
  BY <1>2, <1>4 DEF Counters, AccountInv
<1> QED BY <1>3, <1>5 DEF AccountInv, Accounted

LEMMA GateCounts == ASSUME NEW e, Gate(e) # "selected" PROVE Gate(e) \in Counters
BY Zenon DEF Gate, Counters

LEMMA AccountStep == AccountInv /\ [Next]_vars => AccountInv'
<1> SUFFICES ASSUME AccountInv, [Next]_vars PROVE AccountInv'
  BY Zenon
<1>1. ASSUME NEW e \in Events,
             NotifySkipped(e) \/ NotifyWritten(e) \/ NotifyLost(e) \/ NotifyDropped(e)
      PROVE  AccountInv'
  <2>1. CASE NotifySkipped(e)
    BY Zenon, <2>1, CountOne, GateCounts DEF NotifySkipped, Delivered
  <2>2. CASE NotifyWritten(e)
    BY Zenon, <2>2, CountOne DEF NotifyWritten, Delivered, Counters
  <2>3. CASE NotifyLost(e)
    BY Zenon, <2>3, CountOne DEF NotifyLost, Delivered, Counters
  <2>4. CASE NotifyDropped(e)
    BY Zenon, <2>4, CountOne DEF NotifyDropped, Delivered, Counters
  <2> QED BY Zenon, <1>1, <2>1, <2>2, <2>3, <2>4
<1>2. CASE ResetStats
  BY Zenon, <1>2, ZeroesAccounted DEF ResetStats
<1>3. CASE UNCHANGED <<count, notified>>
  BY Zenon, <1>3 DEF AccountInv, Accounted
<1>4. ASSUME Loading \/ (\E kept \in BOOLEAN : LoadFailsEarly(kept) \/ Unload(kept))
      PROVE  ResetStats \/ UNCHANGED <<count, notified>>
  BY ZenonT(40), <1>4 DEF Loading, Load, LoadRejected, LoadFailsLate, LoadFailsEarly, Unload
<1>5. ASSUME Configure PROVE UNCHANGED <<count, notified>>
  BY Zenon, <1>5 DEF Configure, SetFilter, SetKeyFilter, SetSourceDbs, SetEnabled
<1>6. ASSUME Flush \/ (\E m \in BOOLEAN : SetMaster(m)) \/ (\E t \in Times : SetClock(t))
      PROVE  UNCHANGED <<count, notified>>
  BY Zenon, <1>6 DEF Flush, SetMaster, SetClock
<1> QED
  BY Zenon, <1>1, <1>2, <1>3, <1>4, <1>5, <1>6 DEF Next, Notification, vars

\* Every notification delivered since the load ends in exactly one counter.
THEOREM AccountingCorrect == Spec => []Accounted
<1>1. Init => AccountInv
  BY ZeroesAccounted DEF Init, AccountInv, Accounted, Zeroes
<1>2. AccountInv => Accounted
  BY Zenon DEF AccountInv
<1> QED BY <1>1, <1>2, AccountStep, PTL DEF Spec

-----------------------------------------------------------------------------
(* The failure log. *)

StatsRecord   == [failing : Nat, warned : Nat, suppressed : Nat]
WarningRecord == [told : Nat, times : Seq(Times)]

Spaced(times) ==
  \A i \in 1 .. Len(times) - 1 : times[i] = 0 \/ times[i + 1] - times[i] >= Window

\* One stream's log agrees with the warnings given: a stream that is not
\* failing has a clean record, one that is has been warned of, and the window is
\* measured from the last warning.
Agree(st, w) ==
  /\ st.failing = w.told + st.suppressed
  /\ st.failing = 0 => st = NoStats /\ w = NoWarning
  /\ st.failing > 0 => w.told > 0
  /\ st.warned = IF w.times = <<>> THEN 0 ELSE w.times[Len(w.times)]
  /\ Spaced(w.times)

LogInv ==
  /\ now \in Times
  /\ stats \in [Streams -> StatsRecord] /\ warnings \in [Streams -> WarningRecord]
  /\ \A s \in Streams : Agree(stats[s], warnings[s])

LEMMA CleanLog ==
  NoStats \in StatsRecord /\ NoWarning \in WarningRecord /\ Agree(NoStats, NoWarning)
BY DEF NoStats, NoWarning, StatsRecord, WarningRecord, Agree, Spaced

Warned(w, st) == [told |-> w.told + st.suppressed + 1, times |-> Append(w.times, now)]

\* record_failure, when it warns.
LEMMA FailureWarns ==
  ASSUME NEW st \in StatsRecord, NEW w \in WarningRecord, Agree(st, w), MayWarn(st), now \in Times
  PROVE  /\ RecordFailure(st) \in StatsRecord /\ Warned(w, st) \in WarningRecord
         /\ Agree(RecordFailure(st), Warned(w, st))
<1> Times \subseteq Nat /\ Window \in Nat
  BY Zenon, SelectionAssumption
<1> DEFINE n == [failing |-> st.failing + 1, warned |-> now, suppressed |-> 0]
           v == Warned(w, st)
<1>1. RecordFailure(st) = n /\ n \in StatsRecord
  BY DEF RecordFailure, StatsRecord
<1>2. /\ v.told = w.told + st.suppressed + 1 /\ v.times = Append(w.times, now)
      /\ v \in WarningRecord
  BY DEF Warned, WarningRecord, StatsRecord
<1>3. n.failing = v.told + n.suppressed /\ v.told > 0 /\ n.failing > 0
  <2>1. st.failing = w.told + st.suppressed /\ n.failing = st.failing + 1 /\ n.suppressed = 0
    BY Zenon DEF Agree
  <2>2. st.failing \in Nat /\ st.suppressed \in Nat /\ w.told \in Nat
    BY Zenon DEF WarningRecord, StatsRecord
  <2> HIDE DEF n, v
  <2> QED  BY SMT, <1>2, <2>1, <2>2
<1>4. v.times # <<>> /\ v.times[Len(v.times)] = now
  BY <1>2 DEF WarningRecord
<1>5. Spaced(v.times)
  <2> SUFFICES ASSUME NEW i \in 1 .. Len(v.times) - 1
               PROVE  v.times[i] = 0 \/ v.times[i + 1] - v.times[i] >= Window
    BY Zenon DEF Spaced
  <2>1. Len(v.times) = Len(w.times) + 1 /\ w.times \in Seq(Times)
    BY <1>2 DEF WarningRecord
  <2>2. CASE i = Len(w.times)
    <3>1. v.times[i + 1] = now /\ v.times[i] = w.times[i] /\ w.times # <<>>
      BY <1>2, <2>1, <2>2
    <3>2. st.warned = w.times[i]
      BY Zenon, <3>1, <2>2 DEF Agree
    <3> QED BY Zenon, <3>1, <3>2 DEF MayWarn
  <2>3. CASE i # Len(w.times)
    <3>1. i \in 1 .. Len(w.times) - 1
      BY <2>1, <2>3
    <3>2. v.times[i + 1] = w.times[i + 1] /\ v.times[i] = w.times[i]
      BY <1>2, <2>1, <3>1
    <3> QED BY Zenon, <3>1, <3>2 DEF Agree, Spaced
  <2> QED BY Zenon, <2>2, <2>3
<1> QED BY <1>1, <1>2, <1>3, <1>4, <1>5 DEF Agree

\* record_failure, when it stays silent.
LEMMA FailureSuppressed ==
  ASSUME NEW st \in StatsRecord, NEW w \in WarningRecord, Agree(st, w), ~MayWarn(st)
  PROVE  RecordFailure(st) \in StatsRecord /\ Agree(RecordFailure(st), w)
<1> DEFINE n == [failing |-> st.failing + 1, warned |-> st.warned, suppressed |-> st.suppressed + 1]
<1>1. RecordFailure(st) = n /\ n \in StatsRecord
  BY DEF RecordFailure, StatsRecord
<1>2. n.failing = st.failing + 1 /\ n.suppressed = st.suppressed + 1 /\ n.warned = st.warned
  BY Zenon
<1>3. st.failing # 0
  BY DEF MayWarn, Agree, NoStats
<1> QED BY <1>1, <1>2, <1>3 DEF Agree, StatsRecord, WarningRecord

LEMMA SuccessAgrees ==
  ASSUME NEW st \in StatsRecord, NEW w \in WarningRecord, Agree(st, w)
  PROVE  RecordSuccess(st) = NoStats
BY Zenon DEF RecordSuccess, Agree

LEMMA SelectedStream ==
  ASSUME NEW e \in Events, Gate(e) = "selected" PROVE Suffix[e.name] \in Streams
BY Zenon, SelectionAssumption DEF Gate, Streams, Names

LEMMA LogStep == LogInv /\ [Next]_vars => LogInv'
<1> SUFFICES ASSUME LogInv, [Next]_vars PROVE LogInv'
  BY Zenon
<1>1. ASSUME NEW e \in Events, NotifyWritten(e) PROVE LogInv'
  <2> DEFINE s == Suffix[e.name]
  <2>1. s \in Streams /\ now' = now
    BY Zenon, <1>1, SelectedStream DEF NotifyWritten
  <2>2. /\ stats' = [stats EXCEPT ![s] = NoStats]
        /\ warnings' = [warnings EXCEPT ![s] = NoWarning]
    BY Zenon, <1>1, <2>1, SuccessAgrees DEF NotifyWritten, LogInv
  <2> QED BY Zenon, <2>1, <2>2, CleanLog DEF LogInv
<1>2. ASSUME NEW e \in Events, NotifyLost(e) PROVE LogInv'
  <2> DEFINE s == Suffix[e.name]
  <2>1. /\ s \in Streams /\ now' = now /\ now \in Times
        /\ stats[s] \in StatsRecord /\ warnings[s] \in WarningRecord
        /\ Agree(stats[s], warnings[s])
    BY Zenon, <1>2, SelectedStream DEF NotifyLost, LogInv
  <2>2. stats' = [stats EXCEPT ![s] = RecordFailure(stats[s])]
    BY Zenon, <1>2, <2>1 DEF NotifyLost, LogInv
  <2>3. CASE MayWarn(stats[s])
    <3>1. warnings' = [warnings EXCEPT ![s] = Warned(warnings[s], stats[s])]
      BY Zenon, <1>2, <2>1, <2>3 DEF NotifyLost, LogInv, Warned
    <3>2. /\ RecordFailure(stats[s]) \in StatsRecord
          /\ Warned(warnings[s], stats[s]) \in WarningRecord
          /\ Agree(RecordFailure(stats[s]), Warned(warnings[s], stats[s]))
      BY Zenon, <2>1, <2>3, FailureWarns
    <3> QED BY Zenon, <2>1, <2>2, <3>1, <3>2 DEF LogInv
  <2>4. CASE ~MayWarn(stats[s])
    <3>1. warnings' = warnings
      BY Zenon, <1>2, <2>4 DEF NotifyLost
    <3>2. /\ RecordFailure(stats[s]) \in StatsRecord
          /\ Agree(RecordFailure(stats[s]), warnings[s])
      BY Zenon, <2>1, <2>4, FailureSuppressed
    <3> QED BY Zenon, <2>1, <2>2, <3>1, <3>2 DEF LogInv
  <2> QED BY Zenon, <2>3, <2>4
<1>3. CASE /\ stats' = [s \in Streams |-> NoStats]
           /\ warnings' = [s \in Streams |-> NoWarning]
           /\ now' = now
  BY Zenon, <1>3, CleanLog DEF LogInv
<1>4. CASE UNCHANGED <<stats, warnings>> /\ now' \in Times
  BY Zenon, <1>4 DEF LogInv
<1>5. now \in Times
  BY Zenon DEF LogInv
<1>6. ASSUME Loading \/ Flush \/ (\E kept \in BOOLEAN : LoadFailsEarly(kept) \/ Unload(kept))
      PROVE  LogInv'
  BY <1>3, <1>4, <1>5, <1>6
     DEF Loading, Flush, Load, LoadRejected, LoadFailsLate, LoadFailsEarly, Unload, ResetStats
<1>7. ASSUME Configure \/ (\E m \in BOOLEAN : SetMaster(m)) \/ (\E t \in Times : SetClock(t))
      PROVE  LogInv'
  BY Zenon, <1>4, <1>5, <1>7
     DEF Configure, SetFilter, SetKeyFilter, SetSourceDbs, SetEnabled, SetMaster, SetClock
<1>8. ASSUME NEW e \in Events, NotifySkipped(e) \/ NotifyDropped(e) PROVE LogInv'
  BY Zenon, <1>4, <1>5, <1>8 DEF NotifySkipped, NotifyDropped
<1>9. CASE UNCHANGED vars
  BY Zenon, <1>4, <1>5, <1>9 DEF vars
<1> QED
  BY Zenon, <1>1, <1>2, <1>6, <1>7, <1>8, <1>9 DEF Next, Notification

LEMMA LogInvariant == Spec => []LogInv
<1>1. Init => LogInv
  BY Zenon, CleanLog DEF Init, LogInv
<1> QED BY <1>1, LogStep, PTL DEF Spec

\* The warnings of a failing streak and the recovery notice tell of every
\* refused write exactly once, for every window and whatever the clock does.
THEOREM ReportsCorrect == Spec => []ReportsExact
<1>1. LogInv => ReportsExact
  BY Zenon DEF LogInv, Agree, ReportsExact
<1> QED BY <1>1, LogInvariant, PTL

\* The warnings of a streak are a window apart unless the clock read 0.
THEOREM SpacingCorrect == Spec => []WarnSpacing
<1>1. LogInv => WarnSpacing
  BY Zenon DEF LogInv, Agree, Spaced, WarnSpacing
<1> QED BY <1>1, LogInvariant, PTL

-----------------------------------------------------------------------------
(* The decision. *)

\* What the gates read is what the setters parsed from the text CONFIG GET shows,
\* and the key filter in force is the default or a text that parse_key_filter took.
ParsedInv ==
  /\ filter = Config(filter.raw, ParseFilter(filter.raw))
  /\ keyFilter = Config(keyFilter.raw, ParseKeyFilter(keyFilter.raw))
  /\ sourceDbs = Config(sourceDbs.raw, ParseSourceDbs(sourceDbs.raw))
  /\ keyFilter.raw = {AnyKey} \/ (keyFilter.raw \in KeyTexts /\ KeyFilterParses(keyFilter.raw))

LEMMA ParsedStep == ParsedInv /\ [Next]_vars => ParsedInv'
<1> SUFFICES ASSUME ParsedInv, [Next]_vars PROVE ParsedInv'
  BY Zenon
<1>1. ASSUME NEW f \in FilterTexts, NEW k \in KeyTexts, NEW d \in DbTexts, NEW on \in BOOLEAN,
             Load(f, k, d, on)
      PROVE  ParsedInv'
  BY Zenon, <1>1, ConfigFields DEF Load, ParsedInv
<1>2. ASSUME NEW f \in FilterTexts, SetFilter(f) PROVE ParsedInv'
  BY Zenon, <1>2, ConfigFields DEF SetFilter, ParsedInv
<1>3. ASSUME NEW k \in KeyTexts, SetKeyFilter(k) PROVE ParsedInv'
  BY Zenon, <1>3, ConfigFields DEF SetKeyFilter, ParsedInv
<1>4. ASSUME NEW d \in DbTexts, SetSourceDbs(d) PROVE ParsedInv'
  BY Zenon, <1>4, ConfigFields DEF SetSourceDbs, ParsedInv
<1>5. CASE UNCHANGED <<filter, keyFilter, sourceDbs>>
  BY Zenon, <1>5 DEF ParsedInv
<1>6. ASSUME \/ \E on \in BOOLEAN : SetEnabled(on)
             \/ \E kept \in BOOLEAN : LoadFailsEarly(kept) \/ Unload(kept)
             \/ \E f \in FilterTexts, k \in KeyTexts, d \in DbTexts, kept \in BOOLEAN :
                  LoadRejected(f, k, d, kept) \/ LoadFailsLate(f, k, d, kept)
      PROVE  UNCHANGED <<filter, keyFilter, sourceDbs>>
  BY Zenon, <1>6 DEF SetEnabled, LoadFailsEarly, Unload, LoadRejected, LoadFailsLate, config
<1>7. ASSUME Flush \/ (\E m \in BOOLEAN : SetMaster(m)) \/ (\E t \in Times : SetClock(t))
      PROVE  UNCHANGED <<filter, keyFilter, sourceDbs>>
  BY Zenon, <1>7 DEF Flush, SetMaster, SetClock, config
<1>8. ASSUME Notification PROVE UNCHANGED <<filter, keyFilter, sourceDbs>>
  BY Zenon, <1>8 DEF Notification, NotifySkipped, NotifyWritten, NotifyLost, NotifyDropped, config
<1>9. CASE UNCHANGED vars
  BY Zenon, <1>5, <1>9 DEF vars, config
<1> QED
  BY Zenon, <1>1, <1>2, <1>3, <1>4, <1>5, <1>6, <1>7, <1>8, <1>9 DEF Next, Loading, Configure

LEMMA ParsedInvariant == Spec => []ParsedInv
<1>1. Init => ParsedInv
  BY ConfigFields DEF Init, ParsedInv
<1> QED BY <1>1, ParsedStep, PTL DEF Spec

LEMMA ParsedFields ==
  ASSUME NEW t
  PROVE  /\ ParseKeyFilter(t).star = (AnyKey \in t) /\ ParseKeyFilter(t).patterns = t \ {AnyKey}
         /\ ParseSourceDbs(t).star = (AnyDb \in t) /\ ParseSourceDbs(t).dbs = t \ {AnyDb}
<1>1. \A a, b : [star |-> a, patterns |-> b].star = a /\ [star |-> a, patterns |-> b].patterns = b
  BY Zenon
<1>2. \A a, b : [star |-> a, dbs |-> b].star = a /\ [star |-> a, dbs |-> b].dbs = b
  BY Zenon
<1> QED BY <1>1, <1>2, Zenon DEF ParseKeyFilter, ParseSourceDbs

\* The matcher is right about the patterns it can be given and the keys at hand.
MatcherRight ==
  \A text \in KeyTexts : KeyFilterParses(text) =>
    \A p \in text \ {AnyKey} : \A e \in Events : KeyMatch(p, e.key) <=> KeyMeans(p, e.key)

LEMMA GateSelected ==
  ASSUME ParsedInv, MatcherRight, NEW e \in Events
  PROVE  (Gate(e) = "selected") = Selected(e)
<1>1. FilterMatches(filter.parsed, e)
        <=> \E t \in filter.raw : \/ t.kind = "star"
                                  \/ t.kind = "class" /\ t.value = e.class
                                  \/ t.kind = "name" /\ t.value = e.name
  <2>1. filter.parsed = ParseFilter(filter.raw)
    BY ZenonT(40), ConfigFields DEF ParsedInv
  <2> QED BY <2>1 DEF FilterMatches, ParseFilter
<1>2. KeyFilterMatches(keyFilter.parsed, e.key)
        <=> AnyKey \in keyFilter.raw \/ \E p \in keyFilter.raw : KeyMeans(p, e.key)
  <2>1. keyFilter.parsed = ParseKeyFilter(keyFilter.raw)
    BY ZenonT(40), ConfigFields DEF ParsedInv
  <2>2. /\ keyFilter.parsed.star = (AnyKey \in keyFilter.raw)
        /\ keyFilter.parsed.patterns = keyFilter.raw \ {AnyKey}
    BY <2>1, ParsedFields, Zenon
  <2>3. AnyKey \in keyFilter.raw \/ \A p \in keyFilter.raw : KeyMatch(p, e.key) <=> KeyMeans(p, e.key)
    BY Zenon DEF ParsedInv, MatcherRight
  <2> QED BY Zenon, <2>2, <2>3 DEF KeyFilterMatches
<1>3. DbMatches(sourceDbs.parsed, e.db) <=> AnyDb \in sourceDbs.raw \/ e.db \in sourceDbs.raw
  <2>1. sourceDbs.parsed = ParseSourceDbs(sourceDbs.raw)
    BY ZenonT(40), ConfigFields DEF ParsedInv
  <2>2. /\ sourceDbs.parsed.star = (AnyDb \in sourceDbs.raw)
        /\ sourceDbs.parsed.dbs = sourceDbs.raw \ {AnyDb}
    BY <2>1, ParsedFields, Zenon
  <2> QED BY Zenon, <2>2 DEF DbMatches
<1> QED BY Zenon, <1>1, <1>2, <1>3 DEF Gate, Selected

\* The gates pass exactly what the texts in force select, for every sequence of
\* loads and CONFIG SETs, if the key matcher does what its patterns mean on the
\* patterns and keys of the instance; FilterCorrect discharges that of glob_match.
THEOREM DecisionCorrect ==
  ASSUME MatcherRight
  PROVE  Spec => []CapturedAsConfigured
<1>1. ParsedInv => CapturedAsConfigured
  BY Zenon, GateSelected DEF CapturedAsConfigured
<1> QED BY <1>1, ParsedInvariant, PTL

-----------------------------------------------------------------------------
(* Types: the counters and the log have theirs by the invariants above. *)

FormInv ==
  /\ subscribed \in (SUBSET Extra) \cup {Uninit}
  /\ loaded \in BOOLEAN /\ mask \in SUBSET (AllClasses \cup Extra)
  /\ enabled \in BOOLEAN /\ master \in BOOLEAN /\ stale \in BOOLEAN
  /\ filter.parsed.star \in BOOLEAN /\ keyFilter.parsed.star \in BOOLEAN
  /\ sourceDbs.parsed.dbs \subseteq Nat
  /\ left \in 0 .. MaxSteps

LEMMA ExtraOfType == \A f : ExtraOf(ParseFilter(f)) \in SUBSET Extra
BY Zenon DEF ExtraOf

LEMMA ParsedTypes ==
  /\ \A f : ParseFilter(f).star \in BOOLEAN
  /\ \A k : ParseKeyFilter(k).star \in BOOLEAN
  /\ \A d \in DbTexts : DbsParse(d) => ParseSourceDbs(d).dbs \subseteq Nat
<1>1. \A a, b, c : [star |-> a, classes |-> b, names |-> c].star = a
  BY Zenon
<1>2. \A a, b : [star |-> a, patterns |-> b].star = a
  BY Zenon
<1>3. \A d : ParseSourceDbs(d).dbs = d \ {AnyDb}
  BY Zenon, ParsedFields
<1>4. \A f : ParseFilter(f).star \in BOOLEAN
  BY Zenon, <1>1 DEF ParseFilter
<1>5. \A d \in DbTexts : DbsParse(d) => ParseSourceDbs(d).dbs \subseteq Nat
  <2> SUFFICES ASSUME NEW d \in DbTexts, DbsParse(d), NEW x \in d \ {AnyDb} PROVE x \in Nat
    BY Zenon, <1>3
  <2>1. d \subseteq Nat \cup {AnyDb, BadDb}
    BY Zenon, SelectionAssumption
  <2> QED BY Zenon, <2>1 DEF DbsParse
<1>6. \A k : ParseKeyFilter(k).star \in BOOLEAN
  <2> SUFFICES ASSUME NEW k PROVE ParseKeyFilter(k).star \in BOOLEAN
    BY Zenon
  <2>1. ParseKeyFilter(k).star = (AnyKey \in k)
    BY Zenon, <1>2 DEF ParseKeyFilter
  <2>2. CASE AnyKey \in k
    <3>1. (AnyKey \in k) = TRUE
      BY <2>2
    <3> QED BY Zenon, <2>1, <3>1
  <2>3. CASE AnyKey \notin k
    <3>1. (AnyKey \in k) = FALSE
      BY <2>3
    <3> QED BY Zenon, <2>1, <3>1
  <2> QED BY Zenon, <2>2, <2>3
<1> QED BY Zenon, <1>4, <1>5, <1>6

LEMMA FormStep == FormInv /\ [Next]_vars => FormInv'
<1> SUFFICES ASSUME FormInv, [Next]_vars PROVE FormInv'
  BY Zenon
<1>s. ASSUME Step PROVE left' \in 0 .. MaxSteps
  BY <1>s, SelectionAssumption DEF Step, FormInv
<1>1. ASSUME NEW f \in FilterTexts, NEW k \in KeyTexts, NEW d \in DbTexts, NEW on \in BOOLEAN,
             Load(f, k, d, on)
      PROVE  FormInv'
  <2>1. ExtraOf(ParseFilter(f)) \in SUBSET Extra
    BY Zenon, ExtraOfType
  <2>2. /\ subscribed' \in SUBSET Extra /\ mask' = AllClasses \cup subscribed' /\ loaded' = TRUE
        /\ enabled' = on /\ stale' = FALSE /\ master' = master /\ left' \in 0 .. MaxSteps
        /\ filter'.parsed = ParseFilter(f) /\ keyFilter'.parsed = ParseKeyFilter(k)
        /\ sourceDbs'.parsed = ParseSourceDbs(d) /\ DbsParse(d)
    BY Zenon, <1>1, <1>s, <2>1, ConfigFields DEF Load
  <2>3. mask' \in SUBSET (AllClasses \cup Extra)
    BY Zenon, <2>2
  <2> QED BY Zenon, <2>2, <2>3, ParsedTypes DEF FormInv, Uninit
<1>2. ASSUME NEW f \in FilterTexts, NEW k \in KeyTexts, NEW d \in DbTexts, NEW kept \in BOOLEAN,
             LoadRejected(f, k, d, kept) \/ LoadFailsLate(f, k, d, kept)
      PROVE  FormInv'
  <2>1. /\ UNCHANGED <<loaded, mask, enabled, filter, keyFilter, sourceDbs, master>>
        /\ left' \in 0 .. MaxSteps
        /\ stale' = (stale /\ kept) \/ stale' = kept
        /\ subscribed' = subscribed \/ subscribed' = Uninit \/ subscribed' = ExtraOf(ParseFilter(f))
    BY Zenon, <1>2, <1>s DEF LoadRejected, LoadFailsLate, Leave, config
  <2>2. stale' \in BOOLEAN
    BY Zenon, <2>1 DEF FormInv
  <2>3. subscribed' \in (SUBSET Extra) \cup {Uninit}
    BY Zenon, <2>1, ExtraOfType DEF FormInv
  <2> QED BY Zenon, <2>1, <2>2, <2>3 DEF FormInv, Uninit
<1>3. ASSUME NEW kept \in BOOLEAN, LoadFailsEarly(kept) \/ Unload(kept)
      PROVE  FormInv'
  <2>1. /\ UNCHANGED <<enabled, filter, keyFilter, sourceDbs, master>>
        /\ left' \in 0 .. MaxSteps
        /\ loaded' \in {loaded, FALSE} /\ mask' \in {mask, {}}
        /\ stale' = (stale /\ kept) \/ stale' = stale
        /\ subscribed' = subscribed \/ subscribed' = Uninit
    BY Zenon, <1>3, <1>s DEF LoadFailsEarly, Unload, Leave, config
  <2>2. loaded' \in BOOLEAN /\ stale' \in BOOLEAN /\ mask' \in SUBSET (AllClasses \cup Extra)
    BY Zenon, <2>1 DEF FormInv
  <2>3. subscribed' \in (SUBSET Extra) \cup {Uninit}
    BY Zenon, <2>1 DEF FormInv
  <2> QED BY Zenon, <2>1, <2>2, <2>3 DEF FormInv, Uninit
<1>4. ASSUME Configure PROVE FormInv'
  <2>1. ASSUME NEW f \in FilterTexts, SetFilter(f) PROVE FormInv'
    <3>1. /\ UNCHANGED <<subscribed, loaded, mask, enabled, keyFilter, sourceDbs, master, stale>>
          /\ left' \in 0 .. MaxSteps
      BY Zenon, <1>s, <2>1 DEF SetFilter
    <3>2. filter'.parsed.star \in BOOLEAN
      <4>1. filter' = filter \/ (filter'.parsed = ParseFilter(f))
        BY Zenon, <2>1, ConfigFields DEF SetFilter
      <4> QED BY Zenon, <4>1, ParsedTypes DEF FormInv
    <3> QED BY Zenon, <3>1, <3>2 DEF FormInv, Uninit
  <2>2. ASSUME NEW k \in KeyTexts, SetKeyFilter(k) PROVE FormInv'
    <3>1. /\ UNCHANGED <<subscribed, loaded, mask, enabled, filter, sourceDbs, master, stale>>
          /\ left' \in 0 .. MaxSteps
      BY Zenon, <1>s, <2>2 DEF SetKeyFilter
    <3>2. keyFilter'.parsed.star \in BOOLEAN
      <4>1. keyFilter' = keyFilter \/ (keyFilter'.parsed = ParseKeyFilter(k))
        BY Zenon, <2>2, ConfigFields DEF SetKeyFilter
      <4> QED BY Zenon, <4>1, ParsedTypes DEF FormInv
    <3> QED BY Zenon, <3>1, <3>2 DEF FormInv, Uninit
  <2>3. ASSUME NEW d \in DbTexts, SetSourceDbs(d) PROVE FormInv'
    <3>1. /\ UNCHANGED <<subscribed, loaded, mask, enabled, filter, keyFilter, master, stale>>
          /\ left' \in 0 .. MaxSteps
      BY Zenon, <1>s, <2>3 DEF SetSourceDbs
    <3>2. sourceDbs'.parsed.dbs \subseteq Nat
      <4>1. sourceDbs' = sourceDbs \/ (sourceDbs'.parsed = ParseSourceDbs(d) /\ DbsParse(d))
        BY Zenon, <2>3, ConfigFields DEF SetSourceDbs
      <4> QED BY Zenon, <4>1, ParsedTypes DEF FormInv
    <3> QED BY Zenon, <3>1, <3>2 DEF FormInv, Uninit
  <2>4. ASSUME NEW on \in BOOLEAN, SetEnabled(on) PROVE FormInv'
    BY Zenon, <1>s, <2>4 DEF SetEnabled, FormInv, Uninit
  <2> QED BY Zenon, <1>4, <2>1, <2>2, <2>3, <2>4 DEF Configure
<1>5. ASSUME NEW m \in BOOLEAN, SetMaster(m) PROVE FormInv'
  BY Zenon, <1>s, <1>5 DEF SetMaster, config, FormInv, Uninit
<1>6. ASSUME Flush \/ Notification \/ \E t \in Times : SetClock(t)
      PROVE  FormInv'
  <2>1. /\ UNCHANGED <<subscribed, loaded, mask, enabled, filter, keyFilter, sourceDbs, master, stale>>
        /\ left' \in 0 .. MaxSteps
    BY Zenon, <1>6, <1>s
       DEF Flush, Notification, SetClock, NotifySkipped, NotifyWritten, NotifyLost, NotifyDropped, config
  <2> QED BY Zenon, <2>1 DEF FormInv, Uninit
<1>7. CASE UNCHANGED vars
  BY Zenon, <1>7 DEF vars, config, FormInv, Uninit
<1> QED BY Zenon, <1>1, <1>2, <1>3, <1>4, <1>5, <1>6, <1>7 DEF Next, Loading

\* Every variable keeps its type, over all loads, failures, settings and events.
THEOREM TypeCorrect == Spec => []TypeOK
<1>1. Init => FormInv
  <2> SUFFICES ASSUME Init PROVE FormInv
    BY Zenon
  <2>1. left \in 0 .. MaxSteps
    BY SelectionAssumption DEF Init
  <2>2. /\ filter.parsed = ParseFilter({}) /\ keyFilter.parsed = ParseKeyFilter({AnyKey})
        /\ sourceDbs.parsed = ParseSourceDbs({AnyDb})
    BY Zenon, ConfigFields DEF Init
  <2>3. ParseSourceDbs({AnyDb}).dbs = {AnyDb} \ {AnyDb}
    BY Zenon, ParsedFields
  <2>4. sourceDbs.parsed.dbs \subseteq Nat
    BY Zenon, <2>2, <2>3
  <2>5. filter.parsed.star \in BOOLEAN /\ keyFilter.parsed.star \in BOOLEAN
    BY Zenon, <2>2, ParsedTypes
  <2>6. /\ subscribed = Uninit /\ loaded = FALSE /\ mask = {} /\ enabled = TRUE
        /\ master = TRUE /\ stale = FALSE
    BY Zenon DEF Init
  <2> QED BY Zenon, <2>1, <2>4, <2>5, <2>6 DEF FormInv
<1>2. Init => AccountInv
  BY ZeroesAccounted DEF Init, AccountInv, Accounted, Zeroes
<1>3. FormInv /\ AccountInv /\ LogInv => TypeOK
  BY Zenon DEF FormInv, AccountInv, LogInv, TypeOK, Counters, StatsRecord, WarningRecord
<1> QED BY <1>1, <1>2, <1>3, FormStep, AccountStep, LogInvariant, PTL DEF Spec

-----------------------------------------------------------------------------
(***************************************************************************)
(* The glob matcher.  Its loops and calls, and the meaning of a pattern,    *)
(* are recursive functions.  A recursive function satisfies its equation if *)
(* every call it makes ranks lower (Fixpoint), and what holds of a call if  *)
(* it holds of all that rank lower holds of every call (ByRank).            *)
(***************************************************************************)
INSTANCE FiniteSetTheorems

LEMMA LeastOf ==
  ASSUME NEW T \in SUBSET Nat, T # {}
  PROVE  \E x \in T : \A y \in T : x <= y
<1>1. \E x \in T : \A y \in T : ~(<<y, x>> \in OpToRel(<, Nat))
  BY Zenon, NatLessThanWellFounded, WFMin
<1>2. \A x, y \in T : ~(<<y, x>> \in OpToRel(<, Nat)) => x <= y
  BY DEF OpToRel
<1> QED BY Zenon, <1>1, <1>2

LEMMA ByRank ==
  ASSUME NEW D, NEW rank \in [D -> Nat], NEW G,
         \A x \in D : (\A y \in D : rank[y] < rank[x] => y \in G) => x \in G
  PROVE  D \subseteq G
<1> DEFINE T == {rank[x] : x \in D \ G}
<1> SUFFICES ASSUME NEW z \in D, z \notin G PROVE FALSE
  BY Zenon
<1>0. \A x \in D : rank[x] \in Nat /\ (x \notin G => rank[x] \in T)
  BY Zenon
<1>1. T \in SUBSET Nat /\ T # {}
  <2>1. ASSUME NEW m \in T PROVE m \in Nat
    <3>1. PICK x \in D \ G : m = rank[x]
      BY Zenon
    <3> QED BY Zenon, <1>0, <3>1
  <2> QED BY Zenon, <1>0, <2>1
<1>2. PICK n \in T : \A m \in T : n <= m
  BY Zenon, <1>1, LeastOf
<1>3. PICK x \in D \ G : n = rank[x]
  BY Zenon, <1>2
<1>4. PICK y \in D : rank[y] < rank[x] /\ y \notin G
  BY Zenon, <1>3
<1>5. rank[x] <= rank[y]
  BY Zenon, <1>0, <1>2, <1>3, <1>4
<1>6. rank[x] \in Nat /\ rank[y] \in Nat
  BY Zenon
<1> QED BY <1>4, <1>5, <1>6

\* H computes a value in V for each member of D from those of lower rank.
Ranked(H, D, V, rank) ==
  /\ V # {}
  /\ \E N \in Nat : rank \in [D -> 0 .. N]
  /\ H \in [[D -> V] -> [D -> V]]
  /\ \A f, g \in [D -> V] : \A x \in D :
       (\A y \in D : rank[y] < rank[x] => f[y] = g[y]) => H[f][x] = H[g][x]

LEMMA Fixpoint ==
  ASSUME NEW H, NEW D, NEW V, NEW rank, Ranked(H, D, V, rank)
  PROVE  \E f \in [D -> V] : f = H[f]
<1>v. PICK v \in V : TRUE
  BY Zenon DEF Ranked
<1>n. PICK N \in Nat : rank \in [D -> 0 .. N]
  BY Zenon DEF Ranked
<1>h. H \in [[D -> V] -> [D -> V]]
  BY Zenon DEF Ranked
<1>l. ASSUME NEW f \in [D -> V], NEW g \in [D -> V], NEW x \in D,
             \A y \in D : rank[y] < rank[x] => f[y] = g[y]
      PROVE  H[f][x] = H[g][x]
  BY Zenon, <1>l DEF Ranked
<1> DEFINE Good(n) == \E f \in [D -> V] : \A x \in D : rank[x] < n => f[x] = H[f][x]
           M == 0 .. N + 1
           size == [n \in M |-> n]
           G == {n \in M : Good(n)}
<1>1. \A x \in D : rank[x] \in 0 .. N
  BY Zenon, <1>n
<1>2. Good(0)
  <2> DEFINE f == [x \in D |-> v]
  <2>1. f \in [D -> V]
    BY Zenon
  <2>2. \A x \in D : ~(rank[x] < 0)
    BY <1>1
  <2> QED BY Zenon, <2>1, <2>2
<1>3. ASSUME NEW n \in M, n # 0, Good(n - 1) PROVE Good(n)
  <2>1. PICK f \in [D -> V] : \A x \in D : rank[x] < n - 1 => f[x] = H[f][x]
    BY Zenon, <1>3
  <2>2. H[f] \in [D -> V]
    BY Zenon, <1>h
  <2>3. ASSUME NEW x \in D, rank[x] < n PROVE H[f][x] = H[H[f]][x]
    <3>1. ASSUME NEW y \in D, rank[y] < rank[x] PROVE f[y] = H[f][y]
      <4>1. rank[x] \in 0 .. N /\ rank[y] \in 0 .. N
        BY Zenon, <1>1
      <4>2. rank[y] < n - 1
        BY <2>3, <3>1, <4>1
      <4> QED BY Zenon, <2>1, <4>2
    <3> QED BY Zenon, <1>l, <2>2, <3>1
  <2> QED BY Zenon, <2>2, <2>3
<1> HIDE DEF Good
<1>4. size \in [M -> Nat] /\ \A n \in M : size[n] = n
  OBVIOUS
<1> HIDE DEF size
<1>5. ASSUME NEW n \in M, \A m \in M : size[m] < size[n] => m \in G PROVE n \in G
  <2>1. CASE n = 0
    BY Zenon, <1>2, <2>1
  <2>2. CASE n # 0
    <3>1. n - 1 \in M /\ n - 1 < n
      BY <2>2
    <3>2. n - 1 \in G
      BY Zenon, <1>4, <1>5, <3>1
    <3> QED BY Zenon, <1>3, <2>2, <3>2
  <2> QED BY Zenon, <2>1, <2>2
<1>6. N + 1 \in M
  OBVIOUS
<1> HIDE DEF M, G
<1>7. N + 1 \in G
  <2>1. M \subseteq G
    BY Zenon, <1>4, <1>5, ByRank
  <2> QED BY Zenon, <1>6, <2>1
<1>8. PICK f \in [D -> V] : \A x \in D : rank[x] < N + 1 => f[x] = H[f][x]
  BY Zenon, <1>7 DEF G, Good
<1>9. \A x \in D : rank[x] < N + 1
  BY <1>1
<1>10. H[f] \in [D -> V] /\ \A x \in D : f[x] = H[f][x]
  BY Zenon, <1>h, <1>8, <1>9
<1>11. f = [x \in D |-> f[x]] /\ H[f] = [x \in D |-> H[f][x]]
  BY Zenon, <1>10
<1> QED BY Zenon, <1>10, <1>11

\* The bodies of the two recursive functions on a class.
ClassTurn(loop, pat, c, pi) ==
  LET found(here, pj) == [at |-> loop[pj].at, matched |-> here \/ loop[pj].matched]
  IN  IF pi > Len(pat) THEN [at |-> pi - 1, matched |-> FALSE]
      ELSE IF pat[pi] = Escape /\ pi + 1 <= Len(pat) THEN found(pat[pi + 1] = c, pi + 2)
      ELSE IF pat[pi] = Close THEN [at |-> pi, matched |-> FALSE]
      ELSE IF pi + 2 <= Len(pat) /\ pat[pi + 1] = Dash
        THEN found(c \in Between(pat[pi], pat[pi + 2]), pi + 3)
      ELSE found(pat[pi] = c, pi + 1)

ClassItems(class, pat, pi) ==
  LET add(set, pj) == [bytes |-> set \cup class[pj].bytes, next |-> class[pj].next]
  IN  IF pi > Len(pat) THEN [bytes |-> {}, next |-> pi]
      ELSE IF pat[pi] = Close THEN [bytes |-> {}, next |-> pi + 1]
      ELSE IF pat[pi] = Escape /\ pi < Len(pat) THEN add({pat[pi + 1]}, pi + 2)
      ELSE IF pi + 1 < Len(pat) /\ pat[pi + 1] = Dash
        THEN add(Between(pat[pi], pat[pi + 2]), pi + 3)
      ELSE add({pat[pi]}, pi + 1)

Ends(pat) == 1 .. Len(pat) + 1
Later(pat) == [pi \in Ends(pat) |-> Len(pat) + 1 - pi]

LEMMA LaterFacts ==
  ASSUME NEW pat \in Seq(Bytes)
  PROVE  /\ Len(pat) \in Nat /\ Later(pat) \in [Ends(pat) -> 0 .. Len(pat)]
         /\ Later(pat) \in [Ends(pat) -> Nat]
         /\ \A i, j \in Ends(pat) : i < j => Later(pat)[j] < Later(pat)[i]
         /\ \A i \in DOMAIN pat : pat[i] \in Bytes
         /\ DOMAIN pat = 1 .. Len(pat)
<1>1. Len(pat) \in Nat /\ \A i \in DOMAIN pat : pat[i] \in Bytes
  OBVIOUS
<1>2. \A i \in Ends(pat) : Later(pat)[i] = Len(pat) + 1 - i
  BY Zenon DEF Later
<1>3. \A i, j \in Ends(pat) : i < j => Later(pat)[j] < Later(pat)[i]
  BY <1>1, <1>2 DEF Ends
<1>4. \A i \in Ends(pat) : Len(pat) + 1 - i \in 0 .. Len(pat) /\ Len(pat) + 1 - i \in Nat
  BY <1>1 DEF Ends
<1>5. Later(pat) \in [Ends(pat) -> 0 .. Len(pat)] /\ Later(pat) \in [Ends(pat) -> Nat]
  BY Zenon, <1>4 DEF Later
<1>6. DOMAIN pat = 1 .. Len(pat)
  OBVIOUS
<1> QED BY Zenon, <1>1, <1>3, <1>5, <1>6

\* Induction from the end of a pattern.
LEMMA Backwards ==
  ASSUME NEW pat \in Seq(Bytes), NEW G,
         \A pi \in Ends(pat) : (\A pj \in Ends(pat) : pi < pj => pj \in G) => pi \in G
  PROVE  Ends(pat) \subseteq G
<1> DEFINE D == Ends(pat)
           rank == Later(pat)
<1>1. rank \in [D -> Nat] /\ \A i, j \in D : i < j => rank[j] < rank[i]
  BY Zenon, LaterFacts
<1>2. \A pi \in D : (\A pj \in D : rank[pj] < rank[pi] => pj \in G) => pi \in G
  BY Zenon, <1>1
<1> HIDE DEF D, rank
<1>3. D \subseteq G
  BY Zenon, <1>1, <1>2, ByRank
<1> QED BY Zenon, <1>3 DEF D

\* The places a turn of either loop can go on at.
LEMMA Onward ==
  ASSUME NEW pat \in Seq(Bytes), NEW pi \in Ends(pat)
  PROVE  /\ pi > Len(pat) \/ (pi + 1 \in Ends(pat) /\ pi < pi + 1 /\ pi \in DOMAIN pat)
         /\ pi + 1 <= Len(pat) => (pi + 2 \in Ends(pat) /\ pi < pi + 2 /\ pi + 1 \in DOMAIN pat)
         /\ pi + 2 <= Len(pat) => (pi + 3 \in Ends(pat) /\ pi < pi + 3 /\ pi + 2 \in DOMAIN pat)
         /\ pi < Len(pat) <=> pi + 1 <= Len(pat)
         /\ pi + 1 < Len(pat) <=> pi + 2 <= Len(pat)
BY DEF Ends

ClassFound == [at : Nat, matched : BOOLEAN]
ClassBytes == [bytes : SUBSET Bytes, next : Nat]

LEMMA ClassTurnType ==
  ASSUME NEW pat \in Seq(Bytes), NEW c, NEW f \in [Ends(pat) -> ClassFound], NEW pi \in Ends(pat)
  PROVE  ClassTurn(f, pat, c, pi) \in ClassFound
<1>1. pi \in Nat /\ pi - 1 \in Nat
  BY DEF Ends
<1>2. \A pj \in Ends(pat) : f[pj].at \in Nat /\ f[pj].matched \in BOOLEAN
  BY DEF ClassFound
<1>3. \A b \in BOOLEAN, pj \in Ends(pat) :
        [at |-> f[pj].at, matched |-> b \/ f[pj].matched] \in ClassFound
  BY Zenon, <1>2 DEF ClassFound
<1>4. (pat[pi] = c) \in BOOLEAN /\ (pat[pi + 1] = c) \in BOOLEAN
      /\ (c \in Between(pat[pi], pat[pi + 2])) \in BOOLEAN
  OBVIOUS
<1>5. [at |-> pi - 1, matched |-> FALSE] \in ClassFound /\ [at |-> pi, matched |-> FALSE] \in ClassFound
  BY Zenon, <1>1 DEF ClassFound
<1> QED BY Zenon, <1>3, <1>4, <1>5, Onward DEF ClassTurn

\* Two functions that agree behind pi.
Alike(f, g, pat, pi) == \A pj \in Ends(pat) : pi < pj => f[pj] = g[pj]

LEMMA ClassTurnLocal ==
  ASSUME NEW pat \in Seq(Bytes), NEW c, NEW pi \in Ends(pat), NEW f, NEW g, Alike(f, g, pat, pi)
  PROVE  ClassTurn(f, pat, c, pi) = ClassTurn(g, pat, c, pi)
BY Zenon, Onward DEF ClassTurn, Alike

LEMMA ClassLoopTurns ==
  ASSUME NEW pat \in Seq(Bytes), NEW c
  PROVE  \A pi \in Ends(pat) : ClassLoop(pat, c)[pi] = ClassTurn(ClassLoop(pat, c), pat, c, pi)
<1> DEFINE D == Ends(pat)
           H == [f \in [D -> ClassFound] |-> [pi \in D |-> ClassTurn(f, pat, c, pi)]]
<1>1. H \in [[D -> ClassFound] -> [D -> ClassFound]]
  BY Zenon, ClassTurnType
<1>2. ASSUME NEW f \in [D -> ClassFound], NEW g \in [D -> ClassFound], NEW pi \in D,
             \A pj \in D : Later(pat)[pj] < Later(pat)[pi] => f[pj] = g[pj]
      PROVE  H[f][pi] = H[g][pi]
  <2>1. Alike(f, g, pat, pi)
    BY Zenon, <1>2, LaterFacts DEF Alike
  <2>2. H[f][pi] = ClassTurn(f, pat, c, pi) /\ H[g][pi] = ClassTurn(g, pat, c, pi)
    BY Zenon
  <2>3. ClassTurn(f, pat, c, pi) = ClassTurn(g, pat, c, pi)
    BY Zenon, <2>1, ClassTurnLocal
  <2> QED BY Zenon, <2>2, <2>3
<1>3. [at |-> 0, matched |-> FALSE] \in ClassFound
  BY DEF ClassFound
<1>4. \A f \in [D -> ClassFound] : H[f] = [pi \in D |-> ClassTurn(f, pat, c, pi)]
  BY Zenon
<1> HIDE DEF H
<1>5. \E f \in [D -> ClassFound] : f = H[f]
  <2>1. Len(pat) \in Nat /\ Later(pat) \in [D -> 0 .. Len(pat)]
    BY Zenon, LaterFacts
  <2> HIDE DEF D
  <2>2. Ranked(H, D, ClassFound, Later(pat))
    BY Zenon, <1>1, <1>2, <1>3, <2>1 DEF Ranked
  <2> QED BY Zenon, <2>2, Fixpoint
<1>6. \E f : f = [pi \in D |-> ClassTurn(f, pat, c, pi)]
  <2> HIDE DEF D
  <2>1. PICK f \in [D -> ClassFound] : f = H[f]
    BY Zenon, <1>5
  <2>2. f = [pi \in D |-> ClassTurn(f, pat, c, pi)]
    BY Zenon, <1>4, <2>1
  <2> QED BY Zenon, <2>2
<1>7. ClassLoop(pat, c) = CHOOSE f : f = [pi \in D |-> ClassTurn(f, pat, c, pi)]
  BY Zenon DEF ClassLoop, ClassTurn, Ends
<1>8. ClassLoop(pat, c) = [pi \in D |-> ClassTurn(ClassLoop(pat, c), pat, c, pi)]
  BY Zenon, <1>6, <1>7
<1> QED BY Zenon, <1>8

LEMMA ClassItemsType ==
  ASSUME NEW pat \in Seq(Bytes), NEW f \in [Ends(pat) -> ClassBytes], NEW pi \in Ends(pat)
  PROVE  ClassItems(f, pat, pi) \in ClassBytes
<1>1. pi \in Nat /\ pi + 1 \in Nat
  BY DEF Ends
<1>2. \A pj \in Ends(pat) : f[pj].bytes \in SUBSET Bytes /\ f[pj].next \in Nat
  BY DEF ClassBytes
<1>3. \A B \in SUBSET Bytes, pj \in Ends(pat) :
        [bytes |-> B \cup f[pj].bytes, next |-> f[pj].next] \in ClassBytes
  <2>1. \A B \in SUBSET Bytes, pj \in Ends(pat) : B \cup f[pj].bytes \in SUBSET Bytes
    BY Zenon, <1>2
  <2> QED BY Zenon, <1>2, <2>1 DEF ClassBytes
<1>4. \A i \in DOMAIN pat : {pat[i]} \in SUBSET Bytes
  BY Zenon, LaterFacts
<1>5. \A i, j : Between(i, j) \in SUBSET Bytes
  BY Zenon DEF Between
<1>6. [bytes |-> {}, next |-> pi] \in ClassBytes /\ [bytes |-> {}, next |-> pi + 1] \in ClassBytes
  BY Zenon, <1>1 DEF ClassBytes
<1> QED BY Zenon, <1>3, <1>4, <1>5, <1>6, Onward DEF ClassItems

LEMMA ClassItemsLocal ==
  ASSUME NEW pat \in Seq(Bytes), NEW pi \in Ends(pat), NEW f, NEW g, Alike(f, g, pat, pi)
  PROVE  ClassItems(f, pat, pi) = ClassItems(g, pat, pi)
BY Zenon, Onward DEF ClassItems, Alike

LEMMA ClassTurns ==
  ASSUME NEW pat \in Seq(Bytes)
  PROVE  \A pi \in Ends(pat) : Class(pat)[pi] = ClassItems(Class(pat), pat, pi)
<1> DEFINE D == Ends(pat)
           H == [f \in [D -> ClassBytes] |-> [pi \in D |-> ClassItems(f, pat, pi)]]
<1>1. H \in [[D -> ClassBytes] -> [D -> ClassBytes]]
  BY Zenon, ClassItemsType
<1>2. ASSUME NEW f \in [D -> ClassBytes], NEW g \in [D -> ClassBytes], NEW pi \in D,
             \A pj \in D : Later(pat)[pj] < Later(pat)[pi] => f[pj] = g[pj]
      PROVE  H[f][pi] = H[g][pi]
  <2>1. Alike(f, g, pat, pi)
    BY Zenon, <1>2, LaterFacts DEF Alike
  <2>2. H[f][pi] = ClassItems(f, pat, pi) /\ H[g][pi] = ClassItems(g, pat, pi)
    BY Zenon
  <2>3. ClassItems(f, pat, pi) = ClassItems(g, pat, pi)
    BY Zenon, <2>1, ClassItemsLocal
  <2> QED BY Zenon, <2>2, <2>3
<1>3. [bytes |-> {}, next |-> 0] \in ClassBytes
  BY DEF ClassBytes
<1>4. \A f \in [D -> ClassBytes] : H[f] = [pi \in D |-> ClassItems(f, pat, pi)]
  BY Zenon
<1> HIDE DEF H
<1>5. \E f \in [D -> ClassBytes] : f = H[f]
  <2>1. Len(pat) \in Nat /\ Later(pat) \in [D -> 0 .. Len(pat)]
    BY Zenon, LaterFacts
  <2> HIDE DEF D
  <2>2. Ranked(H, D, ClassBytes, Later(pat))
    BY Zenon, <1>1, <1>2, <1>3, <2>1 DEF Ranked
  <2> QED BY Zenon, <2>2, Fixpoint
<1>6. \E f : f = [pi \in D |-> ClassItems(f, pat, pi)]
  <2> HIDE DEF D
  <2>1. PICK f \in [D -> ClassBytes] : f = H[f]
    BY Zenon, <1>5
  <2>2. f = [pi \in D |-> ClassItems(f, pat, pi)]
    BY Zenon, <1>4, <2>1
  <2> QED BY Zenon, <2>2
<1>7. Class(pat) = CHOOSE f : f = [pi \in D |-> ClassItems(f, pat, pi)]
  BY Zenon DEF Class, ClassItems, Ends
<1>8. Class(pat) = [pi \in D |-> ClassItems(Class(pat), pat, pi)]
  BY Zenon, <1>6, <1>7
<1> QED BY Zenon, <1>8

\* The loop over a class finds a byte exactly if the class accepts it, and stops
\* where the class ends.
ClassAgrees(pat, c, pi) ==
  /\ ClassLoop(pat, c)[pi].matched \in BOOLEAN
  /\ ClassLoop(pat, c)[pi].matched <=> c \in Class(pat)[pi].bytes
  /\ ClassLoop(pat, c)[pi].at + 1 = Class(pat)[pi].next
  /\ Class(pat)[pi].next \in Ends(pat) /\ pi <= Class(pat)[pi].next

LEMMA ClassCorrect ==
  ASSUME NEW pat \in Seq(Bytes), NEW c \in Bytes
  PROVE  \A pi \in Ends(pat) : ClassAgrees(pat, c, pi)
<1> DEFINE L == ClassLoop(pat, c)
           C == Class(pat)
           G == {pi \in Ends(pat) : ClassAgrees(pat, c, pi)}
<1>1. ASSUME NEW pi \in Ends(pat), \A pj \in Ends(pat) : pi < pj => ClassAgrees(pat, c, pj)
      PROVE  ClassAgrees(pat, c, pi)
  <2>1. L[pi] = ClassTurn(L, pat, c, pi) /\ C[pi] = ClassItems(C, pat, pi)
    BY Zenon, ClassLoopTurns, ClassTurns
  <2>2. \A pj \in Ends(pat) : pi < pj =>
          /\ L[pj].matched \in BOOLEAN /\ (L[pj].matched <=> c \in C[pj].bytes)
          /\ L[pj].at + 1 = C[pj].next /\ C[pj].next \in Ends(pat) /\ pi <= C[pj].next
    <3>1. \A pj \in Ends(pat) : \A n \in Ends(pat) : (pi < pj /\ pj <= n) => pi <= n
      BY LaterFacts DEF Ends
    <3> QED BY Zenon, <1>1, <3>1 DEF ClassAgrees
  <2> HIDE DEF L, C
  <2>3. CASE pi > Len(pat)
    <3>1. L[pi] = [at |-> pi - 1, matched |-> FALSE] /\ C[pi] = [bytes |-> {}, next |-> pi]
      BY Zenon, <2>1, <2>3 DEF ClassTurn, ClassItems
    <3>2. pi - 1 + 1 = pi /\ pi <= pi
      BY DEF Ends
    <3>3. L[pi].at = pi - 1 /\ L[pi].matched = FALSE /\ C[pi].bytes = {} /\ C[pi].next = pi
      BY <3>1
    <3> QED BY Zenon, <3>2, <3>3 DEF ClassAgrees, L, C
  <2>4. ASSUME NEW b \in BOOLEAN, NEW B, NEW pj \in Ends(pat), pi < pj, b <=> c \in B,
               L[pi] = [at |-> L[pj].at, matched |-> b \/ L[pj].matched],
               C[pi] = [bytes |-> B \cup C[pj].bytes, next |-> C[pj].next]
        PROVE  ClassAgrees(pat, c, pi)
    <3>1. L[pi].at = L[pj].at /\ L[pi].matched = (b \/ L[pj].matched)
      BY <2>4
    <3>2. C[pi].bytes = B \cup C[pj].bytes /\ C[pi].next = C[pj].next
      BY <2>4
    <3> QED BY Zenon, <2>2, <2>4, <3>1, <3>2 DEF ClassAgrees, L, C
  <2>5. CASE pi <= Len(pat) /\ pat[pi] = Close
    <3>1. ~(pi > Len(pat)) /\ Close # Escape /\ pi + 1 \in Ends(pat) /\ pi <= pi + 1
      BY <2>5, LaterFacts DEF Ends, Close, Escape
    <3>2. L[pi] = [at |-> pi, matched |-> FALSE] /\ C[pi] = [bytes |-> {}, next |-> pi + 1]
      BY Zenon, <2>1, <2>5, <3>1 DEF ClassTurn, ClassItems
    <3>3. L[pi].at = pi /\ L[pi].matched = FALSE /\ C[pi].bytes = {} /\ C[pi].next = pi + 1
      BY <3>2
    <3> QED BY Zenon, <3>1, <3>3 DEF ClassAgrees, L, C
  <2>6. CASE pi <= Len(pat) /\ pat[pi] = Escape /\ pi + 1 <= Len(pat)
    <3>1. ~(pi > Len(pat)) /\ Close # Escape /\ pi + 2 \in Ends(pat) /\ pi < pi + 2 /\ pi < Len(pat)
      BY <2>6, LaterFacts DEF Ends, Close, Escape
    <3>2. /\ L[pi] = [at |-> L[pi + 2].at, matched |-> (pat[pi + 1] = c) \/ L[pi + 2].matched]
          /\ C[pi] = [bytes |-> {pat[pi + 1]} \cup C[pi + 2].bytes, next |-> C[pi + 2].next]
      BY Zenon, <2>1, <2>6, <3>1 DEF ClassTurn, ClassItems
    <3>3. (pat[pi + 1] = c) \in BOOLEAN /\ (pat[pi + 1] = c <=> c \in {pat[pi + 1]})
      OBVIOUS
    <3> QED BY Zenon, <2>4, <3>1, <3>2, <3>3
  <2>7. CASE /\ pi <= Len(pat) /\ pat[pi] # Close /\ ~(pat[pi] = Escape /\ pi + 1 <= Len(pat))
             /\ pi + 2 <= Len(pat) /\ pat[pi + 1] = Dash
    <3>1. ~(pi > Len(pat)) /\ pi + 3 \in Ends(pat) /\ pi < pi + 3 /\ pi + 1 < Len(pat)
          /\ (pi < Len(pat) <=> pi + 1 <= Len(pat))
      BY <2>7, LaterFacts DEF Ends
    <3> DEFINE B == Between(pat[pi], pat[pi + 2])
    <3>2. /\ L[pi] = [at |-> L[pi + 3].at, matched |-> (c \in B) \/ L[pi + 3].matched]
          /\ C[pi] = [bytes |-> B \cup C[pi + 3].bytes, next |-> C[pi + 3].next]
      BY Zenon, <2>1, <2>7, <3>1 DEF ClassTurn, ClassItems
    <3> HIDE DEF B
    <3>3. (c \in B) \in BOOLEAN
      OBVIOUS
    <3> QED BY Zenon, <2>4, <3>1, <3>2, <3>3
  <2>8. CASE /\ pi <= Len(pat) /\ pat[pi] # Close /\ ~(pat[pi] = Escape /\ pi + 1 <= Len(pat))
             /\ ~(pi + 2 <= Len(pat) /\ pat[pi + 1] = Dash)
    <3>1. ~(pi > Len(pat)) /\ pi + 1 \in Ends(pat) /\ pi < pi + 1
          /\ (pi + 1 < Len(pat) <=> pi + 2 <= Len(pat)) /\ (pi < Len(pat) <=> pi + 1 <= Len(pat))
      BY <2>8, LaterFacts DEF Ends
    <3>2. /\ L[pi] = [at |-> L[pi + 1].at, matched |-> (pat[pi] = c) \/ L[pi + 1].matched]
          /\ C[pi] = [bytes |-> {pat[pi]} \cup C[pi + 1].bytes, next |-> C[pi + 1].next]
      BY Zenon, <2>1, <2>8, <3>1 DEF ClassTurn, ClassItems
    <3>3. (pat[pi] = c) \in BOOLEAN /\ (pat[pi] = c <=> c \in {pat[pi]})
      OBVIOUS
    <3> QED BY Zenon, <2>4, <3>1, <3>2, <3>3
  <2>9. pi > Len(pat) \/ pi <= Len(pat)
    BY LaterFacts DEF Ends
  <2> QED BY Zenon, <2>3, <2>5, <2>6, <2>7, <2>8, <2>9
<1>2. ASSUME NEW pi \in Ends(pat), \A pj \in Ends(pat) : pi < pj => pj \in G PROVE pi \in G
  BY Zenon, <1>1, <1>2
<1> HIDE DEF G
<1>3. Ends(pat) \subseteq G
  BY Zenon, <1>2, Backwards
<1> QED BY Zenon, <1>3 DEF G

\* One byte of the pattern, or the class or the escape that starts there: the
\* matcher passes a byte exactly if the item accepts it, and goes on behind it.
LEMMA ItemCorrect ==
  ASSUME NEW pat \in Seq(Bytes), NEW pi \in DOMAIN pat, NEW c \in Bytes
  PROVE  /\ Consume(pat, pi, c).ok \in BOOLEAN
         /\ Consume(pat, pi, c).ok <=> c \in Item(pat, pi).bytes
         /\ Consume(pat, pi, c).next = Item(pat, pi).next
         /\ Item(pat, pi).next \in Ends(pat) /\ pi < Item(pat, pi).next
<1> DEFINE L == ClassLoop(pat, c)
           C == Class(pat)
           R == Consume(pat, pi, c)
           I == Item(pat, pi)
<1>1. /\ pi + 1 \in Ends(pat) /\ pi < pi + 1 /\ (pi < Len(pat) <=> pi + 1 <= Len(pat))
      /\ pi + 1 <= Len(pat) => (pi + 2 \in Ends(pat) /\ pi < pi + 2)
  BY LaterFacts DEF Ends
<1>2. \A pj \in Ends(pat) : ClassAgrees(pat, c, pj)
  BY Zenon, ClassCorrect
<1>3. \A n \in Ends(pat) : (pi + 1 <= n \/ pi + 2 <= n) => pi < n
  BY LaterFacts DEF Ends
<1>4. CASE pat[pi] = Question
  <2>1. R = [ok |-> TRUE, next |-> pi + 1] /\ I = [bytes |-> Bytes, next |-> pi + 1]
    BY Zenon, <1>4 DEF Consume, Item
  <2>2. R.ok = TRUE /\ R.next = pi + 1 /\ I.bytes = Bytes /\ I.next = pi + 1
    BY <2>1
  <2> QED BY Zenon, <1>1, <2>2
<1>5. CASE pat[pi] = Open /\ ~(pi + 1 <= Len(pat) /\ pat[pi + 1] = Caret)
  <2>1. Open # Question
    BY DEF Open, Question
  <2>2. R = [ok |-> L[pi + 1].matched # FALSE, next |-> L[pi + 1].at + 1] /\ I = C[pi + 1]
    BY Zenon, <1>1, <1>5, <2>1 DEF Consume, Item
  <2>3. ClassAgrees(pat, c, pi + 1)
    BY Zenon, <1>1, <1>2
  <2> HIDE DEF L, C
  <2>4. R.ok = (L[pi + 1].matched # FALSE) /\ R.next = L[pi + 1].at + 1
    BY <2>2
  <2>5. /\ L[pi + 1].matched \in BOOLEAN /\ (L[pi + 1].matched <=> c \in C[pi + 1].bytes)
        /\ L[pi + 1].at + 1 = C[pi + 1].next
        /\ C[pi + 1].next \in Ends(pat) /\ pi < C[pi + 1].next
    BY Zenon, <1>3, <2>3 DEF ClassAgrees, L, C
  <2>6. (L[pi + 1].matched # FALSE) \in BOOLEAN /\ ((L[pi + 1].matched # FALSE) <=> L[pi + 1].matched)
    BY Zenon, <2>5
  <2> QED BY Zenon, <2>2, <2>4, <2>5, <2>6
<1>6. CASE pat[pi] = Open /\ pi + 1 <= Len(pat) /\ pat[pi + 1] = Caret
  <2>1. Open # Question
    BY DEF Open, Question
  <2>2. /\ R = [ok |-> L[pi + 2].matched # TRUE, next |-> L[pi + 2].at + 1]
        /\ I = [bytes |-> Bytes \ C[pi + 2].bytes, next |-> C[pi + 2].next]
    BY Zenon, <1>1, <1>6, <2>1 DEF Consume, Item
  <2>3. ClassAgrees(pat, c, pi + 2)
    BY Zenon, <1>1, <1>2, <1>6
  <2> HIDE DEF L, C
  <2>4. R.ok = (L[pi + 2].matched # TRUE) /\ R.next = L[pi + 2].at + 1
    BY <2>2
  <2>5. /\ L[pi + 2].matched \in BOOLEAN /\ (L[pi + 2].matched <=> c \in C[pi + 2].bytes)
        /\ L[pi + 2].at + 1 = C[pi + 2].next
        /\ C[pi + 2].next \in Ends(pat) /\ pi < C[pi + 2].next
    BY Zenon, <1>3, <2>3 DEF ClassAgrees, L, C
  <2>6. (L[pi + 2].matched # TRUE) \in BOOLEAN /\ ((L[pi + 2].matched # TRUE) <=> ~L[pi + 2].matched)
    BY Zenon, <2>5
  <2>7. I.bytes = Bytes \ C[pi + 2].bytes /\ I.next = C[pi + 2].next
    BY <2>2
  <2> QED BY Zenon, <2>4, <2>5, <2>6, <2>7
<1>7. CASE pat[pi] = Escape /\ pi + 1 <= Len(pat)
  <2>1. Escape # Question /\ Escape # Open
    BY DEF Escape, Open, Question
  <2>2. R = [ok |-> pat[pi + 1] = c, next |-> pi + 2] /\ I = [bytes |-> {pat[pi + 1]}, next |-> pi + 2]
    BY Zenon, <1>1, <1>7, <2>1 DEF Consume, Item
  <2>3. R.ok = (pat[pi + 1] = c) /\ R.next = pi + 2 /\ I.bytes = {pat[pi + 1]} /\ I.next = pi + 2
    BY <2>2
  <2>4. (pat[pi + 1] = c) \in BOOLEAN /\ (pat[pi + 1] = c <=> c \in {pat[pi + 1]})
    OBVIOUS
  <2> QED BY Zenon, <1>1, <1>7, <2>3, <2>4
<1>8. CASE pat[pi] # Question /\ pat[pi] # Open /\ ~(pat[pi] = Escape /\ pi + 1 <= Len(pat))
  <2>1. R = [ok |-> pat[pi] = c, next |-> pi + 1] /\ I = [bytes |-> {pat[pi]}, next |-> pi + 1]
    BY Zenon, <1>1, <1>8 DEF Consume, Item
  <2>2. R.ok = (pat[pi] = c) /\ R.next = pi + 1 /\ I.bytes = {pat[pi]} /\ I.next = pi + 1
    BY <2>1
  <2>3. (pat[pi] = c) \in BOOLEAN /\ (pat[pi] = c <=> c \in {pat[pi]})
    OBVIOUS
  <2> QED BY Zenon, <1>1, <2>2, <2>3
<1> QED BY Zenon, <1>4, <1>5, <1>6, <1>7, <1>8

\* The body of Places, and where it goes on.
PlacesTurn(places, pat, s, pi) ==
  IF pi > Len(pat) THEN {Len(s) + 1}
  ELSE IF pat[pi] = Star THEN
    LET behind == places[pi + 1]
    IN  {si \in 1 .. Len(s) + 1 : \E sj \in behind : si <= sj}
  ELSE LET item   == Item(pat, pi)
           behind == places[item.next]
       IN  {si \in 1 .. Len(s) : s[si] \in item.bytes /\ si + 1 \in behind}

LEMMA ItemNext ==
  ASSUME NEW pat \in Seq(Bytes), NEW pi \in Ends(pat)
  PROVE  \/ pi > Len(pat)
         \/ /\ pi \in DOMAIN pat /\ pi + 1 \in Ends(pat) /\ pi < pi + 1
            /\ Item(pat, pi).next \in Ends(pat) /\ pi < Item(pat, pi).next
<1>1. 0 \in Bytes
  BY DEF Bytes
<1> QED BY Zenon, <1>1, Onward, ItemCorrect

LEMMA PlacesTurns ==
  ASSUME NEW pat \in Seq(Bytes), NEW s \in Seq(Bytes)
  PROVE  \A pi \in Ends(pat) : Places(pat, s)[pi] = PlacesTurn(Places(pat, s), pat, s, pi)
<1> DEFINE D == Ends(pat)
           V == SUBSET (1 .. Len(s) + 1)
           H == [f \in [D -> V] |-> [pi \in D |-> PlacesTurn(f, pat, s, pi)]]
<1>1. H \in [[D -> V] -> [D -> V]]
  <2>1. Len(s) + 1 \in 1 .. Len(s) + 1 /\ \A si \in 1 .. Len(s) : si \in 1 .. Len(s) + 1
    OBVIOUS
  <2>2. \A f \in [D -> V], pi \in D : PlacesTurn(f, pat, s, pi) \in V
    BY Zenon, <2>1 DEF PlacesTurn
  <2> QED BY Zenon, <2>2
<1>2. ASSUME NEW f \in [D -> V], NEW g \in [D -> V], NEW pi \in D,
             \A pj \in D : Later(pat)[pj] < Later(pat)[pi] => f[pj] = g[pj]
      PROVE  H[f][pi] = H[g][pi]
  <2>1. Alike(f, g, pat, pi)
    BY Zenon, <1>2, LaterFacts DEF Alike
  <2>2. H[f][pi] = PlacesTurn(f, pat, s, pi) /\ H[g][pi] = PlacesTurn(g, pat, s, pi)
    BY Zenon
  <2>3. PlacesTurn(f, pat, s, pi) = PlacesTurn(g, pat, s, pi)
    <3>1. pi > Len(pat) \/ (f[pi + 1] = g[pi + 1] /\ f[Item(pat, pi).next] = g[Item(pat, pi).next])
      BY Zenon, <2>1, ItemNext DEF Alike
    <3> QED BY Zenon, <3>1 DEF PlacesTurn
  <2> QED BY Zenon, <2>2, <2>3
<1>3. {} \in V
  BY Zenon
<1>4. \A f \in [D -> V] : H[f] = [pi \in D |-> PlacesTurn(f, pat, s, pi)]
  BY Zenon
<1> HIDE DEF H, V
<1>5. \E f \in [D -> V] : f = H[f]
  <2>1. Len(pat) \in Nat /\ Later(pat) \in [D -> 0 .. Len(pat)]
    BY Zenon, LaterFacts
  <2> HIDE DEF D
  <2>2. Ranked(H, D, V, Later(pat))
    BY Zenon, <1>1, <1>2, <1>3, <2>1 DEF Ranked
  <2> QED BY Zenon, <2>2, Fixpoint
<1>6. \E f : f = [pi \in D |-> PlacesTurn(f, pat, s, pi)]
  <2> HIDE DEF D
  <2>1. PICK f \in [D -> V] : f = H[f]
    BY Zenon, <1>5
  <2>2. f = [pi \in D |-> PlacesTurn(f, pat, s, pi)]
    BY Zenon, <1>4, <2>1
  <2> QED BY Zenon, <2>2
<1>7. Places(pat, s) = CHOOSE f : f = [pi \in D |-> PlacesTurn(f, pat, s, pi)]
  BY Zenon DEF Places, PlacesTurn, Ends
<1>8. Places(pat, s) = [pi \in D |-> PlacesTurn(Places(pat, s), pat, s, pi)]
  BY Zenon, <1>6, <1>7
<1> QED BY Zenon, <1>8

\* The index SkipStars finds.
LEMMA SkipFacts ==
  ASSUME NEW pat \in Seq(Bytes), NEW pi \in Ends(pat)
  PROVE  /\ SkipStars(pat, pi) \in pi .. Len(pat) + 1 /\ SkipStars(pat, pi) \in Ends(pat)
         /\ \A i \in pi .. SkipStars(pat, pi) - 1 : pat[i] = Star
         /\ SkipStars(pat, pi) <= Len(pat) => pat[SkipStars(pat, pi)] # Star
<1> DEFINE T == {pj \in pi .. Len(pat) + 1 : pj <= Len(pat) => pat[pj] # Star}
<1>1. pi \in Nat /\ Len(pat) \in Nat /\ T \in SUBSET Nat /\ Len(pat) + 1 \in T
  BY LaterFacts DEF Ends
<1>2. PICK q \in T : \A y \in T : q <= y
  BY Zenon, <1>1, LeastOf
<1>3. q \in pi .. Len(pat) + 1 /\ (q <= Len(pat) => pat[q] # Star)
  BY Zenon
<1>4. ASSUME NEW i \in pi .. q - 1 PROVE pat[i] = Star
  <2>1. i \in pi .. Len(pat) + 1 /\ ~(q <= i)
    BY <1>1, <1>3
  <2> QED BY Zenon, <1>2, <2>1
<1>5. \A j \in pi .. Len(pat) + 1 : j \in Ends(pat)
  BY <1>1 DEF Ends
<1> HIDE DEF T
<1> QED BY Zenon, <1>3, <1>4, <1>5 DEF SkipStars

\* The places of s from which one of S can be reached.
Before(s, S) == {si \in 1 .. Len(s) + 1 : \E sj \in S : si <= sj}

\* The places of a run of stars are those from which one behind it can be reached.
LEMMA StarRun ==
  ASSUME NEW pat \in Seq(Bytes), NEW s \in Seq(Bytes), NEW q \in Ends(pat)
  PROVE  \A pi \in Ends(pat) :
           (pi < q /\ \A i \in pi .. q - 1 : pat[i] = Star) =>
             Places(pat, s)[pi] = Before(s, Places(pat, s)[q])
<1> USE DEF Before
<1> DEFINE P == Places(pat, s)
           To == Before(s, P[q])
           Good(pi) == (pi < q /\ \A i \in pi .. q - 1 : pat[i] = Star) => P[pi] = To
           G == {pi \in Ends(pat) : Good(pi)}
<1>1. \A pi \in Ends(pat) : P[pi] = PlacesTurn(P, pat, s, pi)
  BY Zenon, PlacesTurns
<1> HIDE DEF P
<1>2. ASSUME NEW pi \in Ends(pat), \A pj \in Ends(pat) : pi < pj => Good(pj) PROVE Good(pi)
  <2> SUFFICES ASSUME pi < q, \A i \in pi .. q - 1 : pat[i] = Star PROVE P[pi] = To
    BY Zenon
  <2>1. /\ pi \in pi .. q - 1 /\ ~(pi > Len(pat)) /\ pi + 1 \in Ends(pat) /\ pi < pi + 1
        /\ pi + 1 = q \/ pi + 1 < q
        /\ \A i \in pi + 1 .. q - 1 : i \in pi .. q - 1
    BY LaterFacts DEF Ends
  <2>2. P[pi] = Before(s, P[pi + 1])
    BY Zenon, <1>1, <2>1 DEF PlacesTurn
  <2>3. CASE pi + 1 = q
    BY Zenon, <2>2, <2>3
  <2>4. CASE pi + 1 < q
    <3>1. P[pi + 1] = To
      BY Zenon, <1>2, <2>1, <2>4
    <3>2. \A i, j, k \in 1 .. Len(s) + 1 : i <= i /\ ((i <= j /\ j <= k) => i <= k)
      OBVIOUS
    <3>3. \A j \in P[q] : j \in 1 .. Len(s) + 1
      <4>1. P[q] = PlacesTurn(P, pat, s, q)
        BY Zenon, <1>1
      <4>2. Len(s) + 1 \in 1 .. Len(s) + 1 /\ \A si \in 1 .. Len(s) : si \in 1 .. Len(s) + 1
        OBVIOUS
      <4> QED BY Zenon, <4>1, <4>2 DEF PlacesTurn
    <3> QED BY Zenon, <2>2, <3>1, <3>2, <3>3
  <2> QED BY Zenon, <2>1, <2>3, <2>4
<1> HIDE DEF Good, Before
<1>3. ASSUME NEW pi \in Ends(pat), \A pj \in Ends(pat) : pi < pj => pj \in G PROVE pi \in G
  <2>1. \A pj \in Ends(pat) : pi < pj => Good(pj)
    BY Zenon, <1>3
  <2> QED BY Zenon, <1>2, <2>1
<1> HIDE DEF G
<1>4. Ends(pat) \subseteq G
  BY Zenon, <1>3, Backwards
<1>5. \A pi \in Ends(pat) : Good(pi)
  BY Zenon, <1>4 DEF G
<1> QED BY Zenon, <1>5 DEF Good, P

\* With the string used up the rest of the pattern fits exactly if it is stars.
LEMMA OnlyStars ==
  ASSUME NEW pat \in Seq(Bytes), NEW s \in Seq(Bytes), NEW pi \in Ends(pat)
  PROVE  Len(s) + 1 \in Places(pat, s)[pi] <=> SkipStars(pat, pi) > Len(pat)
<1> DEFINE P == Places(pat, s)
           q == SkipStars(pat, pi)
<1>1. /\ q \in pi .. Len(pat) + 1 /\ q \in Ends(pat)
      /\ \A i \in pi .. q - 1 : pat[i] = Star
      /\ q <= Len(pat) => pat[q] # Star
  BY Zenon, SkipFacts
<1>2. P[q] = PlacesTurn(P, pat, s, q)
  BY Zenon, <1>1, PlacesTurns
<1>3. pi < q => P[pi] = Before(s, P[q])
  <2>1. \A j \in Ends(pat) : \A i \in Ends(pat) :
          (i < j /\ \A k \in i .. j - 1 : pat[k] = Star) =>
            P[i] = Before(s, P[j])
    BY Zenon, StarRun
  <2> HIDE DEF P, q
  <2> QED BY Zenon, <1>1, <2>1
<1> HIDE DEF P, q
<1>4. (pi = q \/ pi < q) /\ (q > Len(pat) \/ q <= Len(pat)) /\ ~(q > Len(pat) /\ q <= Len(pat))
  BY <1>1, LaterFacts DEF Ends
<1>5. Len(s) + 1 \in 1 .. Len(s) + 1 /\ Len(s) + 1 <= Len(s) + 1
      /\ \A sj \in 1 .. Len(s) : ~(Len(s) + 1 <= sj) /\ sj # Len(s) + 1
  OBVIOUS
<1>6. CASE q > Len(pat)
  <2>1. P[q] = {Len(s) + 1}
    BY Zenon, <1>2, <1>6 DEF PlacesTurn
  <2> QED BY Zenon, <1>3, <1>4, <1>5, <1>6, <2>1 DEF P, q, Before
<1>7. CASE q <= Len(pat)
  <2>1. \A sj \in P[q] : sj \in 1 .. Len(s)
    BY Zenon, <1>1, <1>2, <1>4, <1>7 DEF PlacesTurn
  <2> QED BY Zenon, <1>3, <1>4, <1>5, <1>7, <2>1 DEF P, q, Before
<1> QED BY Zenon, <1>4, <1>6, <1>7

\* The body of glob_match_impl.
ImplTurn(impl, pat, s, call) ==
  LET pi == call[2]  si == call[3]  skip == call[4]  nesting == call[5]
      no == [ok |-> FALSE, skip |-> skip]
  IN  IF call[1] = "star" THEN
        IF si > Len(s) THEN [ok |-> FALSE, skip |-> TRUE]
        ELSE LET r == impl[<<"match", pi, si, skip, nesting + 1>>]
             IN  IF r.ok \/ r.skip THEN r ELSE impl[<<"star", pi, si + 1, r.skip, nesting>>]
      ELSE IF nesting > MaxNesting THEN no
      ELSE IF pi > Len(pat) \/ si > Len(s)
        THEN [ok |-> pi > Len(pat) /\ si > Len(s), skip |-> skip]
      ELSE IF pat[pi] = Star THEN
        IF SkipStars(pat, pi) > Len(pat) THEN [ok |-> TRUE, skip |-> skip]
        ELSE impl[<<"star", SkipStars(pat, pi), si, skip, nesting>>]
      ELSE LET step == Consume(pat, pi, s[si])
           IN  IF ~step.ok THEN no
               ELSE IF si = Len(s)
                 THEN [ok |-> SkipStars(pat, step.next) > Len(pat), skip |-> skip]
               ELSE impl[<<"match", step.next, si + 1, skip, nesting>>]

Result == [ok : BOOLEAN, skip : BOOLEAN]

\* What is left of pattern and string; a turn of the loop comes before the call it makes.
Rank(pat, s) ==
  [call \in Calls(pat, s) |->
     2 * (Len(pat) + 1 - call[2]) + 2 * (Len(s) + 1 - call[3]) + IF call[1] = "star" THEN 1 ELSE 0]

LEMMA CallFields ==
  ASSUME NEW pat \in Seq(Bytes), NEW s \in Seq(Bytes)
  PROVE  /\ \A call \in Calls(pat, s) :
              /\ call[1] \in {"match", "star"} /\ call[2] \in Ends(pat) /\ call[3] \in Ends(s)
              /\ call[4] \in BOOLEAN /\ call[5] \in Nat
              /\ call = <<call[1], call[2], call[3], call[4], call[5]>>
         /\ \A k \in {"match", "star"}, pi \in Ends(pat), si \in Ends(s), b \in BOOLEAN, n \in Nat :
              /\ <<k, pi, si, b, n>> \in Calls(pat, s)
              /\ Rank(pat, s)[<<k, pi, si, b, n>>] =
                   2 * (Len(pat) + 1 - pi) + 2 * (Len(s) + 1 - si) + IF k = "star" THEN 1 ELSE 0
<1>1. \A call \in Calls(pat, s) :
        /\ call[1] \in {"match", "star"} /\ call[2] \in Ends(pat) /\ call[3] \in Ends(s)
        /\ call[4] \in BOOLEAN /\ call[5] \in Nat
        /\ call = <<call[1], call[2], call[3], call[4], call[5]>>
  BY DEF Calls, Ends
<1>2. \A k \in {"match", "star"}, pi \in Ends(pat), si \in Ends(s), b \in BOOLEAN, n \in Nat :
        <<k, pi, si, b, n>> \in Calls(pat, s)
  BY Zenon DEF Calls, Ends
<1>3. \A k \in {"match", "star"}, pi \in Ends(pat), si \in Ends(s), b \in BOOLEAN, n \in Nat :
        Rank(pat, s)[<<k, pi, si, b, n>>] =
          2 * (Len(pat) + 1 - pi) + 2 * (Len(s) + 1 - si) + IF k = "star" THEN 1 ELSE 0
  <2>1. \A k, pi, si, b, n : /\ <<k, pi, si, b, n>>[1] = k /\ <<k, pi, si, b, n>>[2] = pi
                             /\ <<k, pi, si, b, n>>[3] = si
    BY Zenon
  <2> QED BY Zenon, <1>2, <2>1 DEF Rank
<1> QED BY ZenonT(40), <1>1, <1>2, <1>3

LEMMA RankType ==
  ASSUME NEW pat \in Seq(Bytes), NEW s \in Seq(Bytes)
  PROVE  /\ 2 * Len(pat) + 2 * Len(s) + 1 \in Nat
         /\ Rank(pat, s) \in [Calls(pat, s) -> 0 .. 2 * Len(pat) + 2 * Len(s) + 1]
         /\ Rank(pat, s) \in [Calls(pat, s) -> Nat]
<1> DEFINE N == 2 * Len(pat) + 2 * Len(s) + 1
           R(call) == 2 * (Len(pat) + 1 - call[2]) + 2 * (Len(s) + 1 - call[3])
                      + IF call[1] = "star" THEN 1 ELSE 0
<1>1. Len(pat) \in Nat /\ Len(s) \in Nat
  OBVIOUS
<1>2. \A i \in Ends(pat), j \in Ends(s), x \in {0, 1} :
        2 * (Len(pat) + 1 - i) + 2 * (Len(s) + 1 - j) + x \in 0 .. N
  BY <1>1 DEF Ends
<1>3. N \in Nat /\ \A x \in 0 .. N : x \in Nat
  BY <1>1
<1>4. \A call \in Calls(pat, s) : call[2] \in Ends(pat) /\ call[3] \in Ends(s)
  BY Zenon, CallFields
<1> HIDE DEF N
<1>5. \A call \in Calls(pat, s) : R(call) \in 0 .. N
  BY Zenon, <1>2, <1>4
<1>6. Rank(pat, s) = [call \in Calls(pat, s) |-> R(call)]
  BY Zenon DEF Rank
<1> HIDE DEF R
<1> QED BY Zenon, <1>3, <1>5, <1>6 DEF N

\* The calls that a call makes are calls, and rank lower.
LEMMA CallsRankLower ==
  ASSUME NEW pat \in Seq(Bytes), NEW s \in Seq(Bytes),
         NEW pi \in Ends(pat), NEW si \in Ends(s), NEW b \in BOOLEAN, NEW n \in Nat
  PROVE  /\ <<"match", pi, si, b, n + 1>> \in Calls(pat, s)
         /\ Rank(pat, s)[<<"match", pi, si, b, n + 1>>] < Rank(pat, s)[<<"star", pi, si, b, n>>]
         /\ si <= Len(s) => \A skip \in BOOLEAN :
              /\ <<"star", pi, si + 1, skip, n>> \in Calls(pat, s)
              /\ Rank(pat, s)[<<"star", pi, si + 1, skip, n>>] < Rank(pat, s)[<<"star", pi, si, b, n>>]
         /\ \A pj \in Ends(pat) : pi < pj =>
              /\ <<"star", pj, si, b, n>> \in Calls(pat, s)
              /\ Rank(pat, s)[<<"star", pj, si, b, n>>] < Rank(pat, s)[<<"match", pi, si, b, n>>]
              /\ si <= Len(s) =>
                   /\ <<"match", pj, si + 1, b, n>> \in Calls(pat, s)
                   /\ Rank(pat, s)[<<"match", pj, si + 1, b, n>>] < Rank(pat, s)[<<"match", pi, si, b, n>>]
<1> DEFINE R == Rank(pat, s)
           C == Calls(pat, s)
           w(i, j) == 2 * (Len(pat) + 1 - i) + 2 * (Len(s) + 1 - j)
           x(k) == IF k = "star" THEN 1 ELSE 0
<1>1. \A k \in {"match", "star"}, i \in Ends(pat), j \in Ends(s), c \in BOOLEAN, m \in Nat :
        <<k, i, j, c, m>> \in C /\ R[<<k, i, j, c, m>>] = w(i, j) + x(k)
  BY Zenon, CallFields
<1>9. x("match") = 0 /\ x("star") = 1
  OBVIOUS
<1> HIDE DEF R, C, w, x
<1>2. n + 1 \in Nat /\ (si <= Len(s) => si + 1 \in Ends(s))
  BY DEF Ends
<1>3. \A i \in Ends(pat), j \in Ends(s), c \in BOOLEAN, m \in Nat :
        /\ <<"match", i, j, c, m>> \in C /\ R[<<"match", i, j, c, m>>] = w(i, j) + x("match")
        /\ <<"star", i, j, c, m>> \in C /\ R[<<"star", i, j, c, m>>] = w(i, j) + x("star")
  <2> TAKE i \in Ends(pat), j \in Ends(s), c \in BOOLEAN, m \in Nat
  <2>1. <<"match", i, j, c, m>> \in C /\ R[<<"match", i, j, c, m>>] = w(i, j) + x("match")
    BY Zenon, <1>1
  <2>2. <<"star", i, j, c, m>> \in C /\ R[<<"star", i, j, c, m>>] = w(i, j) + x("star")
    BY Zenon, <1>1
  <2> QED BY Zenon, <2>1, <2>2
<1>4. /\ w(pi, si) + x("match") < w(pi, si) + x("star")
      /\ si <= Len(s) => w(pi, si + 1) + x("star") < w(pi, si) + x("star")
      /\ \A pj \in Ends(pat) : pi < pj =>
           /\ w(pj, si) + x("star") < w(pi, si) + x("match")
           /\ si <= Len(s) => w(pj, si + 1) + x("match") < w(pi, si) + x("match")
  BY <1>9 DEF w, Ends
<1> HIDE DEF w
<1>5. <<"match", pi, si, b, n + 1>> \in C /\ R[<<"match", pi, si, b, n + 1>>] < R[<<"star", pi, si, b, n>>]
  BY Zenon, <1>2, <1>3, <1>4
<1>6. ASSUME si <= Len(s), NEW skip \in BOOLEAN
      PROVE  <<"star", pi, si + 1, skip, n>> \in C
             /\ R[<<"star", pi, si + 1, skip, n>>] < R[<<"star", pi, si, b, n>>]
  BY Zenon, <1>2, <1>3, <1>4, <1>6
<1>7. ASSUME NEW pj \in Ends(pat), pi < pj
      PROVE  <<"star", pj, si, b, n>> \in C /\ R[<<"star", pj, si, b, n>>] < R[<<"match", pi, si, b, n>>]
  BY Zenon, <1>3, <1>4, <1>7
<1>8. ASSUME NEW pj \in Ends(pat), pi < pj, si <= Len(s)
      PROVE  <<"match", pj, si + 1, b, n>> \in C
             /\ R[<<"match", pj, si + 1, b, n>>] < R[<<"match", pi, si, b, n>>]
  BY Zenon, <1>2, <1>3, <1>4, <1>8
<1> QED BY Zenon, <1>5, <1>6, <1>7, <1>8 DEF R, C

\* Two functions that agree on the calls that rank lower.
Agreeing(f, g, pat, s, call) ==
  \A y \in Calls(pat, s) : Rank(pat, s)[y] < Rank(pat, s)[call] => f[y] = g[y]

\* Behind a star, and behind an item that is none, the pattern goes on later.
LEMMA TurnNext ==
  ASSUME NEW pat \in Seq(Bytes), NEW s \in Seq(Bytes), NEW pi \in Ends(pat), NEW si \in Ends(s),
         ~(pi > Len(pat)), ~(si > Len(s))
  PROVE  /\ pi \in DOMAIN pat /\ si \in DOMAIN s /\ s[si] \in Bytes /\ si <= Len(s)
         /\ SkipStars(pat, pi) \in Ends(pat)
         /\ pat[pi] = Star => pi < SkipStars(pat, pi)
         /\ Consume(pat, pi, s[si]).next \in Ends(pat) /\ pi < Consume(pat, pi, s[si]).next
         /\ Consume(pat, pi, s[si]).ok \in BOOLEAN
<1>1. pi \in DOMAIN pat /\ si \in DOMAIN s /\ si <= Len(s) /\ pi <= Len(pat)
  BY DEF Ends
<1>2. s[si] \in Bytes
  BY Zenon, <1>1, LaterFacts
<1>3. /\ SkipStars(pat, pi) \in pi .. Len(pat) + 1 /\ SkipStars(pat, pi) \in Ends(pat)
      /\ SkipStars(pat, pi) <= Len(pat) => pat[SkipStars(pat, pi)] # Star
  BY Zenon, SkipFacts
<1>4. pat[pi] = Star => SkipStars(pat, pi) # pi
  BY Zenon, <1>1, <1>3
<1>5. pat[pi] = Star => pi < SkipStars(pat, pi)
  BY <1>3, <1>4 DEF Ends
<1> QED BY ZenonT(40), <1>1, <1>2, <1>3, <1>5, ItemCorrect

\* A turn of the loop under a star, and a call, spelled out.
StarTurn(f, pat, s, pi, si, b, n) ==
  LET r == f[<<"match", pi, si, b, n + 1>>]
  IN  IF si > Len(s) THEN [ok |-> FALSE, skip |-> TRUE]
      ELSE IF r.ok \/ r.skip THEN r
      ELSE f[<<"star", pi, si + 1, r.skip, n>>]

MatchTurn(f, pat, s, pi, si, b, n) ==
  LET step == Consume(pat, pi, s[si])
      pj   == SkipStars(pat, pi)
  IN  IF n > MaxNesting THEN [ok |-> FALSE, skip |-> b]
      ELSE IF pi > Len(pat) \/ si > Len(s)
        THEN [ok |-> pi > Len(pat) /\ si > Len(s), skip |-> b]
      ELSE IF pat[pi] = Star THEN
        IF pj > Len(pat) THEN [ok |-> TRUE, skip |-> b] ELSE f[<<"star", pj, si, b, n>>]
      ELSE IF ~step.ok THEN [ok |-> FALSE, skip |-> b]
      ELSE IF si = Len(s) THEN [ok |-> SkipStars(pat, step.next) > Len(pat), skip |-> b]
      ELSE f[<<"match", step.next, si + 1, b, n>>]

LEMMA TurnsSpelled ==
  ASSUME NEW f, NEW pat, NEW s, NEW pi, NEW si, NEW b, NEW n
  PROVE  /\ ImplTurn(f, pat, s, <<"star", pi, si, b, n>>) = StarTurn(f, pat, s, pi, si, b, n)
         /\ ImplTurn(f, pat, s, <<"match", pi, si, b, n>>) = MatchTurn(f, pat, s, pi, si, b, n)
<1>1. \A k : /\ <<k, pi, si, b, n>>[1] = k /\ <<k, pi, si, b, n>>[2] = pi
             /\ <<k, pi, si, b, n>>[3] = si /\ <<k, pi, si, b, n>>[4] = b
             /\ <<k, pi, si, b, n>>[5] = n
  BY Zenon
<1>2. "match" # "star"
  OBVIOUS
<1>3. /\ <<"star", pi, si, b, n>>[1] = "star" /\ <<"star", pi, si, b, n>>[2] = pi
      /\ <<"star", pi, si, b, n>>[3] = si /\ <<"star", pi, si, b, n>>[4] = b
      /\ <<"star", pi, si, b, n>>[5] = n
      /\ <<"match", pi, si, b, n>>[1] = "match" /\ <<"match", pi, si, b, n>>[2] = pi
      /\ <<"match", pi, si, b, n>>[3] = si /\ <<"match", pi, si, b, n>>[4] = b
      /\ <<"match", pi, si, b, n>>[5] = n
  BY Zenon, <1>1
<1> QED BY <1>2, <1>3 DEF ImplTurn, StarTurn, MatchTurn

LEMMA CallForm ==
  ASSUME NEW pat \in Seq(Bytes), NEW s \in Seq(Bytes), NEW call \in Calls(pat, s)
  PROVE  \E k \in {"match", "star"}, pi \in Ends(pat), si \in Ends(s), b \in BOOLEAN, n \in Nat :
           call = <<k, pi, si, b, n>>
<1>1. /\ call[1] \in {"match", "star"} /\ call[2] \in Ends(pat) /\ call[3] \in Ends(s)
      /\ call[4] \in BOOLEAN /\ call[5] \in Nat
      /\ call = <<call[1], call[2], call[3], call[4], call[5]>>
  BY CallFields
<1> QED BY Zenon, <1>1

LEMMA ImplTurnType ==
  ASSUME NEW pat \in Seq(Bytes), NEW s \in Seq(Bytes), NEW f \in [Calls(pat, s) -> Result],
         NEW call \in Calls(pat, s)
  PROVE  ImplTurn(f, pat, s, call) \in Result
<1>1. PICK k \in {"match", "star"}, pi \in Ends(pat), si \in Ends(s), b \in BOOLEAN, n \in Nat :
        call = <<k, pi, si, b, n>>
  BY SMT, CallForm
<1>2. \A x \in Calls(pat, s) : f[x] \in Result
  BY Zenon
<1>3. \A x \in Result : x.ok \in BOOLEAN /\ x.skip \in BOOLEAN
  BY DEF Result
<1>4. \A o, p \in BOOLEAN : [ok |-> o, skip |-> p] \in Result
  BY Zenon DEF Result
<1>5. /\ TRUE \in BOOLEAN /\ FALSE \in BOOLEAN /\ (pi > Len(pat) /\ si > Len(s)) \in BOOLEAN
      /\ (SkipStars(pat, Consume(pat, pi, s[si]).next) > Len(pat)) \in BOOLEAN
  OBVIOUS
<1>6. CASE k = "star"
  <2>1. f[<<"match", pi, si, b, n + 1>>] \in Result /\ f[<<"match", pi, si, b, n + 1>>].skip \in BOOLEAN
    BY Zenon, <1>2, <1>3, CallsRankLower
  <2>2. ~(si > Len(s)) => si <= Len(s)
    BY DEF Ends
  <2>3. ~(si > Len(s)) =>
          f[<<"star", pi, si + 1, f[<<"match", pi, si, b, n + 1>>].skip, n>>] \in Result
    BY Zenon, <1>2, <2>1, <2>2, CallsRankLower
  <2>4. ImplTurn(f, pat, s, call) = StarTurn(f, pat, s, pi, si, b, n)
    BY Zenon, <1>1, <1>6, TurnsSpelled
  <2> QED BY Zenon, <1>4, <1>5, <2>1, <2>3, <2>4 DEF StarTurn
<1>7. CASE k = "match"
  <2>0. ImplTurn(f, pat, s, call) = MatchTurn(f, pat, s, pi, si, b, n)
    BY Zenon, <1>1, <1>7, TurnsSpelled
  <2>1. CASE ~(pi > Len(pat)) /\ ~(si > Len(s))
    <3>1. pat[pi] = Star => f[<<"star", SkipStars(pat, pi), si, b, n>>] \in Result
      BY Zenon, <1>2, <2>1, TurnNext, CallsRankLower
    <3>2. f[<<"match", Consume(pat, pi, s[si]).next, si + 1, b, n>>] \in Result
      BY Zenon, <1>2, <2>1, TurnNext, CallsRankLower
    <3> QED BY Zenon, <1>4, <1>5, <2>0, <2>1, <3>1, <3>2 DEF MatchTurn
  <2>2. CASE pi > Len(pat) \/ si > Len(s)
    BY Zenon, <1>4, <1>5, <2>0, <2>2 DEF MatchTurn
  <2> QED BY Zenon, <2>1, <2>2
<1> QED BY Zenon, <1>1, <1>6, <1>7

LEMMA ImplTurnLocal ==
  ASSUME NEW pat \in Seq(Bytes), NEW s \in Seq(Bytes), NEW f \in [Calls(pat, s) -> Result], NEW g,
         NEW call \in Calls(pat, s), Agreeing(f, g, pat, s, call)
  PROVE  ImplTurn(f, pat, s, call) = ImplTurn(g, pat, s, call)
<1>1. PICK k \in {"match", "star"}, pi \in Ends(pat), si \in Ends(s), b \in BOOLEAN, n \in Nat :
        call = <<k, pi, si, b, n>>
  BY SMT, CallForm
<1>2. \A x \in Calls(pat, s) : f[x] \in Result
  BY Zenon
<1>3. \A x \in Result : x.ok \in BOOLEAN /\ x.skip \in BOOLEAN
  BY DEF Result
<1>6. CASE k = "star"
  <2> DEFINE m == <<"match", pi, si, b, n + 1>>
  <2>1. f[m] = g[m] /\ f[m].skip \in BOOLEAN
    BY Zenon, <1>1, <1>2, <1>3, <1>6, CallsRankLower DEF Agreeing
  <2>2. ~(si > Len(s)) => si <= Len(s)
    BY DEF Ends
  <2>3. ~(si > Len(s)) => f[<<"star", pi, si + 1, f[m].skip, n>>] = g[<<"star", pi, si + 1, f[m].skip, n>>]
    BY Zenon, <1>1, <1>6, <2>1, <2>2, CallsRankLower DEF Agreeing
  <2>4. /\ ImplTurn(f, pat, s, call) = StarTurn(f, pat, s, pi, si, b, n)
        /\ ImplTurn(g, pat, s, call) = StarTurn(g, pat, s, pi, si, b, n)
    BY Zenon, <1>1, <1>6, TurnsSpelled
  <2>5. CASE si > Len(s)
    BY Zenon, <2>4, <2>5 DEF StarTurn
  <2>6. CASE ~(si > Len(s)) /\ (f[m].ok \/ f[m].skip)
    <3>1. StarTurn(f, pat, s, pi, si, b, n) = f[m]
      BY Zenon, <2>6 DEF StarTurn
    <3>2. StarTurn(g, pat, s, pi, si, b, n) = g[m]
      BY Zenon, <2>1, <2>6 DEF StarTurn
    <3> QED BY Zenon, <2>1, <2>4, <3>1, <3>2
  <2>7. CASE ~(si > Len(s)) /\ ~(f[m].ok \/ f[m].skip)
    <3>1. StarTurn(f, pat, s, pi, si, b, n) = f[<<"star", pi, si + 1, f[m].skip, n>>]
      BY Zenon, <2>7 DEF StarTurn
    <3>2. StarTurn(g, pat, s, pi, si, b, n) = g[<<"star", pi, si + 1, g[m].skip, n>>]
      BY Zenon, <2>1, <2>7 DEF StarTurn
    <3> QED BY Zenon, <2>1, <2>3, <2>4, <2>7, <3>1, <3>2
  <2> QED BY Zenon, <2>5, <2>6, <2>7
<1>7. CASE k = "match"
  <2>0. /\ ImplTurn(f, pat, s, call) = MatchTurn(f, pat, s, pi, si, b, n)
        /\ ImplTurn(g, pat, s, call) = MatchTurn(g, pat, s, pi, si, b, n)
    BY Zenon, <1>1, <1>7, TurnsSpelled
  <2>1. CASE ~(pi > Len(pat)) /\ ~(si > Len(s))
    <3> DEFINE q == SkipStars(pat, pi)
               z == Consume(pat, pi, s[si]).next
    <3>0. /\ q \in Ends(pat) /\ (pat[pi] = Star => pi < q)
          /\ z \in Ends(pat) /\ pi < z /\ si <= Len(s)
      BY Zenon, <2>1, TurnNext
    <3> HIDE DEF q, z
    <3>1. pat[pi] = Star => f[<<"star", q, si, b, n>>] = g[<<"star", q, si, b, n>>]
      BY Zenon, <1>1, <1>7, <3>0, CallsRankLower DEF Agreeing
    <3>2. f[<<"match", z, si + 1, b, n>>] = g[<<"match", z, si + 1, b, n>>]
      BY Zenon, <1>1, <1>7, <3>0, CallsRankLower DEF Agreeing
    <3>3. CASE n > MaxNesting
      BY Zenon, <2>0, <3>3 DEF MatchTurn
    <3>4. CASE ~(n > MaxNesting) /\ pat[pi] = Star
      <4>1. CASE q > Len(pat)
        BY Zenon, <2>0, <2>1, <3>4, <4>1 DEF q, MatchTurn
      <4>2. CASE ~(q > Len(pat))
        <5>1. \A h : MatchTurn(h, pat, s, pi, si, b, n) = h[<<"star", q, si, b, n>>]
          BY Zenon, <2>1, <3>4, <4>2 DEF q, MatchTurn
        <5> QED BY Zenon, <2>0, <3>1, <3>4, <5>1
      <4> QED BY Zenon, <4>1, <4>2
    <3>5. CASE ~(n > MaxNesting) /\ pat[pi] # Star
      <4>1. CASE ~Consume(pat, pi, s[si]).ok
        BY Zenon, <2>0, <2>1, <3>5, <4>1 DEF MatchTurn
      <4>2. CASE Consume(pat, pi, s[si]).ok /\ si # Len(s)
        <5>1. \A h : MatchTurn(h, pat, s, pi, si, b, n) = h[<<"match", z, si + 1, b, n>>]
          BY Zenon, <2>1, <3>5, <4>2 DEF z, MatchTurn
        <5> QED BY Zenon, <2>0, <3>2, <5>1
      <4>3. CASE Consume(pat, pi, s[si]).ok /\ si = Len(s)
        <5>1. \A h : MatchTurn(h, pat, s, pi, si, b, n)
                       = [ok |-> SkipStars(pat, z) > Len(pat), skip |-> b]
          BY Zenon, <2>1, <3>5, <4>3 DEF z, MatchTurn
        <5> QED BY Zenon, <2>0, <5>1
      <4> QED BY Zenon, <4>1, <4>2, <4>3
    <3> QED BY Zenon, <3>3, <3>4, <3>5
  <2>2. CASE pi > Len(pat) \/ si > Len(s)
    <3>1. CASE n > MaxNesting
      BY Zenon, <2>0, <3>1 DEF MatchTurn
    <3>2. CASE ~(n > MaxNesting)
      BY Zenon, <2>0, <2>2, <3>2 DEF MatchTurn
    <3> QED BY Zenon, <3>1, <3>2
  <2> QED BY Zenon, <2>1, <2>2
<1> QED BY Zenon, <1>1, <1>6, <1>7

LEMMA ImplTurns ==
  ASSUME NEW pat \in Seq(Bytes), NEW s \in Seq(Bytes)
  PROVE  \A call \in Calls(pat, s) :
           GlobImpl(pat, s)[call] = ImplTurn(GlobImpl(pat, s), pat, s, call)
<1> DEFINE D == Calls(pat, s)
           H == [f \in [D -> Result] |-> [call \in D |-> ImplTurn(f, pat, s, call)]]
<1>1. H \in [[D -> Result] -> [D -> Result]]
  BY Zenon, ImplTurnType
<1>2. ASSUME NEW f \in [D -> Result], NEW g \in [D -> Result], NEW call \in D,
             \A y \in D : Rank(pat, s)[y] < Rank(pat, s)[call] => f[y] = g[y]
      PROVE  H[f][call] = H[g][call]
  <2>1. Agreeing(f, g, pat, s, call)
    BY Zenon, <1>2 DEF Agreeing
  <2>2. H[f][call] = ImplTurn(f, pat, s, call) /\ H[g][call] = ImplTurn(g, pat, s, call)
    BY Zenon
  <2>3. ImplTurn(f, pat, s, call) = ImplTurn(g, pat, s, call)
    BY Zenon, <2>1, ImplTurnLocal
  <2> QED BY Zenon, <2>2, <2>3
<1>3. [ok |-> TRUE, skip |-> FALSE] \in Result
  BY DEF Result
<1>4. \A f \in [D -> Result] : H[f] = [call \in D |-> ImplTurn(f, pat, s, call)]
  BY Zenon
<1> HIDE DEF H
<1>5. \E f \in [D -> Result] : f = H[f]
  <2>1. /\ 2 * Len(pat) + 2 * Len(s) + 1 \in Nat
        /\ Rank(pat, s) \in [D -> 0 .. 2 * Len(pat) + 2 * Len(s) + 1]
    BY Zenon, RankType
  <2> HIDE DEF D
  <2>2. Ranked(H, D, Result, Rank(pat, s))
    BY Zenon, <1>1, <1>2, <1>3, <2>1 DEF Ranked
  <2> QED BY Zenon, <2>2, Fixpoint
<1>6. \E f : f = [call \in D |-> ImplTurn(f, pat, s, call)]
  <2> HIDE DEF D
  <2>1. PICK f \in [D -> Result] : f = H[f]
    BY Zenon, <1>5
  <2>2. f = [call \in D |-> ImplTurn(f, pat, s, call)]
    BY Zenon, <1>4, <2>1
  <2> QED BY Zenon, <2>2
<1>7. GlobImpl(pat, s) = CHOOSE f : f = [call \in D |-> ImplTurn(f, pat, s, call)]
  BY Zenon DEF GlobImpl, ImplTurn
<1>8. GlobImpl(pat, s) = [call \in D |-> ImplTurn(GlobImpl(pat, s), pat, s, call)]
  BY Zenon, <1>6, <1>7
<1> QED BY Zenon, <1>8

\* The stars of a pattern from pi on: glob_match_impl nests at most so deep.
Stars(pat, pi) == {i \in pi .. Len(pat) : pat[i] = Star}

LEMMA StarsFacts ==
  ASSUME NEW pat \in Seq(Bytes), NEW pi \in Ends(pat), NEW pj \in Ends(pat), pi < pj
  PROVE  /\ Cardinality(Stars(pat, pi)) \in Nat /\ Cardinality(Stars(pat, pj)) \in Nat
         /\ Cardinality(Stars(pat, pj)) <= Cardinality(Stars(pat, pi))
         /\ pi \in DOMAIN pat /\ pat[pi] = Star =>
              Cardinality(Stars(pat, pj)) + 1 <= Cardinality(Stars(pat, pi))
<1> DEFINE A == Stars(pat, pi)
           B == Stars(pat, pj)
<1>1. pi \in Nat /\ pj \in Nat /\ Len(pat) \in Nat /\ pi \in Int /\ Len(pat) \in Int
  BY LaterFacts DEF Ends
<1>2. IsFiniteSet(pi .. Len(pat)) /\ A \in SUBSET (pi .. Len(pat))
  BY Zenon, <1>1, FS_Interval DEF Stars
<1>3. IsFiniteSet(A)
  BY Zenon, <1>2, FS_Subset
<1>4. B \in SUBSET A /\ pi \notin B
  <2>1. \A i \in pj .. Len(pat) : i \in pi .. Len(pat) /\ i # pi
    BY <1>1
  <2> QED BY Zenon, <2>1 DEF Stars
<1> HIDE DEF A, B
<1>5. IsFiniteSet(B) /\ Cardinality(B) <= Cardinality(A)
  BY Zenon, <1>3, <1>4, FS_Subset
<1>6. Cardinality(A) \in Nat /\ Cardinality(B) \in Nat
  BY Zenon, <1>3, <1>5, FS_CardinalityType
<1>7. ASSUME pi \in DOMAIN pat, pat[pi] = Star PROVE Cardinality(B) + 1 <= Cardinality(A)
  <2>1. pi \in pi .. Len(pat)
    BY <1>1, <1>7
  <2>2. (B \cup {pi}) \in SUBSET A
    BY Zenon, <1>4, <1>7, <2>1 DEF A, Stars
  <2>3. Cardinality(B \cup {pi}) = Cardinality(B) + 1
    BY Zenon, <1>4, <1>5, FS_AddElement
  <2>4. Cardinality(B \cup {pi}) <= Cardinality(A)
    BY Zenon, <1>3, <2>2, FS_Subset
  <2> QED BY Zenon, <2>3, <2>4
<1> QED BY Zenon, <1>5, <1>6, <1>7 DEF A, B

\* From si on s has a place from which the pattern from pi on fits.
Reached(pat, s, pi, si) == \E sj \in Places(pat, s)[pi] : si <= sj

\* What a call answers; skip_longer says that a later start is as hopeless.
MatchAs(r, pat, s, pi, si) ==
  /\ r \in Result
  /\ r.ok <=> si \in Places(pat, s)[pi]
  /\ r.skip => ~Reached(pat, s, pi, si)

\* What the loop under a star answers.
StarAs(r, pat, s, pi, si) ==
  /\ r \in Result
  /\ r.ok <=> Reached(pat, s, pi, si)
  /\ r.skip => ~Reached(pat, s, pi, si)

LEMMA PlacesWithin ==
  ASSUME NEW pat \in Seq(Bytes), NEW s \in Seq(Bytes), NEW pi \in Ends(pat)
  PROVE  /\ \A sj \in Places(pat, s)[pi] : sj \in Ends(s)
         /\ pi > Len(pat) => Places(pat, s)[pi] = {Len(s) + 1}
         /\ ~(pi > Len(pat)) /\ pat[pi] # Star =>
              \A sj : sj \in Places(pat, s)[pi] <=>
                        /\ sj \in 1 .. Len(s) /\ s[sj] \in Item(pat, pi).bytes
                        /\ sj + 1 \in Places(pat, s)[Item(pat, pi).next]
<1>1. Places(pat, s)[pi] = PlacesTurn(Places(pat, s), pat, s, pi)
  BY Zenon, PlacesTurns
<1>2. Len(s) + 1 \in Ends(s) /\ \A sj \in 1 .. Len(s) : sj \in Ends(s)
  BY LaterFacts DEF Ends
<1> QED BY Zenon, <1>1, <1>2 DEF PlacesTurn, Ends

LEMMA ResultFields ==
  /\ \A r \in Result : r.ok \in BOOLEAN /\ r.skip \in BOOLEAN
  /\ \A o, p \in BOOLEAN : /\ [ok |-> o, skip |-> p] \in Result
                           /\ [ok |-> o, skip |-> p].ok = o /\ [ok |-> o, skip |-> p].skip = p
<1>1. \A r \in Result : r.ok \in BOOLEAN /\ r.skip \in BOOLEAN
  BY DEF Result
<1>2. \A o, p \in BOOLEAN : [ok |-> o, skip |-> p] \in Result
  BY Zenon DEF Result
<1>3. \A o, p : [ok |-> o, skip |-> p].ok = o /\ [ok |-> o, skip |-> p].skip = p
  OBVIOUS
<1> QED BY Zenon, <1>1, <1>2, <1>3

\* The loop under a star, given its calls.
LEMMA StarStep ==
  ASSUME NEW pat \in Seq(Bytes), NEW s \in Seq(Bytes), NEW pi \in Ends(pat), NEW si \in Ends(s),
         NEW n \in Nat, NEW f, ~(pi > Len(pat)), pat[pi] # Star,
         si <= Len(s) => /\ MatchAs(f[<<"match", pi, si, FALSE, n + 1>>], pat, s, pi, si)
                         /\ StarAs(f[<<"star", pi, si + 1, FALSE, n>>], pat, s, pi, si + 1)
  PROVE  StarAs(StarTurn(f, pat, s, pi, si, FALSE, n), pat, s, pi, si)
<1> DEFINE r == f[<<"match", pi, si, FALSE, n + 1>>]
           z == f[<<"star", pi, si + 1, FALSE, n>>]
           t == StarTurn(f, pat, s, pi, si, FALSE, n)
<1>1. \A sj \in Places(pat, s)[pi] : sj \in 1 .. Len(s)
  BY Zenon, PlacesWithin
<1>2. CASE si > Len(s)
  <2>1. ~Reached(pat, s, pi, si)
    <3>1. \A sj \in 1 .. Len(s) : ~(si <= sj)
      BY <1>2, LaterFacts DEF Ends
    <3> QED BY Zenon, <1>1, <3>1 DEF Reached
  <2>2. t = [ok |-> FALSE, skip |-> TRUE]
    BY Zenon, <1>2 DEF StarTurn
  <2> QED BY Zenon, <2>1, <2>2, ResultFields DEF StarAs
<1>3. CASE si <= Len(s)
  <2>1. MatchAs(r, pat, s, pi, si) /\ StarAs(z, pat, s, pi, si + 1) /\ ~(si > Len(s))
    BY <1>3, LaterFacts DEF Ends
  <2>2. \A sj \in 1 .. Len(s) : si <= sj <=> (sj = si \/ si + 1 <= sj)
    BY LaterFacts DEF Ends
  <2>3. Reached(pat, s, pi, si) <=> (si \in Places(pat, s)[pi] \/ Reached(pat, s, pi, si + 1))
    BY Zenon, <1>1, <2>2 DEF Reached
  <2>4. r.ok \in BOOLEAN /\ r.skip \in BOOLEAN
    BY Zenon, <2>1, ResultFields DEF MatchAs
  <2>5. CASE r.ok \/ r.skip
    <3>1. t = r
      BY Zenon, <2>1, <2>5 DEF StarTurn
    <3> HIDE DEF t, r
    <3> QED BY Zenon, <2>1, <2>3, <2>5, <3>1 DEF MatchAs, StarAs, t
  <2>6. CASE ~(r.ok \/ r.skip)
    <3>1. r.skip = FALSE
      BY Zenon, <2>4, <2>6
    <3>2. t = z
      BY Zenon, <2>1, <2>6, <3>1 DEF StarTurn
    <3> HIDE DEF t, r, z
    <3> QED BY Zenon, <2>1, <2>3, <2>6, <3>2 DEF MatchAs, StarAs, t
  <2> QED BY Zenon, <2>5, <2>6
<1>4. si > Len(s) \/ si <= Len(s)
  BY LaterFacts DEF Ends
<1> QED BY Zenon, <1>2, <1>3, <1>4

\* A call within the nesting limit, given the calls it makes.
LEMMA MatchStep ==
  ASSUME NEW pat \in Seq(Bytes), NEW s \in Seq(Bytes), NEW pi \in Ends(pat), NEW si \in Ends(s),
         NEW n \in Nat, NEW f, ~(si > Len(s)), ~(n > MaxNesting),
         ~(pi > Len(pat)) /\ pat[pi] = Star /\ ~(SkipStars(pat, pi) > Len(pat)) =>
           StarAs(f[<<"star", SkipStars(pat, pi), si, FALSE, n>>], pat, s, SkipStars(pat, pi), si),
         ~(pi > Len(pat)) /\ pat[pi] # Star /\ si # Len(s) =>
           MatchAs(f[<<"match", Consume(pat, pi, s[si]).next, si + 1, FALSE, n>>],
                   pat, s, Consume(pat, pi, s[si]).next, si + 1)
  PROVE  MatchAs(MatchTurn(f, pat, s, pi, si, FALSE, n), pat, s, pi, si)
<1> DEFINE P == Places(pat, s)
           t == MatchTurn(f, pat, s, pi, si, FALSE, n)
           q == SkipStars(pat, pi)
           c == Consume(pat, pi, s[si])
<1>1. CASE pi > Len(pat)
  <2>1. si # Len(s) + 1
    BY LaterFacts DEF Ends
  <2>2. P[pi] = {Len(s) + 1}
    BY Zenon, <1>1, PlacesWithin
  <2>3. t = [ok |-> pi > Len(pat) /\ si > Len(s), skip |-> FALSE]
    BY Zenon, <1>1 DEF MatchTurn
  <2>4. (pi > Len(pat) /\ si > Len(s)) = FALSE
    BY Zenon
  <2>5. t = [ok |-> FALSE, skip |-> FALSE]
    BY Zenon, <2>3, <2>4
  <2> QED BY Zenon, <2>1, <2>2, <2>5, ResultFields DEF MatchAs
<1>2. CASE ~(pi > Len(pat)) /\ pat[pi] = Star
  <2>1. q \in Ends(pat) /\ pi < q /\ \A i \in pi .. q - 1 : pat[i] = Star
    BY Zenon, <1>2, TurnNext, SkipFacts
  <2>2. P[pi] = Before(s, P[q])
    <3>1. \A j \in Ends(pat) : \A i \in Ends(pat) :
            (i < j /\ \A k \in i .. j - 1 : pat[k] = Star) => P[i] = Before(s, P[j])
      BY Zenon, StarRun
    <3> HIDE DEF P, q
    <3> QED BY Zenon, <2>1, <3>1
  <2>3. si \in P[pi] <=> Reached(pat, s, q, si)
    BY Zenon, <2>2 DEF Before, Reached, Ends
  <2>4. CASE q > Len(pat)
    <3>1. P[q] = {Len(s) + 1}
      BY Zenon, <2>1, <2>4, PlacesWithin
    <3>2. si <= Len(s) + 1
      BY LaterFacts DEF Ends
    <3>3. t = [ok |-> TRUE, skip |-> FALSE]
      BY Zenon, <1>2, <2>4 DEF MatchTurn
    <3>4. si \in P[pi]
      BY Zenon, <2>3, <3>1, <3>2 DEF Reached
    <3> QED BY Zenon, <3>3, <3>4, ResultFields DEF MatchAs
  <2>5. CASE ~(q > Len(pat))
    <3> DEFINE z == f[<<"star", q, si, FALSE, n>>]
    <3>1. t = z
      BY Zenon, <1>2, <2>5 DEF MatchTurn
    <3>2. StarAs(z, pat, s, q, si)
      BY Zenon, <1>2, <2>5
    <3>3. Reached(pat, s, pi, si) => Reached(pat, s, q, si)
      <4>1. \A i, j, k \in Ends(s) : i <= j /\ j <= k => i <= k
        BY LaterFacts DEF Ends
      <4>2. \A sj \in P[q] : sj \in Ends(s)
        BY Zenon, <2>1, PlacesWithin
      <4>3. \A sj \in P[pi] : sj \in Ends(s) /\ \E sk \in P[q] : sj <= sk
        BY Zenon, <2>2 DEF Before, Ends
      <4> QED BY Zenon, <4>1, <4>2, <4>3 DEF Reached
    <3> HIDE DEF t, z, P, q
    <3> QED BY Zenon, <2>3, <3>1, <3>2, <3>3 DEF MatchAs, StarAs, P, t
  <2> QED BY Zenon, <2>4, <2>5
<1>3. CASE ~(pi > Len(pat)) /\ pat[pi] # Star
  <2>1. /\ si \in DOMAIN s /\ s[si] \in Bytes /\ pi \in DOMAIN pat
        /\ c.next \in Ends(pat) /\ c.ok \in BOOLEAN
    BY Zenon, <1>3, TurnNext
  <2>2. (c.ok <=> s[si] \in Item(pat, pi).bytes) /\ c.next = Item(pat, pi).next
    BY Zenon, <2>1, ItemCorrect
  <2>3. \A sj : sj \in P[pi] <=> /\ sj \in 1 .. Len(s) /\ s[sj] \in Item(pat, pi).bytes
                                 /\ sj + 1 \in P[c.next]
    <3>1. \A sj : sj \in P[pi] <=> /\ sj \in 1 .. Len(s) /\ s[sj] \in Item(pat, pi).bytes
                                   /\ sj + 1 \in P[Item(pat, pi).next]
      BY Zenon, <1>3, PlacesWithin
    <3> HIDE DEF P, c
    <3> QED BY Zenon, <2>2, <3>1
  <2>4. si \in 1 .. Len(s)
    BY Zenon, <2>1, LaterFacts
  <2> HIDE DEF P, c
  <2>5. si \in P[pi] <=> c.ok /\ si + 1 \in P[c.next]
    BY Zenon, <2>2, <2>3, <2>4
  <2>6. CASE ~c.ok
    <3>1. t = [ok |-> FALSE, skip |-> FALSE]
      BY Zenon, <1>3, <2>6 DEF MatchTurn, c
    <3> QED BY Zenon, <2>5, <2>6, <3>1, ResultFields DEF MatchAs, P
  <2>7. CASE c.ok /\ si = Len(s)
    <3> DEFINE o == SkipStars(pat, c.next) > Len(pat)
    <3>1. t = [ok |-> o, skip |-> FALSE]
      BY Zenon, <1>3, <2>7 DEF MatchTurn, c
    <3>2. o \in BOOLEAN
      OBVIOUS
    <3>3. Len(s) + 1 \in P[c.next] <=> o
      BY Zenon, <2>1, OnlyStars DEF P
    <3> HIDE DEF o
    <3> QED BY ZenonT(40), <2>5, <2>7, <3>1, <3>2, <3>3, ResultFields DEF MatchAs, P
  <2>8. CASE c.ok /\ si # Len(s)
    <3> DEFINE z == f[<<"match", c.next, si + 1, FALSE, n>>]
    <3>1. t = z
      BY Zenon, <1>3, <2>8 DEF MatchTurn, c
    <3>2. MatchAs(z, pat, s, c.next, si + 1)
      BY Zenon, <1>3, <2>8 DEF c
    <3>3. Reached(pat, s, pi, si) => Reached(pat, s, c.next, si + 1)
      <4>1. \A sj \in 1 .. Len(s) : si <= sj => si + 1 <= sj + 1
        BY <2>4
      <4> QED BY Zenon, <2>3, <4>1 DEF Reached, P
    <3> HIDE DEF t, z
    <3> QED BY Zenon, <2>5, <2>8, <3>1, <3>2, <3>3 DEF MatchAs, P, t
  <2> QED BY Zenon, <2>6, <2>7, <2>8
<1> QED BY Zenon, <1>1, <1>2, <1>3

LEMMA StarsType ==
  ASSUME NEW pat \in Seq(Bytes), NEW pi \in Ends(pat)
  PROVE  Cardinality(Stars(pat, pi)) \in Nat
<1>1. pi \in Int /\ Len(pat) \in Int
  BY LaterFacts DEF Ends
<1>2. IsFiniteSet(pi .. Len(pat)) /\ Stars(pat, pi) \in SUBSET (pi .. Len(pat))
  BY Zenon, <1>1, FS_Interval DEF Stars
<1>3. IsFiniteSet(Stars(pat, pi))
  BY Zenon, <1>2, FS_Subset
<1> QED BY Zenon, <1>3, FS_CardinalityType

\* What a call answers while the stars ahead cannot exhaust the nesting limit.
MatchGood(pat, s, pi, si, n) ==
  ~(si > Len(s)) /\ n + Cardinality(Stars(pat, pi)) <= MaxNesting =>
    MatchAs(GlobImpl(pat, s)[<<"match", pi, si, FALSE, n>>], pat, s, pi, si)

StarGood(pat, s, pi, si, n) ==
  ~(pi > Len(pat)) /\ pat[pi] # Star /\ n + 1 + Cardinality(Stars(pat, pi)) <= MaxNesting =>
    StarAs(GlobImpl(pat, s)[<<"star", pi, si, FALSE, n>>], pat, s, pi, si)

CallGood(pat, s, call) ==
  \A pi \in Ends(pat), si \in Ends(s), n \in Nat :
    /\ call = <<"match", pi, si, FALSE, n>> => MatchGood(pat, s, pi, si, n)
    /\ call = <<"star", pi, si, FALSE, n>> => StarGood(pat, s, pi, si, n)

LowerGood(pat, s, call) ==
  \A y \in Calls(pat, s) : Rank(pat, s)[y] < Rank(pat, s)[call] => CallGood(pat, s, y)

LEMMA MatchGoodStep ==
  ASSUME NEW pat \in Seq(Bytes), NEW s \in Seq(Bytes), NEW pi \in Ends(pat), NEW si \in Ends(s),
         NEW n \in Nat, LowerGood(pat, s, <<"match", pi, si, FALSE, n>>)
  PROVE  MatchGood(pat, s, pi, si, n)
<1> DEFINE I == GlobImpl(pat, s)
           q == SkipStars(pat, pi)
           z == Consume(pat, pi, s[si]).next
           stars(pj) == Cardinality(Stars(pat, pj))
<1> SUFFICES ASSUME ~(si > Len(s)), n + stars(pi) <= MaxNesting
             PROVE  MatchAs(I[<<"match", pi, si, FALSE, n>>], pat, s, pi, si)
  BY Zenon DEF MatchGood
<1>1. ~(n > MaxNesting)
  <2>1. stars(pi) \in Nat
    BY Zenon, StarsType
  <2> HIDE DEF stars
  <2> QED BY <2>1 DEF MaxNesting
<1>2. I[<<"match", pi, si, FALSE, n>>] = MatchTurn(I, pat, s, pi, si, FALSE, n)
  <2>1. <<"match", pi, si, FALSE, n>> \in Calls(pat, s)
    BY Zenon, CallFields
  <2>2. I[<<"match", pi, si, FALSE, n>>] = ImplTurn(I, pat, s, <<"match", pi, si, FALSE, n>>)
    BY Zenon, <2>1, ImplTurns
  <2> HIDE DEF I
  <2> QED BY Zenon, <2>2, TurnsSpelled
<1>3. ASSUME ~(pi > Len(pat)), pat[pi] = Star, ~(q > Len(pat))
      PROVE  StarAs(I[<<"star", q, si, FALSE, n>>], pat, s, q, si)
  <2>1. q \in Ends(pat) /\ pi < q /\ pi \in DOMAIN pat
    BY Zenon, <1>3, TurnNext
  <2>2. CallGood(pat, s, <<"star", q, si, FALSE, n>>)
    BY Zenon, <2>1, CallsRankLower DEF LowerGood
  <2>3. StarGood(pat, s, q, si, n)
    BY Zenon, <2>1, <2>2 DEF CallGood
  <2>4. n + 1 + stars(q) <= MaxNesting
    <3>1. stars(q) \in Nat /\ stars(pi) \in Nat /\ stars(q) + 1 <= stars(pi)
      BY Zenon, <1>3, <2>1, StarsFacts
    <3> HIDE DEF stars, q
    <3> QED BY <3>1 DEF MaxNesting
  <2>5. pat[q] # Star
    <3>1. q <= Len(pat)
      BY <1>3, <2>1, LaterFacts DEF Ends
    <3> QED BY Zenon, <3>1, SkipFacts
  <2> QED BY Zenon, <1>3, <2>3, <2>4, <2>5 DEF StarGood
<1>4. ASSUME ~(pi > Len(pat)), si # Len(s)
      PROVE  MatchAs(I[<<"match", z, si + 1, FALSE, n>>], pat, s, z, si + 1)
  <2>1. z \in Ends(pat) /\ pi < z /\ si <= Len(s)
    BY Zenon, <1>4, TurnNext
  <2>2. si + 1 \in Ends(s) /\ ~(si + 1 > Len(s))
    BY <1>4, <2>1, LaterFacts DEF Ends
  <2>3. CallGood(pat, s, <<"match", z, si + 1, FALSE, n>>)
    BY Zenon, <2>1, CallsRankLower DEF LowerGood
  <2>4. MatchGood(pat, s, z, si + 1, n)
    BY Zenon, <2>1, <2>2, <2>3 DEF CallGood
  <2>5. n + stars(z) <= MaxNesting
    <3>1. stars(z) \in Nat /\ stars(pi) \in Nat /\ stars(z) <= stars(pi)
      BY Zenon, <2>1, StarsFacts
    <3> HIDE DEF stars, z
    <3> QED BY <3>1 DEF MaxNesting
  <2> QED BY Zenon, <2>2, <2>4, <2>5 DEF MatchGood
<1> QED BY Zenon, <1>1, <1>2, <1>3, <1>4, MatchStep

LEMMA StarGoodStep ==
  ASSUME NEW pat \in Seq(Bytes), NEW s \in Seq(Bytes), NEW pi \in Ends(pat), NEW si \in Ends(s),
         NEW n \in Nat, LowerGood(pat, s, <<"star", pi, si, FALSE, n>>)
  PROVE  StarGood(pat, s, pi, si, n)
<1> DEFINE I == GlobImpl(pat, s)
           stars == Cardinality(Stars(pat, pi))
<1> SUFFICES ASSUME ~(pi > Len(pat)), pat[pi] # Star, n + 1 + stars <= MaxNesting
             PROVE  StarAs(I[<<"star", pi, si, FALSE, n>>], pat, s, pi, si)
  BY Zenon DEF StarGood
<1>1. I[<<"star", pi, si, FALSE, n>>] = StarTurn(I, pat, s, pi, si, FALSE, n)
  <2>1. <<"star", pi, si, FALSE, n>> \in Calls(pat, s)
    BY Zenon, CallFields
  <2>2. I[<<"star", pi, si, FALSE, n>>] = ImplTurn(I, pat, s, <<"star", pi, si, FALSE, n>>)
    BY Zenon, <2>1, ImplTurns
  <2> HIDE DEF I
  <2> QED BY Zenon, <2>2, TurnsSpelled
<1>2. ASSUME si <= Len(s)
      PROVE  /\ MatchAs(I[<<"match", pi, si, FALSE, n + 1>>], pat, s, pi, si)
             /\ StarAs(I[<<"star", pi, si + 1, FALSE, n>>], pat, s, pi, si + 1)
  <2>1. si + 1 \in Ends(s) /\ ~(si > Len(s)) /\ n + 1 \in Nat
    BY <1>2, LaterFacts DEF Ends
  <2>2. CallGood(pat, s, <<"match", pi, si, FALSE, n + 1>>) /\ CallGood(pat, s, <<"star", pi, si + 1, FALSE, n>>)
    BY Zenon, <1>2, CallsRankLower DEF LowerGood
  <2>3. MatchGood(pat, s, pi, si, n + 1) /\ StarGood(pat, s, pi, si + 1, n)
    BY Zenon, <2>1, <2>2 DEF CallGood
  <2> QED BY Zenon, <2>1, <2>3 DEF MatchGood, StarGood
<1> QED BY Zenon, <1>1, <1>2, StarStep

LEMMA CallsGood ==
  ASSUME NEW pat \in Seq(Bytes), NEW s \in Seq(Bytes)
  PROVE  \A call \in Calls(pat, s) : CallGood(pat, s, call)
<1> DEFINE D == Calls(pat, s)
           rank == Rank(pat, s)
           G == {call \in D : CallGood(pat, s, call)}
<1>1. rank \in [D -> Nat]
  BY Zenon, RankType
<1>2. ASSUME NEW x \in D, \A y \in D : rank[y] < rank[x] => y \in G PROVE x \in G
  <2>1. LowerGood(pat, s, x)
    BY Zenon, <1>2 DEF LowerGood
  <2> QED BY Zenon, <2>1, MatchGoodStep, StarGoodStep DEF CallGood
<1> HIDE DEF D, rank, G
<1>3. D \subseteq G
  BY Zenon, <1>1, <1>2, ByRank
<1> QED BY Zenon, <1>3 DEF D, G

\* The matcher is correct: a pattern with no more than MaxNesting stars matches a
\* key exactly if it means it.  The early exit (skip_longer), the runs of stars that
\* are skipped and the test at the end of the key lose no match and admit none.
THEOREM GlobCorrect ==
  ASSUME NEW pat \in Seq(Bytes), NEW s \in Seq(Bytes), pat # <<>>,
         Cardinality(Stars(pat, 1)) <= MaxNesting
  PROVE  GlobMatch(pat, s) <=> Means(pat, s)
<1> DEFINE I == GlobImpl(pat, s)
           call == <<"match", 1, 1, FALSE, 0>>
<1>1. 1 \in Ends(pat) /\ 1 \in Ends(s) /\ 0 \in Nat /\ ~(1 > Len(pat))
  BY LaterFacts DEF Ends
<1>2. call \in Calls(pat, s)
  BY Zenon, <1>1, CallFields
<1>3. CASE s = <<>>
  <2>1. 1 > Len(s) /\ ~(0 > MaxNesting)
    BY <1>3 DEF MaxNesting
  <2>2. I[call] = MatchTurn(I, pat, s, 1, 1, FALSE, 0)
    <3>1. I[call] = ImplTurn(I, pat, s, call)
      BY Zenon, <1>2, ImplTurns
    <3>2. \A f : ImplTurn(f, pat, s, call) = MatchTurn(f, pat, s, 1, 1, FALSE, 0)
      BY Zenon, TurnsSpelled
    <3> HIDE DEF I, call
    <3> QED BY Zenon, <3>1, <3>2
  <2>3. I[call] = [ok |-> 1 > Len(pat) /\ 1 > Len(s), skip |-> FALSE]
    BY Zenon, <2>1, <2>2 DEF MatchTurn
  <2>4. (1 > Len(pat) /\ 1 > Len(s)) = FALSE
    BY <1>1
  <2>5. I[call].ok = FALSE
    <3>1. I[call] = [ok |-> FALSE, skip |-> FALSE]
      BY Zenon, <2>3, <2>4
    <3> HIDE DEF I, call
    <3> QED BY <3>1
  <2> QED BY Zenon, <1>3, <2>5 DEF GlobMatch, Means
<1>4. CASE s # <<>>
  <2>1. ~(1 > Len(s))
    BY <1>4, LaterFacts
  <2>2. 0 + Cardinality(Stars(pat, 1)) <= MaxNesting
    BY <1>1, StarsType
  <2>3. CallGood(pat, s, call)
    BY Zenon, <1>2, CallsGood
  <2>4. MatchGood(pat, s, 1, 1, 0)
    BY Zenon, <1>1, <2>3 DEF CallGood
  <2>5. MatchAs(I[call], pat, s, 1, 1)
    BY Zenon, <2>1, <2>2, <2>4 DEF MatchGood
  <2> QED BY Zenon, <1>4, <2>5 DEF GlobMatch, Means, MatchAs
<1> QED BY Zenon, <1>3, <1>4

\* With glob_match as the matcher the gates pass exactly what the texts in force
\* select, for all patterns of no more than MaxNesting stars and all keys.
THEOREM FilterCorrect ==
  ASSUME \A p, k : KeyMatch(p, k) = GlobMatch(p, k) /\ KeyMeans(p, k) = Means(p, k),
         \A text \in KeyTexts : \A p \in text :
           p \in Seq(Bytes) /\ Cardinality(Stars(p, 1)) <= MaxNesting,
         \A e \in Events : e.key \in Seq(Bytes)
  PROVE  Spec => []CapturedAsConfigured
<1>1. ASSUME NEW text \in KeyTexts, KeyFilterParses(text), NEW p \in text, NEW e \in Events
      PROVE  KeyMatch(p, e.key) <=> KeyMeans(p, e.key)
  <2>1. p \in Seq(Bytes) /\ e.key \in Seq(Bytes) /\ p # <<>> /\ Cardinality(Stars(p, 1)) <= MaxNesting
    BY Zenon, <1>1 DEF KeyFilterParses
  <2>2. GlobMatch(p, e.key) <=> Means(p, e.key)
    BY Zenon, <2>1, GlobCorrect
  <2> QED BY Zenon, <2>2
<1>2. MatcherRight
  BY Zenon, <1>1 DEF MatcherRight
<1> QED BY Zenon, <1>2, DecisionCorrect

=============================================================================

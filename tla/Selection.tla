------------------------------- MODULE Selection -------------------------------
(***************************************************************************)
(* Which notifications become entries: the module's load and unload with   *)
(* the subscription it makes, the three run-time filters and their         *)
(* validation (src/config.rs), the gates of on_keyspace_event              *)
(* (src/capture.rs) and the per-stream failure log (src/stats.rs) that the *)
(* write behind the gates feeds.                                           *)
(*                                                                         *)
(* A configuration text is the set of its comma-separated tokens.  The     *)
(* write is the one of sync mode: its outcome is known within the same     *)
(* execution unit.                                                         *)
(***************************************************************************)
EXTENDS Integers, Sequences, FiniteSets

CONSTANTS AllClasses,   \* the classes of NOTIFY_ALL
          Extra,        \* @missed and @new, delivered only if subscribed at load
          Suffix,       \* Suffix[n]: sanitize of event name n; NoSuffix if empty
          NoSuffix,
          Own(_),       \* the key starts with the stream prefix
          KeyMatch(_, _), \* glob_match(pattern, key)
          KeyMeans(_, _), \* what the pattern means
          AnyKey,       \* the pattern `*`
          Events,       \* the notifications of this instance
          FilterTexts, KeyTexts, DbTexts,  \* the values given to the three filters
          Window,       \* LOG_WINDOW_SECS
          Times,        \* readings of the clock; 0 also stands for before the epoch
          MaxSteps      \* bound: steps

AnyDb  == -1   \* the token `*` of source-dbs
BadDb  == -2   \* a token that is no database index
Names  == DOMAIN Suffix
Streams == {Suffix[n] : n \in Names} \ {NoSuffix}

Token == [kind : {"star", "class", "name", "bad"}, value : AllClasses \cup Extra \cup Names \cup {""}]

ASSUME SelectionAssumption ==
  /\ IsFiniteSet(AllClasses) /\ IsFiniteSet(Extra) /\ AllClasses \cap Extra = {}
  /\ "uninit" \notin Extra
  /\ \A e \in Events : e.class \in AllClasses \cup Extra /\ e.name \in Names /\ e.db \in Nat
  /\ FilterTexts \subseteq SUBSET Token
  /\ DbTexts \subseteq SUBSET (Nat \cup {AnyDb, BadDb})
  /\ Window \in Nat \ {0} /\ Times \subseteq Nat /\ MaxSteps \in Nat

VARIABLES subscribed, \* SUBSCRIBED_EXTRA
          loaded,     \* the module is loaded
          mask,       \* the classes the server delivers to the module
          enabled,    \* ENABLED
          filter,     \* FILTER: raw and parsed
          keyFilter,  \* KEY_FILTER: raw and parsed
          sourceDbs,  \* SOURCE_DBS: raw and parsed
          master,     \* master and not loading
          count,      \* the counters of the load, and what no counter counts
          notified,   \* notifications delivered since the load; history only
          stats,      \* STREAM_STATS: the failure log of each stream
          warnings,   \* warnings of each stream's failing streak; history only
          now,        \* the clock, seconds
          stale,      \* image left by a load that failed late; history only
          left        \* steps left

config == <<enabled, filter, keyFilter, sourceDbs>>
vars   == <<subscribed, loaded, mask, config, master, count, notified, stats, warnings, now,
            stale, left>>

\* EXTRA_UNINIT.
Uninit == {"uninit"}

\* The SKIPPED_* counters, FORWARDED and EVENTS_LOST; nothing in the code counts
\* what the switch and the role turn away.
Zeroes == [silent |-> 0, self |-> 0, filtered |-> 0, key |-> 0, db |-> 0, invalid |-> 0,
           forwarded |-> 0, lost |-> 0]

\* StreamStats::default().
NoStats == [failing |-> 0, warned |-> 0, suppressed |-> 0]

\* No warning in this failing streak: failures told of, and the warnings' times.
NoWarning == [told |-> 0, times |-> <<>>]

Step == left > 0 /\ left' = left - 1

-----------------------------------------------------------------------------
(* The filters. *)

\* parse_filter: one bad token (empty, unknown or uncapturable class, a space
\* in a name) rejects the text.
FilterParses(text) == text # {} /\ \A t \in text : t.kind # "bad"

ParseFilter(text) ==
  [star    |-> \E t \in text : t.kind = "star",
   classes |-> {t.value : t \in {u \in text : u.kind = "class"}},
   names   |-> {t.value : t \in {u \in text : u.kind = "name"}}]

\* ParsedFilter::matches.
FilterMatches(parsed, e) ==
  parsed.star \/ e.class \in parsed.classes \/ e.name \in parsed.names

\* parse_key_filter; only an empty pattern is rejected.
KeyFilterParses(text) == text # {} /\ <<>> \notin text

ParseKeyFilter(text) == [star |-> AnyKey \in text, patterns |-> text \ {AnyKey}]

\* ParsedKeyFilter::matches.
KeyFilterMatches(parsed, key) ==
  parsed.star \/ \E p \in parsed.patterns : KeyMatch(p, key)

\* parse_source_dbs and ParsedDbFilter::matches.
DbsParse(text) == text # {} /\ BadDb \notin text

ParseSourceDbs(text) == [star |-> AnyDb \in text, dbs |-> text \ {AnyDb}]

DbMatches(parsed, db) == parsed.star \/ db \in parsed.dbs

Config(raw, parsed) == [raw |-> raw, parsed |-> parsed]

\* Mutant: the setter does not look at the subscription.
MissingUnchecked(parsed) == {}

\* extra_classes_named, and the check of FilterConfig::set against the
\* subscription, which the sentinel switches off.
Missing(parsed) == IF subscribed = Uninit THEN {} ELSE (parsed.classes \cap Extra) \ subscribed

FilterAccepted(text) == FilterParses(text) /\ Missing(ParseFilter(text)) = {}

\* The extra classes init subscribes to: those the filter names, and all of
\* them for `*`.
ExtraOf(parsed) == IF parsed.star THEN Extra ELSE parsed.classes \cap Extra

-----------------------------------------------------------------------------
(* Load and unload.  A load's setters overwrite every configuration value    *)
(* before anything reads it, so what a failed load leaves there is not kept. *)

\* What is left of the image's statics when it is no longer in use: nothing
\* when the library is unmapped, everything when the platform keeps it.
Leave(value, kept) == subscribed' = IF kept THEN value ELSE Uninit

\* reset_generation_stats.
ResetStats ==
  /\ count' = Zeroes /\ notified' = 0
  /\ stats' = [s \in Streams |-> NoStats]
  /\ warnings' = [s \in Streams |-> NoWarning]

\* MODULE LOAD with these arguments: the setters run before init.
Load(f, k, d, on) ==
  /\ Step /\ ~loaded
  /\ FilterAccepted(f) /\ KeyFilterParses(k) /\ DbsParse(d)
  /\ filter' = Config(f, ParseFilter(f))
  /\ keyFilter' = Config(k, ParseKeyFilter(k))
  /\ sourceDbs' = Config(d, ParseSourceDbs(d))
  /\ enabled' = on
  /\ subscribed' = ExtraOf(ParseFilter(f))
  /\ mask' = AllClasses \cup ExtraOf(ParseFilter(f))
  /\ loaded' = TRUE
  /\ ResetStats
  /\ stale' = FALSE
  /\ UNCHANGED <<master, now>>

\* A setter rejects its argument: the load fails before init.
LoadRejected(f, k, d, kept) ==
  /\ Step /\ ~loaded
  /\ ~(FilterAccepted(f) /\ KeyFilterParses(k) /\ DbsParse(d))
  /\ Leave(subscribed, kept)
  /\ stale' = (stale /\ kept)
  /\ UNCHANGED <<loaded, mask, config, master, count, notified, stats, warnings, now>>

\* init gives up before it subscribes: the version, in front of
\* reset_generation_state, or behind it cluster mode or the subscription itself.
LoadFailsEarly(kept) ==
  /\ Step /\ ~loaded
  /\ Leave(subscribed, kept)
  /\ stale' = (stale /\ kept)
  /\ ResetStats \/ UNCHANGED <<count, notified, stats, warnings>>
  /\ UNCHANGED <<loaded, mask, config, master, now>>

\* init gives up behind the subscription: no cron event, no worker thread.
LoadFailsLate(f, k, d, kept) ==
  /\ Step /\ ~loaded
  /\ FilterAccepted(f) /\ KeyFilterParses(k) /\ DbsParse(d)
  /\ Leave(ExtraOf(ParseFilter(f)), kept)
  /\ ResetStats
  /\ stale' = kept
  /\ UNCHANGED <<loaded, mask, config, master, now>>

\* Mutant: finish_generation is not called.
UnloadKeepsMask(kept) ==
  /\ Step /\ loaded
  /\ loaded' = FALSE
  /\ mask' = {}
  /\ Leave(subscribed, kept)
  /\ UNCHANGED <<config, master, count, notified, stats, warnings, now, stale>>

\* MODULE UNLOAD: finish_generation restores the sentinel.
Unload(kept) ==
  /\ Step /\ loaded
  /\ loaded' = FALSE
  /\ mask' = {}
  /\ Leave(Uninit, kept)
  /\ UNCHANGED <<config, master, count, notified, stats, warnings, now, stale>>

-----------------------------------------------------------------------------
(* CONFIG SET; a rejected value changes nothing. *)

SetFilter(f) ==
  /\ Step /\ loaded
  /\ filter' = IF FilterAccepted(f) THEN Config(f, ParseFilter(f)) ELSE filter
  /\ UNCHANGED <<subscribed, loaded, mask, enabled, keyFilter, sourceDbs, master, count,
                 notified, stats, warnings, now, stale>>

SetKeyFilter(k) ==
  /\ Step /\ loaded
  /\ keyFilter' = IF KeyFilterParses(k) THEN Config(k, ParseKeyFilter(k)) ELSE keyFilter
  /\ UNCHANGED <<subscribed, loaded, mask, enabled, filter, sourceDbs, master, count,
                 notified, stats, warnings, now, stale>>

SetSourceDbs(d) ==
  /\ Step /\ loaded
  /\ sourceDbs' = IF DbsParse(d) THEN Config(d, ParseSourceDbs(d)) ELSE sourceDbs
  /\ UNCHANGED <<subscribed, loaded, mask, enabled, filter, keyFilter, master, count,
                 notified, stats, warnings, now, stale>>

SetEnabled(on) ==
  /\ Step /\ loaded
  /\ enabled' = on
  /\ UNCHANGED <<subscribed, loaded, mask, filter, keyFilter, sourceDbs, master, count,
                 notified, stats, warnings, now, stale>>

\* A promotion, a demotion, the start or the end of a dataset load.
SetMaster(m) ==
  /\ Step
  /\ master' = m
  /\ UNCHANGED <<subscribed, loaded, mask, config, count, notified, stats, warnings, now,
                 stale>>

\* Any step of the wall clock, backwards included.
SetClock(t) ==
  /\ Step
  /\ now' = t
  /\ UNCHANGED <<subscribed, loaded, mask, config, master, count, notified, stats, warnings,
                 stale>>

\* on_flush_started: STREAM_STATS is cleared.
Flush ==
  /\ Step /\ loaded
  /\ stats' = [s \in Streams |-> NoStats]
  /\ warnings' = [s \in Streams |-> NoWarning]
  /\ UNCHANGED <<subscribed, loaded, mask, config, master, count, notified, now, stale>>

-----------------------------------------------------------------------------
(* The notification callback and the write behind it. *)

Count(c) == count' = [count EXCEPT ![c] = @ + 1]

\* The gates of on_keyspace_event, in their order: the counter the event ends
\* in, or "selected".
Gate(e) ==
  IF ~enabled THEN "silent"
  ELSE IF Own(e.key) THEN "self"
  ELSE IF ~master THEN "silent"
  ELSE IF ~FilterMatches(filter.parsed, e) THEN "filtered"
  ELSE IF ~KeyFilterMatches(keyFilter.parsed, e.key) THEN "key"
  ELSE IF ~DbMatches(sourceDbs.parsed, e.db) THEN "db"
  ELSE IF Suffix[e.name] = NoSuffix THEN "invalid"
  ELSE "selected"

Delivered(e) == loaded /\ e.class \in mask /\ notified' = notified + 1

\* A notification that a gate turns away.
NotifySkipped(e) ==
  /\ Step /\ Delivered(e)
  /\ Gate(e) # "selected"
  /\ Count(Gate(e))
  /\ UNCHANGED <<subscribed, loaded, mask, config, master, stats, warnings, now, stale>>

\* record_success: the end of a failing streak clears its log.
RecordSuccess(st) == IF st.failing = 0 THEN st ELSE NoStats

\* The XADD succeeds.
NotifyWritten(e) ==
  /\ Step /\ Delivered(e)
  /\ Gate(e) = "selected"
  /\ Count("forwarded")
  /\ stats' = [stats EXCEPT ![Suffix[e.name]] = RecordSuccess(@)]
  /\ warnings' = [warnings EXCEPT ![Suffix[e.name]] = NoWarning]
  /\ UNCHANGED <<subscribed, loaded, mask, config, master, now, stale>>

\* record_failure: whether this failure may be logged.
MayWarn(st) == st.warned = 0 \/ now - st.warned >= Window

\* Mutant: a warning does not reset the suppressed count.
RecordFailureKeepsCount(st) ==
  IF MayWarn(st)
    THEN [failing |-> st.failing + 1, warned |-> now, suppressed |-> st.suppressed]
    ELSE [failing |-> st.failing + 1, warned |-> st.warned, suppressed |-> st.suppressed + 1]

RecordFailure(st) ==
  IF MayWarn(st)
    THEN [failing |-> st.failing + 1, warned |-> now, suppressed |-> 0]
    ELSE [failing |-> st.failing + 1, warned |-> st.warned, suppressed |-> st.suppressed + 1]

\* The XADD is refused: count_event_lost_stream and count_stream_drop.
NotifyLost(e) ==
  LET s == Suffix[e.name] IN
  /\ Step /\ Delivered(e)
  /\ Gate(e) = "selected"
  /\ Count("lost")
  /\ stats' = [stats EXCEPT ![s] = RecordFailure(@)]
  /\ warnings' = IF MayWarn(stats[s])
                   THEN [warnings EXCEPT ![s] = [told  |-> @.told + stats[s].suppressed + 1,
                                                 times |-> Append(@.times, now)]]
                   ELSE warnings
  /\ UNCHANGED <<subscribed, loaded, mask, config, master, now, stale>>

\* count_event_lost: a drop with no stream to hold it against (the stream cap,
\* no owned slot, no job).
NotifyDropped(e) ==
  /\ Step /\ Delivered(e)
  /\ Gate(e) = "selected"
  /\ Count("lost")
  /\ UNCHANGED <<subscribed, loaded, mask, config, master, stats, warnings, now, stale>>

Init ==
  /\ subscribed = Uninit /\ loaded = FALSE /\ mask = {} /\ enabled = TRUE
  /\ filter = Config({}, ParseFilter({}))
  /\ keyFilter = Config({AnyKey}, ParseKeyFilter({AnyKey}))
  /\ sourceDbs = Config({AnyDb}, ParseSourceDbs({AnyDb}))
  /\ master = TRUE /\ now \in Times /\ stale = FALSE /\ left = MaxSteps
  /\ count = Zeroes /\ notified = 0
  /\ stats = [s \in Streams |-> NoStats]
  /\ warnings = [s \in Streams |-> NoWarning]

Loading ==
  \E f \in FilterTexts, k \in KeyTexts, d \in DbTexts :
    \/ \E on \in BOOLEAN : Load(f, k, d, on)
    \/ \E kept \in BOOLEAN : LoadRejected(f, k, d, kept) \/ LoadFailsLate(f, k, d, kept)

Configure ==
  \/ \E f \in FilterTexts : SetFilter(f)
  \/ \E k \in KeyTexts : SetKeyFilter(k)
  \/ \E d \in DbTexts : SetSourceDbs(d)
  \/ \E on \in BOOLEAN : SetEnabled(on)

Notification ==
  \E e \in Events : NotifySkipped(e) \/ NotifyWritten(e) \/ NotifyLost(e) \/ NotifyDropped(e)

Next ==
  \/ Loading
  \/ \E kept \in BOOLEAN : LoadFailsEarly(kept) \/ Unload(kept)
  \/ Configure
  \/ \E m \in BOOLEAN : SetMaster(m)
  \/ \E t \in Times : SetClock(t)
  \/ Flush
  \/ Notification

Spec == Init /\ [][Next]_vars

-----------------------------------------------------------------------------
(* Properties. *)

\* Type invariant: the configuration as the setters leave it, the counters and
\* the failure log keep their types.
TypeOK ==
  /\ subscribed \in (SUBSET Extra) \cup {Uninit}
  /\ loaded \in BOOLEAN /\ mask \in SUBSET (AllClasses \cup Extra)
  /\ enabled \in BOOLEAN /\ master \in BOOLEAN /\ stale \in BOOLEAN
  /\ filter.parsed.star \in BOOLEAN /\ keyFilter.parsed.star \in BOOLEAN
  /\ sourceDbs.parsed.dbs \subseteq Nat
  /\ count \in [{"silent", "self", "filtered", "key", "db", "invalid", "forwarded", "lost"} -> Nat]
  /\ notified \in Nat /\ now \in Times /\ left \in 0 .. MaxSteps
  /\ stats \in [Streams -> [failing : Nat, warned : Nat, suppressed : Nat]]
  /\ warnings \in [Streams -> [told : Nat, times : Seq(Times)]]

\* Every notification delivered since the load ends in exactly one place: a
\* SKIPPED_* counter, FORWARDED, EVENTS_LOST, or turned away by the switch or
\* the role, which nothing counts.
Accounted ==
  notified = count.silent + count.self + count.filtered + count.key + count.db
             + count.invalid + count.forwarded + count.lost

\* What the texts that CONFIG GET shows, the switch and the role select.
Selected(e) ==
  /\ enabled /\ master /\ ~Own(e.key)
  /\ \E t \in filter.raw : \/ t.kind = "star"
                           \/ t.kind = "class" /\ t.value = e.class
                           \/ t.kind = "name" /\ t.value = e.name
  /\ AnyKey \in keyFilter.raw \/ \E p \in keyFilter.raw : KeyMeans(p, e.key)
  /\ AnyDb \in sourceDbs.raw \/ e.db \in sourceDbs.raw
  /\ Suffix[e.name] # NoSuffix

\* The gates pass a delivered notification exactly when the texts in force
\* select it: a rejected CONFIG SET leaves no trace in the decision, and neither
\* the star collapsing nor the skip_longer cut of the glob matcher changes it.
\* The nesting limit would, and only for patterns of more than MaxNesting stars.
CapturedAsConfigured ==
  loaded => \A e \in Events : e.class \in mask => (Gate(e) = "selected") = Selected(e)

\* A filter the loaded module has accepted names @missed or @new only if the
\* server delivers that class to it, whatever loads failed or ended before.
AcceptedIsSubscribed ==
  loaded => filter.parsed.classes \cap Extra \subseteq mask

\* The filter of a load is never held against an old subscription: before a
\* load every well-formed text passes the setter, unless the image is the one
\* of a load that failed after it had subscribed.
LoadFilterAccepted ==
  (~loaded /\ ~stale) => \A f \in FilterTexts : FilterParses(f) => FilterAccepted(f)

\* The failure log tells of every lost write of a failing streak exactly once:
\* the failures its warnings told of and those still suppressed are the drops
\* the recovery notice reports, and a failing stream has been warned of.
ReportsExact ==
  \A s \in Streams :
    /\ stats[s].failing = warnings[s].told + stats[s].suppressed
    /\ stats[s].failing > 0 => warnings[s].told > 0

\* Two warnings of one failing streak are a window apart, whatever the clock
\* does, unless the first was stamped 0, which reads as never warned.
WarnSpacing ==
  \A s \in Streams :
    \A i \in 1 .. Len(warnings[s].times) - 1 :
      \/ warnings[s].times[i] = 0
      \/ warnings[s].times[i + 1] - warnings[s].times[i] >= Window
=============================================================================

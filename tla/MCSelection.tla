------------------------------ MODULE MCSelection ------------------------------
(* Selection for TLC, with the glob matcher for the key filter.               *)
EXTENDS Selection, Glob, TLC

a     == 97
b     == 98
Colon == 58

\* In this instance the stream prefix is one colon.
MCOwn(key) == key # <<>> /\ key[1] = Colon

MCSuffix == ("set" :> "set") @@ ("miss" :> "miss") @@ ("" :> "none")

Event(class, name, key, db) == [class |-> class, name |-> name, key |-> key, db |-> db]

Words(bytes, n) == UNION {[1 .. m -> bytes] : m \in 1 .. n}

MCEvents ==
  {Event("string", "set", k, 0) :
     k \in Words({a, b}, 4) \cup Words({Star, Dash, Question, Open, Escape, Close, Caret}, 1)}
  \cup {Event("string", "set", <<Colon>>, 0), Event("string", "set", <<>>, 0),
        Event("string", "set", <<b>>, 1), Event("missed", "miss", <<a>>, 0),
        Event("generic", "", <<a>>, 0)}

Tk(kind, value) == [kind |-> kind, value |-> value]

MCFilterTexts ==
  {{Tk("star", "")}, {Tk("name", "set")}, {Tk("class", "missed"), Tk("class", "string")},
   {Tk("star", ""), Tk("bad", "")}}

MCKeyTexts == {{<<Star>>}, {<<a, Star>>, <<Open, Caret, a, Close>>}, {<<>>}}
MCDbTexts  == {{AnyDb}, {1}, {0, BadDb}}
MCTimes    == 0 .. 3
MCAnyKey   == <<Star>>

\* A module loaded with one key pattern, for many patterns: the state of each
\* such load is checked, and no step is taken from it.
Patterns ==
  Words({Star, Dash, Question, Open, Escape, Close, Caret, a, b}, 4) \cup Words({Star, a, b}, 6)

PatternInit ==
  LET every == {Tk("star", "")} IN
  /\ subscribed = ExtraOf(ParseFilter(every)) /\ loaded = TRUE
  /\ mask = AllClasses \cup Extra /\ enabled = TRUE
  /\ filter = Config(every, ParseFilter(every))
  /\ \E p \in Patterns : keyFilter = Config({p}, ParseKeyFilter({p}))
  /\ sourceDbs = Config({AnyDb}, ParseSourceDbs({AnyDb}))
  /\ master = TRUE /\ now = 0 /\ stale = FALSE /\ left = 0
  /\ count = Zeroes /\ notified = 0
  /\ stats = [s \in Streams |-> NoStats]
  /\ warnings = [s \in Streams |-> NoWarning]

MCSpec == (Init \/ PatternInit) /\ [][Next]_vars
=============================================================================

--------------------------------- MODULE Glob ---------------------------------
(***************************************************************************)
(* glob_match (src/config.rs), the matcher of eventstream.key-filter, and a *)
(* definition of what a pattern means to compare it with.  Patterns and    *)
(* keys are sequences of bytes.                                            *)
(***************************************************************************)
EXTENDS Integers, Sequences

Star     == 42
Dash     == 45
Question == 63
Open     == 91
Escape   == 92
Close    == 93
Caret    == 94
Bytes    == 0 .. 255

\* The bytes a range of a class stands for, in either order of its ends.
Between(a, b) == {c \in Bytes : (a <= c /\ c <= b) \/ (b <= c /\ c <= a)}

-----------------------------------------------------------------------------
(* The code.  An index names the byte the code's 0-based pi or si names,     *)
(* counted from 1, so `pi < pat.len()` is pi <= Len(pat).                     *)

\* The nesting limit of glob_match_impl.
MaxNesting == 1000

\* The loop over a class from index pi on: where it stops, and whether it finds
\* byte c.  An unterminated class stops at the last byte.
ClassLoop(pat, c) ==
  LET loop[pi \in 1 .. Len(pat) + 1] ==
        LET found(here, pj) == [at |-> loop[pj].at, matched |-> here \/ loop[pj].matched]
        IN  IF pi > Len(pat) THEN [at |-> pi - 1, matched |-> FALSE]
            ELSE IF pat[pi] = Escape /\ pi + 1 <= Len(pat) THEN found(pat[pi + 1] = c, pi + 2)
            ELSE IF pat[pi] = Close THEN [at |-> pi, matched |-> FALSE]
            ELSE IF pi + 2 <= Len(pat) /\ pat[pi + 1] = Dash
              THEN found(c \in Between(pat[pi], pat[pi + 2]), pi + 3)
            ELSE found(pat[pi] = c, pi + 1)
  IN  loop

\* Mutant: of several stars in a row one is skipped.
SkipOneStar(pat, pi) == IF pi <= Len(pat) /\ pat[pi] = Star THEN pi + 1 ELSE pi

\* The first index from pi on that is not a star.
SkipStars(pat, pi) ==
  CHOOSE pj \in pi .. Len(pat) + 1 :
    /\ \A i \in pi .. pj - 1 : pat[i] = Star
    /\ pj <= Len(pat) => pat[pj] # Star

\* Whether the pattern byte at pi lets s[si] pass, and the index behind it; for
\* every byte but a star.
Consume(pat, pi, c) ==
  IF pat[pi] = Question THEN [ok |-> TRUE, next |-> pi + 1]
  ELSE IF pat[pi] = Open THEN
    LET negate == pi + 1 <= Len(pat) /\ pat[pi + 1] = Caret
        class  == ClassLoop(pat, c)[IF negate THEN pi + 2 ELSE pi + 1]
    IN  [ok |-> class.matched # negate, next |-> class.at + 1]
  ELSE IF pat[pi] = Escape /\ pi + 1 <= Len(pat) THEN [ok |-> pat[pi + 1] = c, next |-> pi + 2]
  ELSE [ok |-> pat[pi] = c, next |-> pi + 1]

\* The calls of glob_match_impl ("match") and the turns of its loop under `*`
\* ("star"), with skip_longer and nesting as they are entered.
Calls(pat, s) ==
  {"match", "star"} \X (1 .. Len(pat) + 1) \X (1 .. Len(s) + 1) \X BOOLEAN \X Nat

\* glob_match_impl: the result, and skip_longer as the call leaves it.  Under `*`
\* the rest of the pattern is tried at every byte of s, and one attempt that ran
\* out of string ends them all.  When s is used up only stars may be left over.
GlobImpl(pat, s) ==
  LET impl[call \in Calls(pat, s)] ==
        LET pi == call[2]  si == call[3]  skip == call[4]  nesting == call[5]
            no == [ok |-> FALSE, skip |-> skip]
        IN  IF call[1] = "star" THEN
              IF si > Len(s) THEN [ok |-> FALSE, skip |-> TRUE]
              ELSE LET r == impl[<<"match", pi, si, skip, nesting + 1>>]
                   IN  IF r.ok \/ r.skip THEN r ELSE impl[<<"star", pi, si + 1, r.skip, nesting>>]
            ELSE IF nesting > MaxNesting THEN no
            ELSE IF pi > Len(pat) \/ si > Len(s)
              THEN [ok |-> pi > Len(pat) /\ si > Len(s), skip |-> skip]
            ELSE IF pat[pi] = Star THEN
              IF SkipStars(pat, pi) > Len(pat) THEN [ok |-> TRUE, skip |-> skip]
              ELSE impl[<<"star", SkipStars(pat, pi), si, skip, nesting>>]
            ELSE LET step == Consume(pat, pi, s[si])
                 IN  IF ~step.ok THEN no
                     ELSE IF si = Len(s)
                       THEN [ok |-> SkipStars(pat, step.next) > Len(pat), skip |-> skip]
                     ELSE impl[<<"match", step.next, si + 1, skip, nesting>>]
  IN  impl

GlobMatch(pat, s) == GlobImpl(pat, s)[<<"match", 1, 1, FALSE, 0>>].ok

-----------------------------------------------------------------------------
(* What a pattern means: a sequence of items, each a star or the set of the  *)
(* bytes it accepts, that can be laid out over the string.  No early exit,   *)
(* no state.                                                                 *)

\* The bytes a class accepts from index pi on, and the index behind its bracket.
Class(pat) ==
  LET class[pi \in 1 .. Len(pat) + 1] ==
        LET add(set, pj) == [bytes |-> set \cup class[pj].bytes, next |-> class[pj].next]
        IN  IF pi > Len(pat) THEN [bytes |-> {}, next |-> pi]
            ELSE IF pat[pi] = Close THEN [bytes |-> {}, next |-> pi + 1]
            ELSE IF pat[pi] = Escape /\ pi < Len(pat) THEN add({pat[pi + 1]}, pi + 2)
            ELSE IF pi + 1 < Len(pat) /\ pat[pi + 1] = Dash
              THEN add(Between(pat[pi], pat[pi + 2]), pi + 3)
            ELSE add({pat[pi]}, pi + 1)
  IN  class

\* The bytes the item at pi accepts, unless it is a star, and the index behind it.
Item(pat, pi) ==
  IF pat[pi] = Question THEN [bytes |-> Bytes, next |-> pi + 1]
  ELSE IF pat[pi] = Open /\ pi < Len(pat) /\ pat[pi + 1] = Caret
    THEN [bytes |-> Bytes \ Class(pat)[pi + 2].bytes, next |-> Class(pat)[pi + 2].next]
  ELSE IF pat[pi] = Open THEN Class(pat)[pi + 1]
  ELSE IF pat[pi] = Escape /\ pi < Len(pat) THEN [bytes |-> {pat[pi + 1]}, next |-> pi + 2]
  ELSE [bytes |-> {pat[pi]}, next |-> pi + 1]

\* The places of s from which s, to its end, is what the pattern from pi on means.
Places(pat, s) ==
  LET places[pi \in 1 .. Len(pat) + 1] ==
        IF pi > Len(pat) THEN {Len(s) + 1}
        ELSE IF pat[pi] = Star THEN
          LET behind == places[pi + 1]
          IN  {si \in 1 .. Len(s) + 1 : \E sj \in behind : si <= sj}
        ELSE LET item   == Item(pat, pi)
                 behind == places[item.next]
             IN  {si \in 1 .. Len(s) : s[si] \in item.bytes /\ si + 1 \in behind}
  IN  places

\* A key the pattern means; the empty key only the bare `*` accepts, which the
\* filter recognises before any pattern is tried.
Means(pat, s) == s # <<>> /\ 1 \in Places(pat, s)[1]
=============================================================================

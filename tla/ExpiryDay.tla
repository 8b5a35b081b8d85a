------------------------------- MODULE ExpiryDay ------------------------------
(***************************************************************************)
(* expiryDay(): the day of the month in a date somebody wrote.  A text is  *)
(* a sequence of tokens; of a number it keeps the value and how many digits*)
(* it was written with, which is what the regular expressions look at.     *)
(***************************************************************************)
EXTENDS Integers, Sequences

Num(v, w) == [kind |-> "num", value |-> v, digits |-> w]
Sign(k) == [kind |-> k, value |-> 0, digits |-> 0]

\* Kinds of tokens: dash is - or /; month is an English name in full, arabic an
\* Arabic one, word any other run of ASCII letters ("Oct", the T of a timestamp).
Kinds == {"num", "dash", "space", "comma", "dot", "month", "arabic", "word"}

\* What \b sees: Arabic letters are not word characters.
WordKinds == {"num", "month", "word"}
StartsWord(t, i) == i = 1 \/ t[i - 1].kind \notin WordKinds
EndsWord(t, i) == i = Len(t) \/ t[i + 1].kind \notin WordKinds

Is(t, i, k) == i \in 1..Len(t) /\ t[i].kind = k
IsNum(t, i, widths) == Is(t, i, "num") /\ t[i].digits \in widths

First(S) == CHOOSE i \in S : \A j \in S : i <= j
Last(S) == CHOOSE i \in S : \A j \in S : i >= j

NoDay == 0
-----------------------------------------------------------------------------
(* The patterns, each with the number it captures; NoDay if it fails.       *)

Dashed(t, a, b, c) ==
  /\ IsNum(t, 1, a) /\ Is(t, 2, "dash") /\ IsNum(t, 3, b) /\ Is(t, 4, "dash")
  /\ IsNum(t, 5, c) /\ EndsWord(t, 5)

YearFirst(t) == IF Dashed(t, {4}, 1..2, 1..2) THEN t[5].value ELSE NoDay

\* A plausible bug, used by a mutant of PROJECT.json only.
AlwaysMonthFirst(t) == IF Dashed(t, 1..2, 1..2, {4}) THEN t[3].value ELSE NoDay

\* Of the first two groups the one that is no month, else month before day.
YearLast(t) ==
  IF ~Dashed(t, 1..2, 1..2, {4}) THEN NoDay
  ELSE IF t[1].value > 12 THEN t[1].value ELSE t[3].value

MonthNamed(t) ==
  LET after(i) == IF Is(t, i + 1, "dot") THEN i + 3 ELSE i + 2
      named == {i \in 1..Len(t) :
                  /\ Is(t, i, "month") /\ StartsWord(t, i)
                  /\ Is(t, after(i) - 1, "space")
                  /\ IsNum(t, after(i), 1..2) /\ EndsWord(t, after(i))}
  IN IF named = {} THEN NoDay ELSE t[after(First(named))].value

\* No boundary before it: of a longer number the last two digits are taken.
ArabicMonth(t) ==
  LET named == {i \in 1..Len(t) :
                  Is(t, i, "num") /\ Is(t, i + 1, "space") /\ Is(t, i + 2, "arabic")}
  IN IF named = {} THEN NoDay ELSE t[First(named)].value % 100

Bare(t) == IF Len(t) = 1 /\ IsNum(t, 1, 1..2) THEN t[1].value ELSE NoDay

\* The last number of 1 to 31 that stands alone; one padded with 0 is not seen.
LastResort(t) ==
  LET alone == {i \in 1..Len(t) :
                  /\ Is(t, i, "num") /\ StartsWord(t, i) /\ EndsWord(t, i)
                  /\ \/ t[i].digits = 1 /\ t[i].value > 0
                     \/ t[i].digits = 2 /\ t[i].value \in 10..31}
  IN IF alone = {} THEN NoDay ELSE t[Last(alone)].value

\* The first pattern that captures a day of a month; a day out of range falls
\* through to the next.
expiryDay(t) ==
  LET found == <<YearFirst(t), YearLast(t), MonthNamed(t), ArabicMonth(t), Bare(t), LastResort(t)>>
      good == {i \in DOMAIN found : found[i] \in 1..31}
  IN IF good = {} THEN NoDay ELSE found[First(good)]

-----------------------------------------------------------------------------
(* The dates people write, as the comment and the tests of expiryDay list   *)
(* them.                                                                    *)

Forms == {"bare", "yearFirst", "monthFirst", "dayFirst", "english", "short", "arabic"}

Date == [form : Forms, month : 1..12, day : 1..31, padded : BOOLEAN]

Small(v, padded) == Num(v, IF padded \/ v > 9 THEN 2 ELSE 1)
Year == Num(2026, 4)

Written(date) ==
  LET d == Small(date.day, date.padded)
      m == Small(date.month, date.padded)
      dash == Sign("dash")
      space == Sign("space")
  IN CASE date.form = "bare"       -> <<d>>
       [] date.form = "yearFirst"  -> <<Year, dash, m, dash, d>>
       [] date.form = "monthFirst" -> <<m, dash, d, dash, Year>>
       [] date.form = "dayFirst"   -> <<d, dash, m, dash, Year>>
       [] date.form = "english"    -> <<Sign("month"), space, d, Sign("comma"), space, Year>>
       [] date.form = "short"      -> <<Sign("word"), space, d, space, Year>>
       [] date.form = "arabic"     -> <<d, space, Sign("arabic"), space, Year>>

\* What cannot be told apart, day/month with a day that may be a month, and what the
\* code does not see, "Oct 05 2026", where the last resort skips padded numbers.
Legible(date) ==
  /\ date.form = "dayFirst" => date.day > 12
  /\ date.form = "short" => ~(date.padded /\ date.day < 10)
=============================================================================

------------------------------- MODULE WorkingClock -------------------------------
(***************************************************************************)
(* agni.obligations.domain.clock: when active time reaches a budget.       *)
(*                                                                         *)
(* Time is counted in units from 1 on. The eligible time of the calendar   *)
(* is a sequence of windows [from, until); under a CALENDAR basis they are *)
(* consecutive days. A pause whose end is Forever is still open, and a due *)
(* instant that is Forever is "no estimate". The loops of the code are     *)
(* functions of the number of their turns.                                 *)
(***************************************************************************)
EXTENDS Naturals, Sequences, FiniteSets

CONSTANTS
  Windows,  \* eligible time up to the search bound
  Forever   \* later than every window

\* A calendar is refused if a day closes before it opens; days follow each other.
ClockAssumption ==
  /\ Forever \in Nat
  /\ Windows \in Seq([from: 1..(Forever - 1), until: 1..(Forever - 1)])
  /\ \A i \in DOMAIN Windows : Windows[i].from < Windows[i].until
  /\ \A i, j \in DOMAIN Windows : i < j => Windows[i].until <= Windows[j].from

Later(a, b) == IF a < b THEN b ELSE a
Earlier(a, b) == IF a < b THEN a ELSE b

-----------------------------------------------------------------------------
(* The algorithm. *)

Before(p, q) == p.from < q.from \/ (p.from = q.from /\ p.until < q.until)

Ordered(pauses) ==
  CHOOSE s \in [1..Cardinality(pauses) -> pauses] : \A i, j \in DOMAIN s : i < j => Before(s[i], s[j])

MutJoin(p, q) == [from |-> p.from, until |-> q.until]
Join(p, q) == [from |-> p.from, until |-> Later(p.until, q.until)]

\* A pause that touches the last one extends it.
Absorb(merged, p) ==
  LET n == Len(merged) IN
  IF n > 0 /\ p.from <= merged[n].until THEN [merged EXCEPT ![n] = Join(@, p)] ELSE Append(merged, p)

\* The union of the pauses, in order and disjoint.
MergePauses(pauses) ==
  LET ordered == Ordered(pauses)
      merged[n \in 0..Len(ordered)] == IF n = 0 THEN <<>> ELSE Absorb(merged[n - 1], ordered[n])
  IN merged[Len(ordered)]

\* Progress through the windows: the cursor, what is left of the budget, and
\* the answer, 0 until there is one. Spend runs the clock to `instant`.
Spend(st, instant) ==
  IF instant - st.cursor >= st.remaining
  THEN [st EXCEPT !.due = st.cursor + st.remaining]
  ELSE [st EXCEPT !.cursor = instant, !.remaining = @ - (instant - st.cursor)]

PassPause(st, p, until) ==
  LET to == Later(st.cursor, Earlier(p.from, until))
      spent == IF to > st.cursor THEN Spend(st, to) ELSE st
  IN IF st.due # 0 \/ p.until <= st.cursor \/ p.from >= until THEN st
     ELSE IF spent.due # 0 THEN spent
     ELSE IF p.until = Forever THEN [spent EXCEPT !.due = Forever]
     ELSE [spent EXCEPT !.cursor = Later(to, Earlier(p.until, until))]

\* One turn for a window: a day that is over by the start is not eligible.
PassWindow(st, w, start, merged) ==
  LET pass[k \in 0..Len(merged)] ==
        IF k = 0 THEN [st EXCEPT !.cursor = Later(w.from, start)] ELSE PassPause(pass[k - 1], merged[k], w.until)
      after == pass[Len(merged)]
  IN IF st.due # 0 \/ w.until <= start THEN st
     ELSE IF after.due = 0 /\ after.cursor < w.until THEN Spend(after, w.until)
     ELSE after

DueInstant(start, budget, pauses) ==
  LET merged == MergePauses(pauses)
      through[n \in 0..Len(Windows)] ==
        IF n = 0 THEN [cursor |-> start, remaining |-> budget, due |-> 0]
        ELSE PassWindow(through[n - 1], Windows[n], start, merged)
      last == through[Len(Windows)]
  IN IF last.due = 0 THEN Forever ELSE last.due

-----------------------------------------------------------------------------
(* What it computes, by definition. *)

\* Active time: eligible and in no pause, however the pauses overlap.
ActiveMinutes(start, cutoff, pauses) ==
  Cardinality({m \in start..(cutoff - 1) :
    /\ \E i \in DOMAIN Windows : Windows[i].from <= m /\ m < Windows[i].until
    /\ \A p \in pauses : ~(p.from <= m /\ m < p.until)})

EarliestDue(start, budget, pauses) ==
  LET reached == {t \in start..Forever : ActiveMinutes(start, Earlier(t, Forever - 1), pauses) >= budget}
  IN IF reached = {} THEN Forever ELSE CHOOSE t \in reached : \A u \in reached : t <= u
=============================================================================

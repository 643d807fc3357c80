----------------------------- MODULE MCCalendar ------------------------------
(* Calendar on short walks. *)
EXTENDS Calendar

On(y, m, d) == [year |-> y, month |-> m, day |-> d]
At(h, m, s) == [hour |-> h, minute |-> m, second |-> s]

\* The first day a text can name, the end of an era, a century that is not a leap
\* year and one that is, the epoch, and the present.
SomeStarts == {On(0, 1, 1), On(399, 12, 1), On(1899, 1, 1), On(1969, 12, 1),
               On(1999, 1, 1), On(2023, 1, 1)}
SomeTimes == {At(0, 0, 0), At(0, 0, 1), At(23, 59, 59), At(23, 59, 60)}
=============================================================================

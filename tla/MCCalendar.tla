----------------------------- MODULE MCCalendar -----------------------------
(* Every reset day over three years, the middle one a leap year. *)
EXTENDS Calendar

AllDays == 1 .. 31
=============================================================================

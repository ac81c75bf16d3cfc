-------------------------- MODULE TradingCalendars --------------------------
(***************************************************************************)
(* Trading calendars (trp/canonical/calendars.py).  A calendar is a record *)
(* of its sessions and half days, both within the range it supports.       *)
(***************************************************************************)
EXTENDS Integers, FiniteSets

CONSTANTS
    Calendar,   \* the calendar of each market that has one
    NoDay       \* the end of a listing that has none

Supported(mic) == mic \in DOMAIN Calendar

\* TradingCalendar.__init__: what the library knows, cut to the supported range
Cut(sessions, half, first, last) ==
    [sessions |-> {d \in sessions : first <= d /\ d <= last},
     half |-> {d \in half \cap sessions : first <= d /\ d <= last},
     first |-> first, last |-> last]

\* Mutant: the end is exclusive, as in a range of Python.
SessionsUntil(c, start, end) == {d \in c.sessions : start <= d /\ d < end}

\* sessions_between, both ends included
SessionsBetween(c, start, end) == {d \in c.sessions : start <= d /\ d <= end}

MissingSessions(c, observed, start, end) == SessionsBetween(c, start, end) \ observed
=============================================================================

---------------------------- MODULE MCPriorityPolicy ----------------------------
(* Two simulcast streams of a (300 and 1200 kbit/s), one of b.  The reports   *)
(* are of loss with hardly any bandwidth, of some, and of plenty.             *)
EXTENDS PriorityPolicy

MCAttendee == <<"a", "a", "b">>
MCRate == <<3, 12, 6>>
MCIndexes == {{}, {1}, {1, 2}, {1, 2, 3}}
Prefer(a, p, size) == [attendee |-> a, priority |-> p, size |-> size]
MCPreferences == {<<Prefer("b", 1, 12), Prefer("a", 2, 12)>>}
MCReports == {[est |-> 2, loss |-> 3, used |-> 1], [est |-> 8, loss |-> 0, used |-> 10],
              [est |-> 30, loss |-> 0, used |-> 6]}
=============================================================================

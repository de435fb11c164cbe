-------------------------- MODULE MCVideoSubscription --------------------------
(* Three publications: two simulcast streams of a, one of b, and one of a    *)
(* after it has come back.                                                   *)
EXTENDS VideoSubscription

MCAttendee == <<"a", "a", "b", "a">>
MCGroup == <<1, 1, 2, 3>>
MCFirstFrames == {{}, {1, 2, 3}}
MCIndexes == MCFirstFrames \cup {{1, 3}, {1, 3, 4}, {3, 4}}
=============================================================================
